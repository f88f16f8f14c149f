--------------------------- MODULE HardRiskProofs ---------------------------
(***************************************************************************)
(* Theorems about HardRisk for any number of processes, orders, accounts,  *)
(* policies and clock values: types, single dispatch and the contract; the *)
(* chain of policies and the limits daily usage respects; the audit chain  *)
(* of every order, receipts and the finality of evidence; and that daily   *)
(* usage is the sum of the reservations.                                   *)
(***************************************************************************)
EXTENDS HardRisk, FiniteSums, SequenceTheorems, TLAPS

(* The clock reading a committed transaction stores is a time.             *)
LEMMA TransactType ==
    ASSUME TypeOK, NEW p \in Procs, Transact(p)
    PROVE  /\ stamp[p] \in Time
           /\ clock' \in Time
           /\ stamp' \in [Procs -> Time \cup {NoStamp}]
BY DEF TypeOK, Transact

(* What a policy charges a request is a natural number.                    *)
LEMMA AmountType ==
    ASSUME NEW policy \in Policies, NEW r \in Requests, NEW rule \in Rules
    PROVE  Amount(policy, r, rule) \in Nat
BY RequestsAssumption, PoliciesAssumption DEF Amount, RequestType, ValidPolicy

(* Appending an event keeps an audit table well typed.                     *)
LEMMA AppendType ==
    ASSUME TypeOK, NEW k \in Keys, NEW kind \in EventKinds, NEW now \in Time
    PROVE  Append(audit[k], Event(kind, now)) \in Seq([kind: EventKinds, at: Time])
<1> DEFINE EventType == [kind: EventKinds, at: Time]
<1>1. audit[k] \in Seq(EventType)
  BY DEF TypeOK
<1>2. Event(kind, now) \in EventType
  BY DEF Event
<1> HIDE DEF EventType
<1>3. Append(audit[k], Event(kind, now)) \in Seq(EventType)
  BY <1>1, <1>2
<1> QED BY <1>3 DEF EventType

(* The rows that admission, a lease and a receipt write are rows.          *)
LEMMA PreparedRowType ==
    ASSUME NEW policy \in Policies, NEW r \in Requests, NEW now \in Time
    PROVE  [AbsentRow EXCEPT !.state = "Prepared", !.request = r,
                             !.policy = policy, !.updated = now] \in OrderRow
<1>1. AbsentRow \in OrderRow
  BY BoundsAssumption DEF AbsentRow, OrderRow, OrderStates, Time
<1> QED BY <1>1 DEF OrderRow, OrderStates

LEMMA LeasedRowType ==
    ASSUME NEW row \in OrderRow, NEW p \in Procs, NEW now \in Time, NEW e \in Time
    PROVE  [row EXCEPT !.state = "Submitting", !.owner = p, !.updated = now,
                       !.expiry = e, !.generation = row.generation + 1] \in OrderRow
<1>1. row.generation + 1 \in Nat
  BY DEF OrderRow
<1> QED BY <1>1 DEF OrderRow, OrderStates

LEMMA SubmittedRowType ==
    ASSUME NEW row \in OrderRow, NEW now \in Time
    PROVE  [row EXCEPT !.state = "Submitted", !.receipt = TRUE, !.updated = now]
              \in OrderRow
BY DEF OrderRow, OrderStates

LEMMA TerminalRowType ==
    ASSUME NEW row \in OrderRow, NEW t \in Terminals,
           NEW rev \in Revisions \cup {None}, NEW now \in Time
    PROVE  [row EXCEPT !.state = "Terminal", !.terminal = t, !.revision = rev,
                       !.updated = now] \in OrderRow
BY DEF OrderRow, OrderStates

(* Appending two events, as reconcile_terminal does.                       *)
LEMMA ConcatType ==
    ASSUME TypeOK, NEW k \in Keys, NEW now \in Time
    PROVE  audit[k] \o <<Event("recovered_submission", now), Event("terminal", now)>>
              \in Seq([kind: EventKinds, at: Time])
<1> DEFINE EventType == [kind: EventKinds, at: Time]
<1>1. audit[k] \in Seq(EventType)
  BY DEF TypeOK
<1>2. Event("recovered_submission", now) \in EventType /\ Event("terminal", now) \in EventType
  BY DEF Event, EventKinds
<1> HIDE DEF EventType
<1>3. <<Event("recovered_submission", now), Event("terminal", now)>> \in Seq(EventType)
  BY <1>2
<1>4. audit[k] \o <<Event("recovered_submission", now), Event("terminal", now)>>
        \in Seq(EventType)
  BY <1>1, <1>3
<1> QED BY <1>4 DEF EventType

(* Marking rows indeterminate keeps rows and audit well typed.             *)
LEMMA MarkType ==
    ASSUME TypeOK, NEW ks, NEW now \in Time, MarkIndeterminate(ks, now)
    PROVE  /\ orders' \in [Keys -> OrderRow]
           /\ audit' \in [Keys -> Seq([kind: EventKinds, at: Time])]
<1>1. \A k \in Keys : Append(audit[k], Event("indeterminate", now))
                         \in Seq([kind: EventKinds, at: Time])
  BY AppendType DEF EventKinds
<1>2. \A k \in Keys : [orders[k] EXCEPT !.state = "Indeterminate", !.updated = now]
                         \in OrderRow
  <2>1. \A row \in OrderRow : [row EXCEPT !.state = "Indeterminate", !.updated = now]
                                \in OrderRow
    BY DEF OrderRow, OrderStates
  <2> QED BY <2>1 DEF TypeOK
<1> QED BY <1>1, <1>2 DEF MarkIndeterminate, TypeOK

(* Every action keeps every variable in its type.                          *)
LEMMA TypeStep == TypeOK /\ [Next]_vars => TypeOK'
<1> SUFFICES ASSUME TypeOK, [Next]_vars PROVE TypeOK'
  OBVIOUS
<1> USE DEF memory, policyDb, riskDb
<1>1. ASSUME NEW p \in Procs, ReadClock(p) PROVE TypeOK'
  BY <1>1 DEF ReadClock, TypeOK
<1>2. ASSUME NEW p \in Procs, NEW a \in Accounts, ReadActivePolicy(p, a)
      PROVE  TypeOK'
  BY <1>2 DEF ReadActivePolicy, TypeOK
<1>3. ASSUME NEW p \in Procs, NEW a \in Accounts, NEW policy \in Policies,
             InstallPolicy(p, a, policy)
      PROVE  TypeOK'
  <2>1. clock' \in Time /\ stamp' \in [Procs -> Time \cup {NoStamp}]
    BY <1>3, TransactType DEF InstallPolicy
  <2>2. activations' \in
           [Accounts -> Seq([policy: Policies, expected: Policies \cup {None}])]
    <3> DEFINE Activation == [policy: Policies, expected: Policies \cup {None}]
               new == [policy |-> policy, expected |-> expect[p][a]]
    <3>1. new \in Activation /\ activations \in [Accounts -> Seq(Activation)]
      BY DEF TypeOK
    <3> HIDE DEF Activation, new
    <3>2. Append(activations[a], new) \in Seq(Activation)
      BY <3>1
    <3>3. activations' \in [Accounts -> Seq(Activation)]
      BY <1>3, <3>1, <3>2 DEF InstallPolicy, new
    <3> QED BY <3>3 DEF Activation
  <2> QED BY <1>3, <2>1, <2>2 DEF InstallPolicy, TypeOK
<1>4. ASSUME NEW p \in Procs, NEW r \in Requests, Prepare(p, r) PROVE TypeOK'
  <2> DEFINE policy == active[r.account]
  <2>1. /\ stamp[p] \in Time /\ clock' \in Time
        /\ stamp' \in [Procs -> Time \cup {NoStamp}]
    BY <1>4, TransactType DEF Prepare
  <2>2. policy \in Policies /\ r.key \in Keys /\ ScopeOf(r) \in Scopes
    BY <1>4, RequestsAssumption DEF Prepare, TypeOK, RequestType, ScopeOf, Scopes
  <2>3. \A rule \in Rules : Amount(policy, r, rule) \in Nat
    BY <2>2, AmountType
  <2>4. reserved' \in [Keys -> [Rules -> Nat]]
    BY <1>4, <2>2, <2>3 DEF Prepare, ReservedAfter, TypeOK
  <2>5. usage' \in [Scopes -> [Rules -> Nat]]
    BY <1>4, <2>2, <2>3 DEF Prepare, UsageAfter, TypeOK
  <2>6. orders' \in [Keys -> OrderRow]
    <3>1. [AbsentRow EXCEPT !.state = "Prepared", !.request = r,
                            !.policy = policy, !.updated = stamp[p]] \in OrderRow
      BY <2>1, <2>2, PreparedRowType
    <3> QED BY <1>4, <3>1, <2>2 DEF Prepare, Admitted, TypeOK
  <2>7. audit' \in [Keys -> Seq([kind: EventKinds, at: Time])]
    <3>1. Append(audit[r.key], Event("prepared", stamp[p]))
            \in Seq([kind: EventKinds, at: Time])
      BY <2>1, <2>2, AppendType DEF EventKinds
    <3> QED BY <1>4, <3>1, <2>2 DEF Prepare, Admitted, TypeOK
  <2> QED BY <1>4, <2>1, <2>4, <2>5, <2>6, <2>7 DEF Prepare, TypeOK
<1>5. ASSUME NEW p \in Procs, NEW k \in Keys, GrantLease(p, k) PROVE TypeOK'
  <2>1. /\ stamp[p] \in Time /\ clock' \in Time
        /\ stamp' \in [Procs -> Time \cup {NoStamp}]
    BY <1>5, TransactType DEF GrantLease
  <2>2. orders[k] \in OrderRow /\ stamp[p] + Lease \in Time
    BY <1>5, <2>1, BoundsAssumption DEF GrantLease, TypeOK, Time
  <2> DEFINE row == [orders[k] EXCEPT !.state = "Submitting", !.owner = p,
                        !.updated = stamp[p], !.expiry = stamp[p] + Lease,
                        !.generation = orders[k].generation + 1]
  <2>3. row \in OrderRow /\ orders' = [orders EXCEPT ![k] = row]
    BY <1>5, <2>1, <2>2, LeasedRowType DEF GrantLease, Leased
  <2> HIDE DEF row
  <2>4. orders' \in [Keys -> OrderRow]
    BY <2>3 DEF TypeOK
  <2>5. Append(audit[k], Event("submission_lease_granted", stamp[p]))
          \in Seq([kind: EventKinds, at: Time])
    BY <2>1, AppendType DEF EventKinds
  <2>6. Permit(p, k, orders[k].generation + 1, "held") \in PermitType
    BY <2>2 DEF Permit, PermitType, OrderRow
  <2> QED BY <1>5, <2>1, <2>4, <2>5, <2>6 DEF GrantLease, Leased, TypeOK
<1>6. ASSUME NEW p \in Procs, NEW k \in Keys, ExpireOnBegin(p, k) PROVE TypeOK'
  BY <1>6, TransactType, MarkType DEF ExpireOnBegin, TypeOK
<1>7. ASSUME NEW p \in Procs, NEW k \in Keys, NEW t \in Terminals,
             NEW rev \in Revisions \cup {None}, ObserveTerminal(p, k, t, rev)
      PROVE  TypeOK'
  <2>1. /\ stamp[p] \in Time /\ clock' \in Time
        /\ stamp' \in [Procs -> Time \cup {NoStamp}]
    BY <1>7, TransactType DEF ObserveTerminal
  <2>2. TerminalRow(k, t, rev, stamp[p]) \in OrderRow
    <3>1. orders[k] \in OrderRow
      BY DEF TypeOK
    <3> QED BY <2>1, <3>1, TerminalRowType DEF TerminalRow
  <2>3. Append(audit[k], Event("terminal", stamp[p]))
          \in Seq([kind: EventKinds, at: Time])
    BY <2>1, AppendType DEF EventKinds
  <2> QED BY <1>7, <2>1, <2>2, <2>3 DEF ObserveTerminal, TypeOK
<1>8. ASSUME NEW p \in Procs, NEW k \in Keys, NEW s \in Scopes, NEW t \in Terminals,
             NEW rev \in Revisions, ReconcileTerminal(p, k, s, t, rev)
      PROVE  TypeOK'
  <2>1. /\ stamp[p] \in Time /\ clock' \in Time
        /\ stamp' \in [Procs -> Time \cup {NoStamp}]
    BY <1>8, TransactType DEF ReconcileTerminal
  <2>2. TerminalRow(k, t, rev, stamp[p]) \in OrderRow
    <3>1. orders[k] \in OrderRow
      BY DEF TypeOK
    <3> QED BY <2>1, <3>1, TerminalRowType DEF TerminalRow
  <2>3. audit[k] \o <<Event("recovered_submission", stamp[p]),
                      Event("terminal", stamp[p])>>
          \in Seq([kind: EventKinds, at: Time])
    BY <2>1, ConcatType
  <2> QED BY <1>8, <2>1, <2>2, <2>3 DEF ReconcileTerminal, TypeOK
<1>9. ASSUME NEW p \in Procs, NEW s \in Scopes, RecoverExpired(p, s) PROVE TypeOK'
  BY <1>9, TransactType, MarkType DEF RecoverExpired, TypeOK
<1>10. ASSUME NEW p \in Procs, NEW lost, Abandon(p, lost) PROVE TypeOK'
  BY <1>10 DEF Abandon, TypeOK
<1>11. ASSUME NEW p \in Procs, Crash(p) PROVE TypeOK'
  BY <1>11 DEF Crash, TypeOK
<1>12. ASSUME NEW m \in permits, NEW phase \in {"acknowledged", "ambiguous"},
              NEW reached \in BOOLEAN, Send(m, phase, reached)
       PROVE  TypeOK'
  <2>1. m \in PermitType /\ [m EXCEPT !.phase = phase] \in PermitType
    BY DEF TypeOK, PermitType
  <2>2. sent' \in [Keys -> Nat]
    BY <1>12, <2>1 DEF Send, TypeOK, PermitType
  <2> QED BY <1>12, <2>1, <2>2 DEF Send, TypeOK
<1>13. ASSUME NEW m \in permits, RecordSubmitted(m) PROVE TypeOK'
  <2>1. m.proc \in Procs /\ m.key \in Keys
    BY DEF TypeOK, PermitType
  <2>2. /\ stamp[m.proc] \in Time /\ clock' \in Time
        /\ stamp' \in [Procs -> Time \cup {NoStamp}]
    BY <1>13, <2>1, TransactType DEF RecordSubmitted
  <2>3. CASE MarkIndeterminate({m.key}, stamp[m.proc])
    BY <1>13, <2>2, <2>3, MarkType DEF RecordSubmitted, TypeOK
  <2>4. CASE ~MarkIndeterminate({m.key}, stamp[m.proc])
    <3>1. [orders[m.key] EXCEPT !.state = "Submitted", !.receipt = TRUE,
                                !.updated = stamp[m.proc]] \in OrderRow
      BY <2>1, <2>2, SubmittedRowType DEF TypeOK
    <3>2. Append(audit[m.key], Event("submitted", stamp[m.proc]))
            \in Seq([kind: EventKinds, at: Time])
      BY <2>1, <2>2, AppendType DEF EventKinds
    <3> QED BY <1>13, <2>1, <2>2, <2>4, <3>1, <3>2, ZenonT(60) DEF RecordSubmitted, TypeOK
  <2> QED BY <2>3, <2>4
<1>14. ASSUME NEW m \in permits, RecordIndeterminate(m) PROVE TypeOK'
  <2>1. m.proc \in Procs
    BY DEF TypeOK, PermitType
  <2> QED BY <1>14, <2>1, TransactType, MarkType DEF RecordIndeterminate, TypeOK
<1>15. CASE Tick
  <2>1. wall' \in Time
    BY <1>15, BoundsAssumption DEF Tick, TypeOK, Time
  <2> QED BY <1>15, <2>1 DEF Tick, TypeOK
<1>16. CASE SetClockBack
  <2>1. wall' \in Time
    BY <1>16, BoundsAssumption DEF SetClockBack, TypeOK, Time
  <2> QED BY <1>16, <2>1 DEF SetClockBack, TypeOK
<1>17. CASE UNCHANGED vars
  BY <1>17 DEF vars, TypeOK
<1>18. \A m \in permits : m.proc \in Procs
  BY DEF TypeOK, PermitType
<1> QED
  BY <1>1, <1>2, <1>3, <1>4, <1>5, <1>6, <1>7, <1>8, <1>9, <1>10, <1>11, <1>12,
     <1>13, <1>14, <1>15, <1>16, <1>17, <1>18
     DEF Next, ProcessOp, PermitOp, OrderOp, BeginSubmission

(* The schema's types hold in every reachable state, whatever processes,   *)
(* crashes and clock steps do.                                             *)
THEOREM TypeCorrect == Spec => []TypeOK
<1>1. Init => TypeOK
  BY BoundsAssumption DEF Init, TypeOK, AbsentRow, OrderRow, OrderStates, Time
<1> QED BY <1>1, TypeStep, PTL DEF Spec

-----------------------------------------------------------------------------
(* One send per order.  sent[k] <= 1 is not inductive: it needs to know    *)
(* that an order has at most one permit, which exists only once the row    *)
(* has left Prepared, and that a permit still "held" belongs to an order   *)
(* that was never sent.                                                    *)

InFlightOrLater(k) == orders[k].state \notin {"Absent", "Prepared"}

PermitInv ==
    /\ \A m \in permits : InFlightOrLater(m.key)
    /\ \A m, n \in permits : m.key = n.key => m = n
    /\ \A m \in permits : m.phase = "held" => sent[m.key] = 0
    /\ \A m \in permits : m.phase = "acknowledged" => sent[m.key] = 1

SentInv ==
    \A k \in Keys :
       /\ sent[k] <= 1
       /\ sent[k] > 0 => InFlightOrLater(k)
       /\ orders[k].receipt => InFlightOrLater(k) /\ sent[k] = 1

(* Every admitted row keeps the request and policy whose amounts it        *)
(* reserved.                                                               *)
ReservedInv ==
    \A k \in Keys :
       orders[k].state # "Absent" =>
          /\ orders[k].request \in Requests
          /\ orders[k].policy \in Policies
          /\ \A rule \in Rules :
                reserved[k][rule] = Amount(orders[k].policy, orders[k].request, rule)

DispatchInv == TypeOK /\ PermitInv /\ SentInv /\ ReservedInv

(* Rows only change by steps that keep them admitted, their request, their *)
(* policy and their receipt: the common part of the transactions that      *)
(* neither admit, lease nor acknowledge.                                   *)
Forward ==
    \A k \in Keys :
       /\ InFlightOrLater(k) => InFlightOrLater(k)'
       /\ orders'[k].state # "Absent" => orders[k].state # "Absent"
       /\ orders'[k].request = orders[k].request
       /\ orders'[k].policy = orders[k].policy
       /\ orders'[k].receipt = orders[k].receipt

(* A forward step that sends nothing and issues no permit keeps the        *)
(* invariant.                                                              *)
LEMMA ForwardKeeps ==
    ASSUME DispatchInv, TypeOK', Forward, permits' \subseteq permits,
           UNCHANGED <<sent, reserved>>
    PROVE  DispatchInv'
<1>1. \A m \in permits : m.key \in Keys
  BY DEF DispatchInv, TypeOK, PermitType
<1>2. PermitInv'
  BY <1>1 DEF DispatchInv, PermitInv, Forward, InFlightOrLater
<1>3. SentInv'
  BY DEF DispatchInv, SentInv, Forward, InFlightOrLater
<1>4. ReservedInv'
  BY DEF DispatchInv, ReservedInv, Forward
<1> QED BY <1>2, <1>3, <1>4 DEF DispatchInv

(* Marking in-flight rows indeterminate and settling a row are forward.    *)
LEMMA MarkForward ==
    ASSUME TypeOK, NEW ks, NEW now, MarkIndeterminate(ks, now),
           \A k \in ks : orders[k].state = "Submitting"
    PROVE  Forward
BY ZenonT(60) DEF TypeOK, OrderRow, MarkIndeterminate, Forward, InFlightOrLater

LEMMA TerminalForward ==
    ASSUME TypeOK, NEW k \in Keys, NEW t, NEW rev, NEW now, InFlightOrLater(k),
           orders' = [orders EXCEPT ![k] = TerminalRow(k, t, rev, now)]
    PROVE  Forward
BY DEF TypeOK, OrderRow, TerminalRow, Forward, InFlightOrLater

(* Every action keeps DispatchInv.                                         *)
LEMMA DispatchStep == DispatchInv /\ [Next]_vars => DispatchInv'
<1> SUFFICES ASSUME DispatchInv, [Next]_vars PROVE DispatchInv'
  OBVIOUS
<1> USE DEF memory, policyDb, riskDb
<1>0. TypeOK /\ TypeOK'
  BY TypeStep DEF DispatchInv
<1>q. ASSUME UNCHANGED <<orders, sent, reserved>>, permits' \subseteq permits
      PROVE  DispatchInv'
  <2>1. Forward
    BY <1>q DEF Forward, InFlightOrLater
  <2> QED BY <1>0, <1>q, <2>1, ForwardKeeps
<1>1. ASSUME NEW p \in Procs, ReadClock(p) PROVE DispatchInv'
  BY <1>1, <1>q DEF ReadClock
<1>2. ASSUME NEW p \in Procs, NEW a \in Accounts, ReadActivePolicy(p, a)
      PROVE  DispatchInv'
  BY <1>2, <1>q DEF ReadActivePolicy
<1>3. ASSUME NEW p \in Procs, NEW a \in Accounts, NEW policy \in Policies,
             InstallPolicy(p, a, policy)
      PROVE  DispatchInv'
  BY <1>3, <1>q DEF InstallPolicy
<1>4. ASSUME NEW p \in Procs, NEW r \in Requests, Prepare(p, r) PROVE DispatchInv'
  <2> DEFINE policy == active[r.account]
  <2>1. policy \in Policies /\ r.key \in Keys
    BY <1>0, <1>4, RequestsAssumption DEF Prepare, TypeOK, RequestType
  <2>2. /\ orders[r.key].state = "Absent" /\ UNCHANGED <<sent, permits>>
        /\ orders'[r.key].state = "Prepared" /\ orders'[r.key].request = r
        /\ orders'[r.key].policy = policy /\ orders'[r.key].receipt = FALSE
        /\ \A k \in Keys \ {r.key} : orders'[k] = orders[k]
    BY <1>0, <1>4, <2>1 DEF Prepare, Admitted, AbsentRow, TypeOK
  <2>3. /\ \A k \in Keys \ {r.key} : reserved'[k] = reserved[k]
        /\ \A rule \in Rules : reserved'[r.key][rule] = Amount(policy, r, rule)
    BY <1>0, <1>4, <2>1 DEF Prepare, ReservedAfter, TypeOK
  <2>4. \A m \in permits : m.key \in Keys \ {r.key}
    BY <1>0, <2>2 DEF DispatchInv, PermitInv, InFlightOrLater, TypeOK, PermitType
  <2>5. PermitInv'
    BY <2>2, <2>4 DEF DispatchInv, PermitInv, InFlightOrLater
  <2>6. SentInv'
    BY <1>0, <2>2 DEF DispatchInv, SentInv, InFlightOrLater, TypeOK
  <2>7. ReservedInv'
    BY <2>1, <2>2, <2>3 DEF DispatchInv, ReservedInv
  <2> QED BY <1>0, <2>5, <2>6, <2>7 DEF DispatchInv
<1>5. ASSUME NEW p \in Procs, NEW k \in Keys, GrantLease(p, k) PROVE DispatchInv'
  <2> DEFINE new == Permit(p, k, orders[k].generation + 1, "held")
  <2>1. /\ orders[k].state = "Prepared" /\ UNCHANGED <<sent, reserved>>
        /\ permits' = permits \cup {new} /\ new.key = k /\ new.phase = "held"
    BY <1>5 DEF GrantLease, Leased, Permit
  <2>2. /\ orders'[k].state = "Submitting" /\ orders'[k].request = orders[k].request
        /\ orders'[k].policy = orders[k].policy
        /\ orders'[k].receipt = orders[k].receipt
        /\ \A j \in Keys \ {k} : orders'[j] = orders[j]
    BY <1>0, <1>5 DEF GrantLease, Leased, TypeOK, OrderRow
  <2>3. \A m \in permits : m.key \in Keys \ {k}
    BY <1>0, <2>1 DEF DispatchInv, PermitInv, InFlightOrLater, TypeOK, PermitType
  <2>4. sent[k] = 0
    BY <1>0, <2>1 DEF DispatchInv, SentInv, InFlightOrLater, TypeOK
  <2> HIDE DEF new
  <2>5. PermitInv'
    BY <2>1, <2>2, <2>3, <2>4 DEF DispatchInv, PermitInv, InFlightOrLater
  <2>6. SentInv'
    BY <2>1, <2>2, <2>4 DEF DispatchInv, SentInv, InFlightOrLater
  <2>7. ReservedInv'
    BY <2>1, <2>2 DEF DispatchInv, ReservedInv
  <2> QED BY <1>0, <2>5, <2>6, <2>7 DEF DispatchInv
<1>6. ASSUME NEW p \in Procs, NEW k \in Keys, ExpireOnBegin(p, k) PROVE DispatchInv'
  BY <1>0, <1>6, MarkForward, ForwardKeeps DEF ExpireOnBegin
<1>7. ASSUME NEW p \in Procs, NEW k \in Keys, NEW t, NEW rev, ObserveTerminal(p, k, t, rev)
      PROVE  DispatchInv'
  <2>1. Forward
    BY <1>0, <1>7, TerminalForward DEF ObserveTerminal, InFlightOrLater
  <2> QED BY <1>0, <1>7, <2>1, ForwardKeeps DEF ObserveTerminal
<1>8. ASSUME NEW p \in Procs, NEW k \in Keys, NEW s, NEW t, NEW rev,
             ReconcileTerminal(p, k, s, t, rev)
      PROVE  DispatchInv'
  <2>1. Forward
    BY <1>0, <1>8, TerminalForward DEF ReconcileTerminal, InFlightOrLater
  <2> QED BY <1>0, <1>8, <2>1, ForwardKeeps DEF ReconcileTerminal
<1>9. ASSUME NEW p \in Procs, NEW s \in Scopes, RecoverExpired(p, s) PROVE DispatchInv'
  <2>1. Forward
    BY <1>0, <1>9, MarkForward DEF RecoverExpired, ExpiredIn
  <2> QED BY <1>0, <1>9, <2>1, ForwardKeeps DEF RecoverExpired
<1>10. ASSUME NEW p \in Procs, NEW lost, Abandon(p, lost) PROVE DispatchInv'
  BY <1>10, <1>q DEF Abandon
<1>11. ASSUME NEW p \in Procs, Crash(p) PROVE DispatchInv'
  BY <1>11, <1>q DEF Crash
<1>12. ASSUME NEW m \in permits, NEW phase \in {"acknowledged", "ambiguous"},
              NEW reached \in BOOLEAN, Send(m, phase, reached)
       PROVE  DispatchInv'
  <2> DEFINE new == [m EXCEPT !.phase = phase]
  <2>1. /\ m.key \in Keys /\ new.key = m.key /\ new.phase = phase
        /\ permits' = (permits \ {m}) \cup {new} /\ m.phase = "held"
        /\ UNCHANGED <<orders, reserved>>
    BY <1>0, <1>12 DEF Send, TypeOK, PermitType
  <2>2. /\ sent[m.key] = 0
        /\ \A k \in Keys \ {m.key} : sent'[k] = sent[k]
        /\ sent'[m.key] = IF reached THEN 1 ELSE 0
        /\ phase = "acknowledged" => reached
    BY <1>0, <1>12, <2>1 DEF Send, DispatchInv, PermitInv, TypeOK
  <2>3. \A n \in permits \ {m} : n.key \in Keys \ {m.key}
    BY <1>0 DEF DispatchInv, PermitInv, TypeOK, PermitType
  <2> HIDE DEF new
  <2>4. PermitInv'
    BY <2>1, <2>2, <2>3 DEF DispatchInv, PermitInv, InFlightOrLater
  <2>5. SentInv'
    BY <2>1, <2>2 DEF DispatchInv, SentInv, PermitInv, InFlightOrLater
  <2>6. ReservedInv'
    BY <2>1 DEF DispatchInv, ReservedInv
  <2> QED BY <1>0, <2>4, <2>5, <2>6 DEF DispatchInv
<1>13. ASSUME NEW m \in permits, RecordSubmitted(m) PROVE DispatchInv'
  <2> DEFINE k == m.key
  <2>1. /\ k \in Keys /\ orders[k].state = "Submitting" /\ permits' \subseteq permits
        /\ sent[k] = 1 /\ UNCHANGED <<sent, reserved>>
    BY <1>0, <1>13 DEF RecordSubmitted, DispatchInv, PermitInv, TypeOK, PermitType
  <2>2. CASE MarkIndeterminate({k}, stamp[m.proc])
    BY <1>0, <2>1, <2>2, MarkForward, ForwardKeeps
  <2>3. CASE ~MarkIndeterminate({k}, stamp[m.proc])
    <3>1. /\ orders'[k].state = "Submitted" /\ orders'[k].request = orders[k].request
          /\ orders'[k].policy = orders[k].policy
          /\ \A j \in Keys \ {k} : orders'[j] = orders[j]
      <4>1. orders' = [orders EXCEPT ![k] =
               [orders[k] EXCEPT !.state = "Submitted", !.receipt = TRUE,
                                 !.updated = stamp[m.proc]]]
        BY <1>13, <2>3 DEF RecordSubmitted
      <4>2. orders[k] \in OrderRow /\ orders \in [Keys -> OrderRow]
        BY <1>0, <2>1 DEF TypeOK
      <4> QED BY <2>1, <4>1, <4>2 DEF OrderRow
    <3>2. PermitInv'
      BY <1>0, <2>1, <3>1 DEF DispatchInv, PermitInv, InFlightOrLater, TypeOK, PermitType
    <3>3. SentInv'
      BY <2>1, <3>1 DEF DispatchInv, SentInv, InFlightOrLater
    <3>4. ReservedInv'
      BY <2>1, <3>1 DEF DispatchInv, ReservedInv
    <3> QED BY <1>0, <3>2, <3>3, <3>4 DEF DispatchInv
  <2> QED BY <2>2, <2>3
<1>14. ASSUME NEW m \in permits, RecordIndeterminate(m) PROVE DispatchInv'
  BY <1>0, <1>14, MarkForward, ForwardKeeps DEF RecordIndeterminate
<1>15. CASE Tick
  BY <1>15, <1>q DEF Tick
<1>16. CASE SetClockBack
  BY <1>16, <1>q DEF SetClockBack
<1>17. CASE UNCHANGED vars
  BY <1>17, <1>q DEF vars
<1>18. \A m \in permits : m.proc \in Procs
  BY <1>0 DEF TypeOK, PermitType
<1> QED
  BY <1>1, <1>2, <1>3, <1>4, <1>5, <1>6, <1>7, <1>8, <1>9, <1>10, <1>11, <1>12,
     <1>13, <1>14, <1>15, <1>16, <1>17, <1>18
     DEF Next, ProcessOp, PermitOp, OrderOp, BeginSubmission

LEMMA DispatchInvariant == Spec => []DispatchInv
<1>1. Init => DispatchInv
  <2> SUFFICES ASSUME Init PROVE DispatchInv
    OBVIOUS
  <2>1. TypeOK
    BY BoundsAssumption DEF Init, TypeOK, AbsentRow, OrderRow, OrderStates, Time
  <2> QED BY <2>1 DEF Init, DispatchInv, PermitInv, SentInv, ReservedInv,
                      InFlightOrLater, AbsentRow
<1> QED BY <1>1, DispatchStep, PTL DEF Spec

(* For any number of processes, orders, leases, crashes and clock steps,   *)
(* an order reaches the network at most once: begin_submission leases a    *)
(* row once and the permit is consumed by its send.                        *)
THEOREM SingleDispatch == Spec => []AtMostOneDispatch
<1>1. DispatchInv => AtMostOneDispatch
  BY DEF DispatchInv, SentInv, AtMostOneDispatch
<1> QED BY <1>1, DispatchInvariant, PTL

(* Whatever reaches the network was admitted, and its reservation under    *)
(* the policy it was admitted with is still in the database.               *)
THEOREM DispatchReserved == Spec => []DispatchIsReserved
<1>1. DispatchInv => DispatchIsReserved
  BY DEF DispatchInv, SentInv, ReservedInv, DispatchIsReserved, InFlightOrLater
<1> QED BY <1>1, DispatchInvariant, PTL

-----------------------------------------------------------------------------
(* Refinement: each action is a step of the contract or leaves what the    *)
(* contract sees alone.                                                    *)

status == [k \in Keys |-> orders[k].state]

(* Rows marked while Submitting are a contract Doubt.                      *)
LEMMA MarkIsDoubt ==
    ASSUME NEW ks \in SUBSET Keys, NEW now, MarkIndeterminate(ks, now), TypeOK,
           \A k \in ks : orders[k].state = "Submitting", UNCHANGED <<sent, usage>>
    PROVE  Contract!Doubt(ks)
<1>1. status' = [k \in Keys |-> IF k \in ks THEN "Indeterminate" ELSE status[k]]
  BY ZenonT(60) DEF status, MarkIndeterminate, TypeOK, OrderRow
<1> QED BY <1>1 DEF Contract!Doubt, status

(* A row that becomes Terminal after its lease is a contract Settle.       *)
LEMMA TerminalIsSettle ==
    ASSUME NEW k \in Keys, NEW t, NEW rev, NEW now, TypeOK,
           orders[k].state \in {"Submitting", "Submitted", "Indeterminate"},
           orders' = [orders EXCEPT ![k] = TerminalRow(k, t, rev, now)],
           UNCHANGED <<sent, usage>>
    PROVE  Contract!Settle(k)
<1>1. status' = [status EXCEPT ![k] = "Terminal"]
  BY ZenonT(60) DEF status, TerminalRow, TypeOK, OrderRow
<1> QED BY <1>1 DEF Contract!Settle, status

LEMMA ContractStep ==
    ASSUME DispatchInv, [Next]_vars
    PROVE  [Contract!ContractNext]_(Contract!contractVars)
<1> USE DEF memory, policyDb, riskDb
<1>0. TypeOK
  BY DEF DispatchInv
<1>q. ASSUME UNCHANGED <<orders, sent, usage>>
      PROVE  UNCHANGED Contract!contractVars
  BY <1>q DEF Contract!contractVars
<1> DEFINE Goal == Contract!ContractNext \/ UNCHANGED Contract!contractVars
<1>1. ASSUME NEW p \in Procs, NEW r \in Requests, Prepare(p, r) PROVE Goal
  <2>1. r.key \in Keys /\ active[r.account] \in Policies /\ ScopeOf(r) \in Scopes
    BY <1>0, <1>1, RequestsAssumption DEF Prepare, TypeOK, RequestType, ScopeOf, Scopes
  <2>2. status[r.key] = "Absent" /\ status' = [status EXCEPT ![r.key] = "Prepared"]
    BY <1>0, <1>1, <2>1 DEF Prepare, Admitted, AbsentRow, TypeOK, OrderRow, status
  <2>3. \A s \in Scopes, rule \in Rules :
           \/ usage'[s][rule] = usage[s][rule]
           \/ s = ScopeOf(r) /\ usage'[s][rule] > usage[s][rule]
    <3>1. \A rule \in Rules : /\ Amount(active[r.account], r, rule) \in Nat
                              /\ usage[ScopeOf(r)][rule] \in Nat
      BY <1>0, <2>1, AmountType DEF TypeOK
    <3>2. /\ \A s \in Scopes \ {ScopeOf(r)} : usage'[s] = usage[s]
          /\ \A rule \in Rules : usage'[ScopeOf(r)][rule] =
                usage[ScopeOf(r)][rule] + Amount(active[r.account], r, rule)
      BY <1>0, <1>1, <2>1 DEF Prepare, UsageAfter, TypeOK
    <3> QED BY <3>1, <3>2
  <2>4. Contract!Admit(r.key)
    BY <1>1, <2>1, <2>2, <2>3 DEF Prepare, Contract!Admit, status
  <2> QED BY <2>1, <2>4 DEF Contract!ContractNext
<1>2. ASSUME NEW p \in Procs, NEW k \in Keys, GrantLease(p, k) PROVE Goal
  <2>1. status[k] = "Prepared" /\ status' = [status EXCEPT ![k] = "Submitting"]
    BY <1>0, <1>2 DEF GrantLease, Leased, TypeOK, OrderRow, status
  <2>2. Contract!Authorise(k)
    BY <1>2, <2>1 DEF GrantLease, Leased, Contract!Authorise, status
  <2> QED BY <2>2 DEF Contract!ContractNext
<1>3. ASSUME NEW p \in Procs, NEW k \in Keys, ExpireOnBegin(p, k) PROVE Goal
  <2>1. Contract!Doubt({k})
    BY <1>0, <1>3, MarkIsDoubt DEF ExpireOnBegin
  <2> QED BY <2>1 DEF Contract!ContractNext
<1>4. ASSUME NEW p \in Procs, NEW k \in Keys, NEW t, NEW rev, ObserveTerminal(p, k, t, rev)
      PROVE  Goal
  <2>1. Contract!Settle(k)
    BY <1>0, <1>4, TerminalIsSettle DEF ObserveTerminal
  <2> QED BY <2>1 DEF Contract!ContractNext
<1>5. ASSUME NEW p \in Procs, NEW k \in Keys, NEW s, NEW t, NEW rev,
             ReconcileTerminal(p, k, s, t, rev)
      PROVE  Goal
  <2>1. Contract!Settle(k)
    BY <1>0, <1>5, TerminalIsSettle DEF ReconcileTerminal
  <2> QED BY <2>1 DEF Contract!ContractNext
<1>6. ASSUME NEW p \in Procs, NEW s \in Scopes, RecoverExpired(p, s) PROVE Goal
  <2>1. PICK ks \in SUBSET Keys : ks = ExpiredIn(s, stamp[p])
    BY DEF ExpiredIn
  <2>2. \A k \in ks : orders[k].state = "Submitting"
    BY <2>1 DEF ExpiredIn
  <2>3. MarkIndeterminate(ks, stamp[p]) /\ UNCHANGED <<sent, usage>>
    BY <1>6, <2>1 DEF RecoverExpired
  <2>4. Contract!Doubt(ks)
    BY <1>0, <2>2, <2>3, MarkIsDoubt
  <2> QED BY <2>4 DEF Contract!ContractNext
<1>7. ASSUME NEW m \in permits, NEW phase, NEW reached \in BOOLEAN, Send(m, phase, reached)
      PROVE  Goal
  <2>1. m.key \in Keys /\ sent[m.key] = 0 /\ InFlightOrLater(m.key)
    BY <1>0, <1>7 DEF DispatchInv, PermitInv, Send, TypeOK, PermitType
  <2>2. CASE reached
    <3>1. sent' = [sent EXCEPT ![m.key] = 1] /\ UNCHANGED <<orders, usage>>
      BY <1>0, <1>7, <2>1, <2>2 DEF Send, TypeOK
    <3>2. Contract!Dispatch(m.key)
      BY <2>1, <3>1 DEF Contract!Dispatch, InFlightOrLater
    <3> QED BY <2>1, <3>2 DEF Contract!ContractNext
  <2>3. CASE ~reached
    BY <1>0, <1>7, <1>q, <2>1, <2>3 DEF Send, TypeOK
  <2> QED BY <2>2, <2>3
<1>8. ASSUME NEW m \in permits, RecordSubmitted(m) PROVE Goal
  <2> DEFINE k == m.key
  <2>1. /\ k \in Keys /\ orders[k].state = "Submitting" /\ sent[k] = 1
        /\ UNCHANGED <<sent, usage>>
    BY <1>0, <1>8 DEF RecordSubmitted, DispatchInv, PermitInv, TypeOK, PermitType
  <2>2. CASE MarkIndeterminate({k}, stamp[m.proc])
    <3>1. Contract!Doubt({k})
      BY <1>0, <2>1, <2>2, MarkIsDoubt
    <3> QED BY <2>1, <3>1 DEF Contract!ContractNext
  <2>3. CASE ~MarkIndeterminate({k}, stamp[m.proc])
    <3>1. orders' = [orders EXCEPT ![k] =
             [orders[k] EXCEPT !.state = "Submitted", !.receipt = TRUE,
                               !.updated = stamp[m.proc]]]
      BY <1>8, <2>3 DEF RecordSubmitted
    <3>2. status' = [status EXCEPT ![k] = "Submitted"] /\ status[k] = "Submitting"
      BY <1>0, <2>1, <3>1 DEF status, TypeOK, OrderRow
    <3>3. Contract!Acknowledge(k)
      BY <2>1, <3>2 DEF Contract!Acknowledge, status
    <3> QED BY <2>1, <3>3 DEF Contract!ContractNext
  <2> QED BY <2>2, <2>3
<1>9. ASSUME NEW m \in permits, RecordIndeterminate(m) PROVE Goal
  <2>1. m.key \in Keys
    BY <1>0 DEF TypeOK, PermitType
  <2>2. Contract!Doubt({m.key})
    BY <1>0, <1>9, <2>1, MarkIsDoubt DEF RecordIndeterminate
  <2> QED BY <2>1, <2>2 DEF Contract!ContractNext
<1>10. ASSUME Tick \/ SetClockBack \/ UNCHANGED vars PROVE Goal
  BY <1>q, <1>10 DEF Tick, SetClockBack, vars
<1> HIDE DEF Goal
<1>11. ASSUME NEW p \in Procs, ProcessOp(p) PROVE Goal
  <2>1. ASSUME NEW k \in Keys, OrderOp(p, k) PROVE Goal
    BY <1>2, <1>3, <1>4, <1>5, <2>1 DEF OrderOp, BeginSubmission
  <2>2. CASE \/ ReadClock(p) \/ Abandon(p, {}) \/ Crash(p)
             \/ \E a \in Accounts : ReadActivePolicy(p, a)
                   \/ \E policy \in Policies : InstallPolicy(p, a, policy)
    BY <1>q, <2>2 DEF Goal, ReadClock, Abandon, Crash, ReadActivePolicy, InstallPolicy
  <2> QED BY <1>1, <1>6, <1>11, <2>1, <2>2 DEF ProcessOp
<1>12. ASSUME NEW m \in permits, PermitOp(m) PROVE Goal
  <2>1. CASE Abandon(m.proc, {m})
    BY <1>q, <2>1 DEF Goal, Abandon
  <2> QED BY <1>7, <1>8, <1>9, <1>12, <2>1 DEF PermitOp
<1>13. Goal
  BY <1>10, <1>11, <1>12 DEF Next
<1> QED BY <1>13 DEF Goal

(* The authority implements its contract: admitted once, charged for good, *)
(* dispatched at most once and only when admitted, settled for good.       *)
THEOREM AuthorityImplementsContract == Spec => ImplementsContract
<1>1. Init => Contract!ContractInit
  BY DEF Init, Contract!ContractInit, AbsentRow
<1>2. DispatchInv /\ [Next]_vars => [Contract!ContractNext]_(Contract!contractVars)
  BY ContractStep
<1> QED BY <1>1, <1>2, DispatchInvariant, PTL
        DEF Spec, ImplementsContract, Contract!ContractSpec

-----------------------------------------------------------------------------
(* Policies and usage.                                                     *)

ActivationType == [policy: Policies, expected: Policies \cup {None}]

(* A transaction that neither activates a policy nor charges usage.        *)
PolicyAndUsageKept == UNCHANGED <<active, activations, usage>>

(* Every step leaves policies and usage alone, installs or admits.         *)
LEMMA PolicyOrUsageStep ==
    ASSUME TypeOK, [Next]_vars
    PROVE  \/ PolicyAndUsageKept
           \/ \E p \in Procs, a \in Accounts, policy \in Policies :
                 InstallPolicy(p, a, policy)
           \/ \E p \in Procs, r \in Requests : Prepare(p, r)
<1> USE DEF memory, policyDb, riskDb, PolicyAndUsageKept
<1>1. ASSUME NEW p \in Procs, ProcessOp(p),
             ~\E a \in Accounts, policy \in Policies : InstallPolicy(p, a, policy),
             ~\E r \in Requests : Prepare(p, r)
      PROVE  PolicyAndUsageKept
  <2>1. ASSUME NEW k \in Keys, OrderOp(p, k) PROVE PolicyAndUsageKept
    BY <2>1 DEF OrderOp, BeginSubmission, GrantLease, Leased, ExpireOnBegin,
                ObserveTerminal, ReconcileTerminal
  <2>2. CASE \/ ReadClock(p) \/ Abandon(p, {}) \/ Crash(p)
             \/ \E a \in Accounts : ReadActivePolicy(p, a)
             \/ \E s \in Scopes : RecoverExpired(p, s)
    BY <2>2 DEF ReadClock, Abandon, Crash, ReadActivePolicy, RecoverExpired
  <2> QED BY <1>1, <2>1, <2>2 DEF ProcessOp
<1>2. ASSUME NEW m \in permits, PermitOp(m) PROVE PolicyAndUsageKept
  BY <1>2 DEF PermitOp, Send, RecordSubmitted, RecordIndeterminate, Abandon
<1>3. CASE Tick \/ SetClockBack \/ UNCHANGED vars
  BY <1>3 DEF Tick, SetClockBack, vars
<1> QED BY <1>1, <1>2, <1>3 DEF Next

(* Appending an activation keeps the earlier ones.                         *)
LEMMA AppendActivation ==
    ASSUME NEW s \in Seq(ActivationType), NEW e \in ActivationType
    PROVE  /\ Append(s, e) # <<>>
           /\ Len(Append(s, e)) = Len(s) + 1
           /\ DOMAIN Append(s, e) = 1 .. Len(s) + 1
           /\ DOMAIN s = 1 .. Len(s)
           /\ \A i \in 1 .. Len(s) : Append(s, e)[i] = s[i]
           /\ Append(s, e)[Len(s) + 1] = e
           /\ Len(s) \in Nat
           /\ s = <<>> <=> Len(s) = 0
<1> HIDE DEF ActivationType
<1> QED OBVIOUS

LEMMA ChainStep == TypeOK /\ PolicyChain /\ [Next]_vars => PolicyChain'
<1> SUFFICES ASSUME TypeOK, PolicyChain, [Next]_vars PROVE PolicyChain'
  OBVIOUS
<1>1. CASE UNCHANGED <<active, activations>>
  BY <1>1 DEF PolicyChain
<1>2. ASSUME NEW p \in Procs, NEW a \in Accounts, NEW policy \in Policies,
             InstallPolicy(p, a, policy), policy # active[a]
      PROVE  PolicyChain'
  <2> DEFINE new == [policy |-> policy, expected |-> expect[p][a]]
             s == activations[a]
  <2>1. s \in Seq(ActivationType) /\ new \in ActivationType
    BY DEF TypeOK, ActivationType
  <2>2. /\ active'[a] = policy /\ activations'[a] = Append(s, new)
        /\ new.policy = policy /\ new.expected = active[a]
        /\ \A b \in Accounts \ {a} : active'[b] = active[b] /\ activations'[b] = activations[b]
    BY <1>2 DEF InstallPolicy, TypeOK
  <2> HIDE DEF new
  <2>3. ASSUME NEW i \in DOMAIN activations'[a]
        PROVE  activations'[a][i].expected =
                  IF i = 1 THEN None ELSE activations'[a][i - 1].policy
    <3>1. CASE i \in 1 .. Len(s)
      <4>1. i = 1 \/ i - 1 \in 1 .. Len(s)
        BY <2>1, <3>1, AppendActivation
      <4> QED BY <2>1, <2>2, <3>1, <4>1, AppendActivation DEF PolicyChain
    <3>2. CASE i = Len(s) + 1
      <4>1. i = 1 \/ i - 1 \in 1 .. Len(s)
        BY <2>1, <3>2, AppendActivation
      <4> QED BY <2>1, <2>2, <3>2, <4>1, AppendActivation DEF PolicyChain
    <3> QED BY <2>1, <2>2, <2>3, <3>1, <3>2, AppendActivation
  <2>4. active'[a] = IF activations'[a] = <<>> THEN None
                     ELSE activations'[a][Len(activations'[a])].policy
    BY <2>1, <2>2, AppendActivation
  <2> DEFINE Chained(b) ==
               /\ \A i \in DOMAIN activations[b] :
                     activations[b][i].expected =
                        IF i = 1 THEN None ELSE activations[b][i - 1].policy
               /\ active[b] = IF activations[b] = <<>> THEN None
                              ELSE activations[b][Len(activations[b])].policy
  <2>5. Chained(a)'
    BY <2>3, <2>4
  <2>6. ASSUME NEW b \in Accounts \ {a} PROVE Chained(b)'
    BY <2>2 DEF PolicyChain
  <2> HIDE DEF Chained
  <2>7. \A b \in Accounts : Chained(b)'
    BY <2>5, <2>6
  <2> QED BY <2>7 DEF PolicyChain, Chained
<1>3. ASSUME NEW p \in Procs, NEW a \in Accounts, NEW policy \in Policies,
             InstallPolicy(p, a, policy)
      PROVE  PolicyChain'
  BY <1>1, <1>2, <1>3 DEF InstallPolicy
<1>4. ASSUME NEW p \in Procs, NEW r \in Requests, Prepare(p, r) PROVE PolicyChain'
  BY <1>1, <1>4 DEF Prepare, policyDb
<1> QED BY <1>1, <1>3, <1>4, PolicyOrUsageStep DEF PolicyAndUsageKept

(* For any number of administrators and processes, activations of an       *)
(* account form one chain that ends in the active policy: install_policy's *)
(* compare-and-set loses no administrator's change.                        *)
THEOREM PoliciesChained == Spec => []PolicyChain
<1>1. Init => PolicyChain
  BY DEF Init, PolicyChain
<1> QED BY <1>1, TypeCorrect, ChainStep, PTL DEF Spec

(* Usage only grows in prepare, and only up to the active policy's limit.  *)
LEMMA UsageStep ==
    TypeOK /\ PolicyChain /\ UsageWithinLimits /\ [Next]_vars => UsageWithinLimits'
<1> SUFFICES ASSUME TypeOK, PolicyChain, UsageWithinLimits, [Next]_vars
             PROVE  UsageWithinLimits'
  OBVIOUS
<1>1. CASE UNCHANGED <<activations, usage>>
  BY <1>1 DEF UsageWithinLimits
<1>2. ASSUME NEW p \in Procs, NEW a \in Accounts, NEW policy \in Policies,
             InstallPolicy(p, a, policy), policy # active[a]
      PROVE  UsageWithinLimits'
  <2> DEFINE new == [policy |-> policy, expected |-> expect[p][a]]
             s == activations[a]
  <2>1. s \in Seq(ActivationType) /\ new \in ActivationType
    BY DEF TypeOK, ActivationType
  <2>2. /\ activations'[a] = Append(s, new) /\ usage' = usage
        /\ \A b \in Accounts \ {a} : activations'[b] = activations[b]
    BY <1>2 DEF InstallPolicy, TypeOK, riskDb
  <2> HIDE DEF new
  <2>3. \A i \in DOMAIN s : i \in DOMAIN activations'[a] /\ activations'[a][i] = s[i]
    BY <2>1, <2>2, AppendActivation
  <2>4. ASSUME NEW b \in Accounts, NEW d \in Days, NEW rule \in Rules,
               usage[<<b, d>>][rule] > 0
        PROVE  \E i \in DOMAIN activations'[b] :
                  usage[<<b, d>>][rule] <= activations'[b][i].policy.limit[rule]
    <3>1. PICK i \in DOMAIN activations[b] :
             usage[<<b, d>>][rule] <= activations[b][i].policy.limit[rule]
      BY <2>4 DEF UsageWithinLimits
    <3>2. i \in DOMAIN activations'[b] /\ activations'[b][i] = activations[b][i]
      BY <2>2, <2>3, <3>1
    <3> QED BY <3>1, <3>2
  <2> QED BY <2>2, <2>4 DEF UsageWithinLimits
<1>3. ASSUME NEW p \in Procs, NEW a \in Accounts, NEW policy \in Policies,
             InstallPolicy(p, a, policy)
      PROVE  UsageWithinLimits'
  BY <1>1, <1>2, <1>3 DEF InstallPolicy, riskDb
<1>4. ASSUME NEW p \in Procs, NEW r \in Requests, Prepare(p, r)
      PROVE  UsageWithinLimits'
  <2> DEFINE policy == active[r.account]
             s == activations[r.account]
  <2>1. /\ policy \in Policies /\ r.account \in Accounts /\ r.day \in Days
        /\ ScopeOf(r) = <<r.account, r.day>> /\ ScopeOf(r) \in Scopes
        /\ activations' = activations
    BY <1>4, RequestsAssumption
       DEF Prepare, TypeOK, RequestType, ScopeOf, Scopes, policyDb
  <2>2. s # <<>> /\ s \in Seq(ActivationType) /\ policy = s[Len(s)].policy
    BY <1>4, <2>1 DEF Prepare, PolicyChain, TypeOK, ActivationType
  <2>3. Len(s) \in DOMAIN s
    <3> HIDE DEF ActivationType, s
    <3> QED BY <2>2
  <2>4. /\ \A t \in Scopes \ {ScopeOf(r)} : usage'[t] = usage[t]
        /\ \A rule \in Rules : usage'[ScopeOf(r)][rule] =
              usage[ScopeOf(r)][rule] + Amount(policy, r, rule)
    BY <1>4, <2>1 DEF Prepare, UsageAfter, TypeOK
  <2>5. \A rule \in Rules : /\ Amount(policy, r, rule) \in Nat
                            /\ usage[ScopeOf(r)][rule] \in Nat
    BY <2>1, AmountType DEF TypeOK
  <2>6. \A rule \in Rules : Amount(policy, r, rule) > 0 =>
           usage'[ScopeOf(r)][rule] <= policy.limit[rule]
    BY <1>4, <2>4 DEF Prepare, HasRoom
  <2>7. ASSUME NEW a \in Accounts, NEW d \in Days, NEW rule \in Rules,
               usage'[<<a, d>>][rule] > 0
        PROVE  \E i \in DOMAIN activations[a] :
                  usage'[<<a, d>>][rule] <= activations[a][i].policy.limit[rule]
    <3>1. CASE <<a, d>> = ScopeOf(r) /\ Amount(policy, r, rule) > 0
      <4>1. a = r.account
        BY <2>1, <3>1
      <4>2. usage'[<<a, d>>][rule] <= s[Len(s)].policy.limit[rule]
        BY <2>2, <2>6, <3>1
      <4> QED BY <2>3, <4>1, <4>2
    <3>2. CASE ~(<<a, d>> = ScopeOf(r) /\ Amount(policy, r, rule) > 0)
      <4>1. usage'[<<a, d>>][rule] = usage[<<a, d>>][rule]
        BY <2>4, <2>5, <3>2 DEF Scopes
      <4> QED BY <2>7, <4>1 DEF UsageWithinLimits
    <3> QED BY <3>1, <3>2
  <2> QED BY <2>1, <2>7 DEF UsageWithinLimits
<1> QED BY <1>1, <1>3, <1>4, PolicyOrUsageStep DEF PolicyAndUsageKept

(* However many processes prepare orders while policies are replaced, the  *)
(* usage of a day never passes a limit that was in force.                  *)
THEOREM UsageLimited == Spec => []UsageWithinLimits
<1>1. Init => UsageWithinLimits
  BY DEF Init, UsageWithinLimits, Scopes
<1> QED BY <1>1, TypeCorrect, PoliciesChained, UsageStep, PTL DEF Spec

-----------------------------------------------------------------------------
(* How one transaction changes one order.                                  *)

(* The row of k moves from one state to another at the accepted clock and  *)
(* the events of the given kinds are appended to its audit chain.          *)
Moves(k, from, to) ==
    /\ orders[k].state = from
    /\ orders'[k].state = to
    /\ orders'[k].updated = clock'

Appends(k, kind) == audit'[k] = Append(audit[k], Event(kind, clock'))

(* The columns only admission may write, and the lease's own.              *)
KeepsIdentity(k) ==
    orders'[k].request = orders[k].request /\ orders'[k].policy = orders[k].policy

KeepsLease(k) == orders'[k].expiry = orders[k].expiry

KeepsReceipt(k) == orders'[k].receipt = orders[k].receipt

Kept(k) == orders'[k] = orders[k] /\ audit'[k] = audit[k]

Admits(k) ==
    /\ Moves(k, "Absent", "Prepared") /\ Appends(k, "prepared")
    /\ orders'[k].receipt = FALSE

Leases(k) ==
    /\ Moves(k, "Prepared", "Submitting") /\ Appends(k, "submission_lease_granted")
    /\ KeepsIdentity(k) /\ KeepsReceipt(k)

Acknowledges(k) ==
    /\ Moves(k, "Submitting", "Submitted") /\ Appends(k, "submitted")
    /\ KeepsIdentity(k) /\ KeepsLease(k)
    /\ orders'[k].receipt = TRUE
    /\ clock' < orders[k].expiry

Doubts(k) ==
    /\ Moves(k, "Submitting", "Indeterminate") /\ Appends(k, "indeterminate")
    /\ KeepsIdentity(k) /\ KeepsLease(k) /\ KeepsReceipt(k)

Settles(k) ==
    /\ Moves(k, "Submitted", "Terminal") /\ Appends(k, "terminal")
    /\ KeepsIdentity(k) /\ KeepsLease(k) /\ KeepsReceipt(k)

Recovers(k) ==
    /\ Moves(k, "Submitting", "Terminal") \/ Moves(k, "Indeterminate", "Terminal")
    /\ audit'[k] = Append(Append(audit[k], Event("recovered_submission", clock')),
                          Event("terminal", clock'))
    /\ KeepsIdentity(k) /\ KeepsLease(k) /\ KeepsReceipt(k)
    /\ orders'[k].revision \in Revisions

RowStep(k) ==
    \/ Kept(k) \/ Admits(k) \/ Leases(k) \/ Acknowledges(k)
    \/ Doubts(k) \/ Settles(k) \/ Recovers(k)

EventType == [kind: EventKinds, at: Time]

(* Appending two events one by one.                                        *)
LEMMA AppendTwice ==
    ASSUME NEW T, NEW s \in Seq(T), NEW e \in T, NEW f \in T
    PROVE  s \o <<e, f>> = Append(Append(s, e), f)
OBVIOUS

LEMMA MarkRowStep ==
    ASSUME TypeOK, NEW ks, MarkIndeterminate(ks, clock'),
           \A k \in ks : orders[k].state = "Submitting"
    PROVE  \A k \in Keys : Kept(k) \/ Doubts(k)
<1> SUFFICES ASSUME NEW k \in Keys PROVE Kept(k) \/ Doubts(k)
  OBVIOUS
<1>1. orders[k] \in OrderRow
  BY DEF TypeOK
<1>2. CASE k \in ks
  <2>1. /\ orders'[k] = [orders[k] EXCEPT !.state = "Indeterminate", !.updated = clock']
        /\ audit'[k] = Append(audit[k], Event("indeterminate", clock'))
    BY <1>2, Zenon DEF MarkIndeterminate
  <2> QED BY <1>1, <1>2, <2>1
          DEF OrderRow, Doubts, Moves, Appends, KeepsIdentity, KeepsLease, KeepsReceipt
<1>3. CASE k \notin ks
  BY <1>3, Zenon DEF MarkIndeterminate, Kept
<1> QED BY <1>2, <1>3

(* Every step moves the clock's high water forward and takes each order    *)
(* along one edge of its life cycle.                                       *)
LEMMA EveryRowSteps ==
    ASSUME TypeOK, [Next]_vars
    PROVE  clock' >= clock /\ \A k \in Keys : RowStep(k)
<1> DEFINE Goal == clock' >= clock /\ \A k \in Keys : RowStep(k)
<1> USE DEF memory, policyDb, riskDb
<1>q. ASSUME UNCHANGED <<orders, audit>>, clock' >= clock PROVE Goal
  BY <1>q DEF RowStep, Kept
<1>c. clock >= clock
  BY DEF TypeOK, Time
<1>t. ASSUME NEW p \in Procs, Transact(p) PROVE clock' >= clock /\ clock' = stamp[p]
  BY <1>t DEF Transact, ClockAccepts
<1>1. ASSUME NEW p \in Procs, NEW r \in Requests, Prepare(p, r) PROVE Goal
  <2> DEFINE new == [AbsentRow EXCEPT !.state = "Prepared", !.request = r,
                               !.policy = active[r.account], !.updated = stamp[p]]
  <2>1. /\ r.key \in Keys /\ orders[r.key].state = "Absent"
        /\ orders' = [orders EXCEPT ![r.key] = new]
        /\ audit' = [audit EXCEPT ![r.key] = Append(@, Event("prepared", stamp[p]))]
    BY <1>1, RequestsAssumption DEF Prepare, Admitted, RequestType
  <2>2. new.state = "Prepared" /\ new.updated = stamp[p] /\ new.receipt = FALSE
    BY DEF AbsentRow
  <2> HIDE DEF new
  <2>3. Admits(r.key)
    BY <1>1, <1>t, <2>1, <2>2 DEF Prepare, Admits, Moves, Appends, TypeOK
  <2>4. \A k \in Keys \ {r.key} : Kept(k)
    BY <2>1 DEF Kept, TypeOK
  <2> QED BY <1>1, <1>t, <2>3, <2>4 DEF RowStep, Prepare
<1>2. ASSUME NEW p \in Procs, NEW k \in Keys, GrantLease(p, k) PROVE Goal
  <2> DEFINE new == [orders[k] EXCEPT !.state = "Submitting", !.owner = p,
                            !.updated = stamp[p], !.expiry = stamp[p] + Lease,
                            !.generation = orders[k].generation + 1]
  <2>1. /\ orders[k].state = "Prepared" /\ orders' = [orders EXCEPT ![k] = new]
        /\ audit' = [audit EXCEPT ![k] =
                        Append(@, Event("submission_lease_granted", stamp[p]))]
    BY <1>2 DEF GrantLease, Leased
  <2>2. /\ new.state = "Submitting" /\ new.updated = stamp[p]
        /\ new.receipt = orders[k].receipt /\ new.request = orders[k].request
        /\ new.policy = orders[k].policy
    BY DEF TypeOK, OrderRow
  <2> HIDE DEF new
  <2>3. Leases(k)
    BY <1>2, <1>t, <2>1, <2>2
       DEF GrantLease, Leases, Moves, Appends, KeepsIdentity, KeepsReceipt, TypeOK
  <2>4. \A j \in Keys \ {k} : Kept(j)
    BY <2>1 DEF Kept, TypeOK
  <2> QED BY <1>2, <1>t, <2>3, <2>4 DEF RowStep, GrantLease
<1>3. ASSUME NEW p \in Procs, NEW k \in Keys, ExpireOnBegin(p, k) PROVE Goal
  BY <1>3, <1>t, MarkRowStep DEF ExpireOnBegin, RowStep
<1>s. ASSUME NEW k \in Keys, NEW t, NEW rev, NEW now
      PROVE  LET new == TerminalRow(k, t, rev, now)
             IN  /\ new.state = "Terminal" /\ new.updated = now /\ new.revision = rev
                 /\ new.receipt = orders[k].receipt /\ new.request = orders[k].request
                 /\ new.policy = orders[k].policy /\ new.expiry = orders[k].expiry
  BY DEF TerminalRow, TypeOK, OrderRow
<1>4. ASSUME NEW p \in Procs, NEW k \in Keys, NEW t, NEW rev, ObserveTerminal(p, k, t, rev)
      PROVE  Goal
  <2>1. Settles(k)
    BY <1>4, <1>t, <1>s DEF ObserveTerminal, Settles, Moves, Appends, KeepsIdentity,
                       KeepsLease, KeepsReceipt, TypeOK
  <2>2. \A j \in Keys \ {k} : Kept(j)
    BY <1>4 DEF ObserveTerminal, Kept, TypeOK
  <2> QED BY <1>4, <1>t, <2>1, <2>2 DEF RowStep, ObserveTerminal
<1>5. ASSUME NEW p \in Procs, NEW k \in Keys, NEW s, NEW t, NEW rev \in Revisions,
             ReconcileTerminal(p, k, s, t, rev)
      PROVE  Goal
  <2> DEFINE e == Event("recovered_submission", stamp[p])
             f == Event("terminal", stamp[p])
  <2>1. clock' = stamp[p] /\ clock' >= clock /\ stamp[p] \in Time
    BY <1>5, <1>t, TransactType DEF ReconcileTerminal
  <2>2. audit'[k] = audit[k] \o <<e, f>>
    BY <1>5 DEF ReconcileTerminal, TypeOK
  <2>3. audit[k] \in Seq(EventType) /\ e \in EventType /\ f \in EventType
    BY <2>1 DEF TypeOK, EventType, Event, EventKinds
  <2>4. audit'[k] = Append(Append(audit[k], e), f)
    BY <2>2, <2>3, AppendTwice
  <2>5. Recovers(k)
    <3>1. orders'[k] = TerminalRow(k, t, rev, stamp[p])
      BY <1>5 DEF ReconcileTerminal, TypeOK
    <3>2. orders[k].state = "Submitting" \/ orders[k].state = "Indeterminate"
      BY <1>5 DEF ReconcileTerminal
    <3>3. Moves(k, "Submitting", "Terminal") \/ Moves(k, "Indeterminate", "Terminal")
      BY <1>s, <2>1, <3>1, <3>2 DEF Moves
    <3>4. /\ KeepsIdentity(k) /\ KeepsLease(k) /\ KeepsReceipt(k)
          /\ orders'[k].revision \in Revisions
      BY <1>s, <3>1 DEF KeepsIdentity, KeepsLease, KeepsReceipt
    <3> QED BY <2>1, <2>4, <3>3, <3>4 DEF Recovers
  <2>6. \A j \in Keys \ {k} : Kept(j)
    BY <1>5 DEF ReconcileTerminal, Kept, TypeOK
  <2> QED BY <2>1, <2>5, <2>6 DEF RowStep
<1>6. ASSUME NEW p \in Procs, NEW s \in Scopes, RecoverExpired(p, s) PROVE Goal
  <2>1. \A k \in ExpiredIn(s, stamp[p]) : orders[k].state = "Submitting"
    BY DEF ExpiredIn
  <2> QED BY <1>6, <1>t, <2>1, MarkRowStep DEF RecoverExpired, RowStep
<1>7. ASSUME NEW m \in permits, RecordSubmitted(m) PROVE Goal
  <2> DEFINE k == m.key
             new == [orders[k] EXCEPT !.state = "Submitted", !.receipt = TRUE,
                                      !.updated = stamp[m.proc]]
  <2>1. /\ m.proc \in Procs /\ k \in Keys /\ orders[k] \in OrderRow
        /\ orders[k].state = "Submitting" /\ Transact(m.proc)
    BY <1>7 DEF RecordSubmitted, TypeOK, PermitType
  <2>2. clock' = stamp[m.proc] /\ clock' >= clock
    BY <1>t, <2>1
  <2>3. CASE MarkIndeterminate({k}, stamp[m.proc])
    BY <2>1, <2>2, <2>3, MarkRowStep DEF RowStep
  <2>4. CASE ~MarkIndeterminate({k}, stamp[m.proc])
    <3>1. /\ orders' = [orders EXCEPT ![k] = new] /\ ~Expired(k, stamp[m.proc])
          /\ audit' = [audit EXCEPT ![k] = Append(@, Event("submitted", stamp[m.proc]))]
      BY <1>7, <2>4 DEF RecordSubmitted
    <3>2. /\ new.state = "Submitted" /\ new.updated = stamp[m.proc]
          /\ new.receipt = TRUE /\ new.request = orders[k].request
          /\ new.policy = orders[k].policy /\ new.expiry = orders[k].expiry
      BY <2>1 DEF OrderRow
    <3>3. clock' < orders[k].expiry
      BY <2>1, <2>2, <3>1, TransactType DEF Expired, OrderRow, Time
    <3> HIDE DEF new
    <3>4. Acknowledges(k)
      BY <2>1, <2>2, <3>1, <3>2, <3>3
         DEF Acknowledges, Moves, Appends, KeepsIdentity, KeepsLease, TypeOK
    <3>5. \A j \in Keys \ {k} : Kept(j)
      BY <3>1 DEF Kept, TypeOK
    <3> QED BY <2>2, <3>4, <3>5 DEF RowStep
  <2> QED BY <2>3, <2>4
<1>8. ASSUME NEW m \in permits, RecordIndeterminate(m) PROVE Goal
  <2>1. m.proc \in Procs
    BY DEF TypeOK, PermitType
  <2> QED BY <1>8, <1>t, <2>1, MarkRowStep DEF RecordIndeterminate, RowStep
<1>9. ASSUME Tick \/ SetClockBack \/ UNCHANGED vars PROVE Goal
  BY <1>9, <1>c, <1>q DEF Tick, SetClockBack, vars
<1> HIDE DEF Goal
<1>10. ASSUME NEW p \in Procs, ProcessOp(p) PROVE Goal
  <2>1. ASSUME NEW k \in Keys, OrderOp(p, k) PROVE Goal
    BY <1>2, <1>3, <1>4, <1>5, <2>1 DEF OrderOp, BeginSubmission
  <2>2. ASSUME NEW a \in Accounts, NEW policy \in Policies, InstallPolicy(p, a, policy)
        PROVE  Goal
    BY <1>q, <1>t, <2>2 DEF InstallPolicy
  <2>3. CASE \/ ReadClock(p) \/ Abandon(p, {}) \/ Crash(p)
             \/ \E a \in Accounts : ReadActivePolicy(p, a)
    BY <1>q, <1>c, <2>3 DEF ReadClock, Abandon, Crash, ReadActivePolicy
  <2> QED BY <1>1, <1>6, <1>10, <2>1, <2>2, <2>3 DEF ProcessOp
<1>11. ASSUME NEW m \in permits, PermitOp(m) PROVE Goal
  <2>1. CASE Abandon(m.proc, {m})
    BY <1>q, <1>c, <2>1 DEF Abandon
  <2>2. ASSUME NEW phase, NEW reached, Send(m, phase, reached) PROVE Goal
    BY <1>q, <1>c, <2>2 DEF Send
  <2> QED BY <1>7, <1>8, <1>11, <2>1, <2>2 DEF PermitOp
<1>12. Goal
  BY <1>9, <1>10, <1>11 DEF Next
<1> QED BY <1>12 DEF Goal

-----------------------------------------------------------------------------
(* The audit chain.                                                        *)

Kinds(s) == [i \in DOMAIN s |-> s[i].kind]

(* The times of a chain never decrease and end at the given time.          *)
Ordered(s) == \A i, j \in DOMAIN s : i <= j => s[i].at <= s[j].at

EndsAt(s, now) == s # <<>> => s[Len(s)].at = now

LEMMA KindsAppend ==
    ASSUME NEW s \in Seq(EventType), NEW kind \in EventKinds, NEW now \in Time,
           NEW n \in Nat, Len(s) = n
    PROVE  LET t == Append(s, Event(kind, now))
           IN  /\ t \in Seq(EventType) /\ Len(t) = n + 1
               /\ Kinds(t) = [i \in 1 .. n + 1 |-> IF i = n + 1 THEN kind ELSE Kinds(s)[i]]
               /\ t[n + 1] = Event(kind, now)
               /\ \A i \in 1 .. n : t[i] = s[i]
<1> DEFINE e == Event(kind, now)
           t == Append(s, e)
<1>1. e \in EventType /\ e.kind = kind
  BY DEF Event, EventType
<1> HIDE DEF e, EventType
<1>2. /\ t \in Seq(EventType) /\ Len(t) = n + 1 /\ DOMAIN t = 1 .. n + 1
      /\ DOMAIN s = 1 .. n
      /\ t[n + 1] = e /\ \A i \in 1 .. n : t[i] = s[i]
  BY <1>1
<1>3. \A i \in 1 .. n + 1 : i = n + 1 \/ i \in 1 .. n
  OBVIOUS
<1> HIDE DEF t
<1>4. Kinds(t) = [i \in 1 .. n + 1 |-> IF i = n + 1 THEN kind ELSE Kinds(s)[i]]
  BY <1>1, <1>2, <1>3 DEF Kinds
<1> QED BY <1>2, <1>4 DEF t, e

LEMMA OrderedAppend ==
    ASSUME NEW s \in Seq(EventType), NEW kind \in EventKinds, NEW now \in Time,
           NEW last \in Time, last <= now, Ordered(s), EndsAt(s, last)
    PROVE  LET t == Append(s, Event(kind, now))
           IN  Ordered(t) /\ EndsAt(t, now) /\ t # <<>> /\ t \in Seq(EventType)
<1> DEFINE e == Event(kind, now)
           t == Append(s, e)
           n == Len(s)
<1>1. e \in EventType /\ e.at = now
  BY DEF Event, EventType
<1>a. \A x \in EventType : x.at \in Time
  BY DEF EventType
<1> HIDE DEF e, EventType
<1>2. /\ t \in Seq(EventType) /\ Len(t) = n + 1 /\ DOMAIN t = 1 .. n + 1
      /\ DOMAIN s = 1 .. n /\ n \in Nat /\ t # <<>>
      /\ t[n + 1] = e /\ \A i \in 1 .. n : t[i] = s[i] /\ s[i] \in EventType
      /\ n > 0 => s # <<>>
  BY <1>1
<1> HIDE DEF t, n
<1>3. \A i \in 1 .. n : s[i].at <= now
  <2> SUFFICES ASSUME NEW i \in 1 .. n PROVE s[i].at <= now
    OBVIOUS
  <2>1. n \in DOMAIN s /\ i \in DOMAIN s /\ i <= n /\ s # <<>>
    BY <1>2
  <2>2. s[i].at <= s[n].at /\ s[n].at = last
    BY <2>1 DEF Ordered, EndsAt, n
  <2> QED BY <1>2, <1>a, <2>1, <2>2 DEF Time
<1>4. Ordered(t)
  <2> SUFFICES ASSUME NEW i \in 1 .. n + 1, NEW j \in 1 .. n + 1, i <= j
               PROVE  t[i].at <= t[j].at
    BY <1>2 DEF Ordered
  <2>1. CASE j \in 1 .. n
    <3>1. i \in 1 .. n
      BY <1>2, <2>1
    <3> QED BY <1>2, <2>1, <3>1 DEF Ordered
  <2>2. CASE j = n + 1 /\ i \in 1 .. n
    BY <1>1, <1>2, <1>3, <2>2
  <2>3. CASE j = n + 1 /\ i = n + 1
    BY <1>1, <1>2, <2>3 DEF Time
  <2> QED BY <1>2, <2>1, <2>2, <2>3
<1>5. EndsAt(t, now)
  BY <1>1, <1>2 DEF EndsAt
<1> QED BY <1>2, <1>4, <1>5 DEF t, e

(* The kinds of an extended chain are the extended kinds.                  *)
LEMMA KindsGrow ==
    ASSUME NEW s \in Seq(EventType), NEW kind \in EventKinds, NEW now \in Time
    PROVE  Kinds(Append(s, Event(kind, now))) = Append(Kinds(s), kind)
<1> DEFINE n == Len(s)
           t == Append(s, Event(kind, now))
<1>0. n \in Nat /\ DOMAIN s = 1 .. n /\ \A i \in 1 .. n : s[i].kind \in EventKinds
  <2>1. n \in Nat /\ DOMAIN s = 1 .. n /\ \A i \in 1 .. n : s[i] \in EventType
    <3> HIDE DEF EventType
    <3> QED OBVIOUS
  <2> QED BY <2>1 DEF EventType
<1>1. Kinds(t) = [i \in 1 .. n + 1 |-> IF i = n + 1 THEN kind ELSE Kinds(s)[i]]
  BY <1>0, KindsAppend
<1>2. Kinds(s) \in Seq(EventKinds) /\ Len(Kinds(s)) = n
  <2>1. Kinds(s) \in [1 .. n -> EventKinds]
    BY <1>0 DEF Kinds
  <2> HIDE DEF n, EventType
  <2> QED BY <1>0, <2>1
<1> HIDE DEF t, n
<1>3. ASSUME NEW q \in Seq(EventKinds), Len(q) = n
      PROVE  Append(q, kind) = [i \in 1 .. n + 1 |-> IF i = n + 1 THEN kind ELSE q[i]]
  <2> DEFINE u == Append(q, kind)
  <2>1. u \in Seq(EventKinds) /\ Len(u) = n + 1 /\ \A i \in 1 .. n + 1 :
           u[i] = IF i = n + 1 THEN kind ELSE q[i]
    BY <1>3, <1>0
  <2>2. DOMAIN u = 1 .. n + 1 /\ u = [i \in DOMAIN u |-> u[i]]
    <3> HIDE DEF u
    <3> QED BY <2>1, LenProperties
  <2> HIDE DEF u
  <2>3. u = [i \in 1 .. n + 1 |-> IF i = n + 1 THEN kind ELSE q[i]]
    BY <2>1, <2>2
  <2> QED BY <2>3 DEF u
<1> QED BY <1>1, <1>2, <1>3 DEF t

(* Appending to short sequences of kinds.                                  *)
LEMMA AppendTo0 ==
    ASSUME NEW a \in EventKinds
    PROVE  Append(<<>>, a) = <<a>>
<1> DEFINE s == <<>>
           t == Append(s, a)
<1>1. /\ s \in Seq(EventKinds) /\ Len(s) = 0
      /\ <<a>> \in Seq(EventKinds) /\ Len(<<a>>) = 1
  OBVIOUS
<1>2. /\ t \in Seq(EventKinds) /\ Len(t) = 1
      /\ t[1] = a
  BY <1>1, AppendProperties
<1> HIDE DEF t
<1>3. \A i \in 1 .. Len(t) : t[i] = <<a>>[i]
  <2>1. \A i \in 1 .. Len(t) : i = 1
    BY <1>2
  <2> QED BY <1>2, <2>1
<1>4. t = <<a>>
  BY <1>1, <1>2, <1>3, SeqEqual
<1> QED BY <1>4 DEF t

LEMMA AppendTo1 ==
    ASSUME NEW a \in EventKinds, NEW b \in EventKinds
    PROVE  Append(<<a>>, b) = <<a, b>>
<1> DEFINE s == <<a>>
           t == Append(s, b)
<1>1. /\ s \in Seq(EventKinds) /\ Len(s) = 1
      /\ <<a, b>> \in Seq(EventKinds) /\ Len(<<a, b>>) = 2
  OBVIOUS
<1>2. /\ t \in Seq(EventKinds) /\ Len(t) = 2
      /\ t[1] = a /\ t[2] = b
  BY <1>1, AppendProperties
<1> HIDE DEF t
<1>3. \A i \in 1 .. Len(t) : t[i] = <<a, b>>[i]
  <2>1. \A i \in 1 .. Len(t) : i = 1 \/ i = 2
    BY <1>2
  <2> QED BY <1>2, <2>1
<1>4. t = <<a, b>>
  BY <1>1, <1>2, <1>3, SeqEqual
<1> QED BY <1>4 DEF t

LEMMA AppendTo2 ==
    ASSUME NEW a \in EventKinds, NEW b \in EventKinds, NEW x \in EventKinds
    PROVE  Append(<<a, b>>, x) = <<a, b, x>>
<1> DEFINE s == <<a, b>>
           t == Append(s, x)
<1>1. /\ s \in Seq(EventKinds) /\ Len(s) = 2
      /\ <<a, b, x>> \in Seq(EventKinds) /\ Len(<<a, b, x>>) = 3
  OBVIOUS
<1>2. /\ t \in Seq(EventKinds) /\ Len(t) = 3
      /\ t[1] = a /\ t[2] = b /\ t[3] = x
  BY <1>1, AppendProperties
<1> HIDE DEF t
<1>3. \A i \in 1 .. Len(t) : t[i] = <<a, b, x>>[i]
  <2>1. \A i \in 1 .. Len(t) : i = 1 \/ i = 2 \/ i = 3
    BY <1>2
  <2> QED BY <1>2, <2>1
<1>4. t = <<a, b, x>>
  BY <1>1, <1>2, <1>3, SeqEqual
<1> QED BY <1>4 DEF t

LEMMA AppendTo3 ==
    ASSUME NEW a \in EventKinds, NEW b \in EventKinds, NEW x \in EventKinds, NEW y \in EventKinds
    PROVE  Append(<<a, b, x>>, y) = <<a, b, x, y>>
<1> DEFINE s == <<a, b, x>>
           t == Append(s, y)
<1>1. /\ s \in Seq(EventKinds) /\ Len(s) = 3
      /\ <<a, b, x, y>> \in Seq(EventKinds) /\ Len(<<a, b, x, y>>) = 4
  OBVIOUS
<1>2. /\ t \in Seq(EventKinds) /\ Len(t) = 4
      /\ t[1] = a /\ t[2] = b /\ t[3] = x /\ t[4] = y
  BY <1>1, AppendProperties
<1> HIDE DEF t
<1>3. \A i \in 1 .. Len(t) : t[i] = <<a, b, x, y>>[i]
  <2>1. \A i \in 1 .. Len(t) : i = 1 \/ i = 2 \/ i = 3 \/ i = 4
    BY <1>2
  <2> QED BY <1>2, <2>1
<1>4. t = <<a, b, x, y>>
  BY <1>1, <1>2, <1>3, SeqEqual
<1> QED BY <1>4 DEF t

LEMMA AppendTo4 ==
    ASSUME NEW a \in EventKinds, NEW b \in EventKinds, NEW x \in EventKinds,
           NEW y \in EventKinds, NEW z \in EventKinds
    PROVE  Append(<<a, b, x, y>>, z) = <<a, b, x, y, z>>
<1> DEFINE s == <<a, b, x, y>>
           t == Append(s, z)
<1>1. /\ s \in Seq(EventKinds) /\ Len(s) = 4
      /\ <<a, b, x, y, z>> \in Seq(EventKinds) /\ Len(<<a, b, x, y, z>>) = 5
  OBVIOUS
<1>2. /\ t \in Seq(EventKinds) /\ Len(t) = 5
      /\ t[1] = a /\ t[2] = b /\ t[3] = x /\ t[4] = y /\ t[5] = z
  BY <1>1, AppendProperties
<1> HIDE DEF t
<1>3. \A i \in 1 .. Len(t) : t[i] = <<a, b, x, y, z>>[i]
  <2>1. \A i \in 1 .. Len(t) : i = 1 \/ i = 2 \/ i = 3 \/ i = 4 \/ i = 5
    BY <1>2
  <2> QED BY <1>2, <2>1
<1>4. t = <<a, b, x, y, z>>
  BY <1>1, <1>2, <1>3, SeqEqual
<1> QED BY <1>4 DEF t

(* What holds of the chain and the receipt of one order.                   *)
ChainInv(k) ==
    /\ Kinds(audit[k]) \in AuditChains(orders[k])
    /\ Ordered(audit[k])
    /\ EndsAt(audit[k], orders[k].updated)
    /\ orders[k].updated <= clock

ReceiptInv(k) ==
    /\ orders[k].receipt => orders[k].state \in {"Submitted", "Terminal"}
    /\ orders[k].state = "Submitted" => orders[k].receipt
    /\ orders[k].state = "Terminal" /\ ~orders[k].receipt => orders[k].revision # None
    /\ orders[k].receipt => /\ Len(audit[k]) >= 3
                            /\ audit[k][3].kind = "submitted"
                            /\ audit[k][3].at < orders[k].expiry

EvidenceInv == \A k \in Keys : ChainInv(k) /\ ReceiptInv(k)

(* Appending an event at the accepted clock.                               *)
LEMMA AppendsKeeps ==
    ASSUME TypeOK, TypeOK', clock' >= clock, NEW k \in Keys, NEW kind \in EventKinds,
           ChainInv(k), Appends(k, kind)
    PROVE  /\ Kinds(audit'[k]) = Append(Kinds(audit[k]), kind)
           /\ Ordered(audit'[k])
           /\ EndsAt(audit'[k], clock')
<1>1. /\ audit[k] \in Seq(EventType) /\ clock' \in Time /\ clock \in Time
      /\ orders[k].updated \in Time
  BY DEF TypeOK, EventType, OrderRow
<1>2. orders[k].updated <= clock'
  BY <1>1 DEF ChainInv, Time
<1> QED BY <1>1, <1>2, KindsGrow, OrderedAppend DEF ChainInv, Appends

(* A chain is as long as its kinds.                                        *)
LEMMA KindsLength ==
    ASSUME NEW s \in Seq(EventType), NEW t \in Seq(EventKinds), Kinds(s) = t
    PROVE  Len(s) = Len(t)
<1>1. DOMAIN Kinds(s) = 1 .. Len(s) /\ Len(s) \in Nat
  BY LenProperties DEF Kinds
<1>2. DOMAIN t = 1 .. Len(t) /\ Len(t) \in Nat
  BY LenProperties
<1>3. 1 .. Len(s) = 1 .. Len(t)
  BY <1>1, <1>2
<1> QED BY <1>1, <1>2, <1>3

(* Earlier events stay where they are.                                     *)
LEMMA AppendsAt ==
    ASSUME TypeOK, TypeOK', NEW k \in Keys, NEW kind \in EventKinds, Appends(k, kind)
    PROVE  /\ Len(audit'[k]) = Len(audit[k]) + 1
           /\ audit'[k][Len(audit[k]) + 1] = Event(kind, clock')
           /\ \A i \in 1 .. Len(audit[k]) : audit'[k][i] = audit[k][i]
           /\ Len(audit[k]) \in Nat
<1>1. audit[k] \in Seq(EventType) /\ clock' \in Time
  BY DEF TypeOK, EventType
<1>2. Len(audit[k]) \in Nat
  BY <1>1, LenProperties
<1> QED BY <1>1, <1>2, KindsAppend DEF Appends

LEMMA EvidenceStep ==
    ASSUME TypeOK, TypeOK', clock' >= clock, NEW k \in Keys,
           ChainInv(k), ReceiptInv(k), RowStep(k)
    PROVE  (ChainInv(k) /\ ReceiptInv(k))'
<1>1. /\ orders[k] \in OrderRow /\ orders'[k] \in OrderRow
      /\ clock \in Time /\ clock' \in Time /\ audit[k] \in Seq(EventType)
  BY DEF TypeOK, EventType
<1>2. clock' <= clock' /\ clock' \in Int
  BY <1>1 DEF Time
<1>k. "prepared" \in EventKinds /\ "submission_lease_granted" \in EventKinds /\ "submitted" \in EventKinds
      /\ "indeterminate" \in EventKinds /\ "recovered_submission" \in EventKinds /\ "terminal" \in EventKinds
  BY DEF EventKinds
<1>3. CASE Kept(k)
  <2>1. orders[k].updated <= clock'
    BY <1>1 DEF ChainInv, OrderRow, Time
  <2>2. ChainInv(k)'
    BY <1>3, <2>1 DEF Kept, ChainInv
  <2> QED BY <1>3, <2>2 DEF Kept, ReceiptInv
<1>4. CASE Admits(k)
  <2>1. Kinds(audit[k]) = <<>> /\ Appends(k, "prepared")
    BY <1>1, <1>4 DEF Admits, Moves, ChainInv, ReceiptInv, AuditChains
  <2>2. /\ Kinds(audit'[k]) = <<"prepared">>
        /\ Ordered(audit'[k]) /\ EndsAt(audit'[k], clock')
    <3>1. Append(<<>>, "prepared") = <<"prepared">>
      BY <1>k, AppendTo0
    <3> QED BY <1>k, <2>1, <3>1, AppendsKeeps
  <2>3. ChainInv(k)'
    BY <1>1, <1>2, <1>4, <2>2 DEF Admits, Moves, KeepsReceipt, ChainInv, ReceiptInv, AuditChains
  <2> QED BY <1>4, <2>3 DEF Admits, Moves, ReceiptInv
<1>5. CASE Leases(k)
  <2>1. Kinds(audit[k]) = <<"prepared">> /\ Appends(k, "submission_lease_granted")
    BY <1>1, <1>5 DEF Leases, Moves, ChainInv, ReceiptInv, AuditChains
  <2>2. /\ Kinds(audit'[k]) = <<"prepared", "submission_lease_granted">>
        /\ Ordered(audit'[k]) /\ EndsAt(audit'[k], clock')
    <3>1. Append(<<"prepared">>, "submission_lease_granted") = <<"prepared", "submission_lease_granted">>
      BY <1>k, AppendTo1
    <3> QED BY <1>k, <2>1, <3>1, AppendsKeeps
  <2>3. ChainInv(k)'
    BY <1>1, <1>2, <1>5, <2>2 DEF Leases, Moves, KeepsReceipt, ChainInv, ReceiptInv, AuditChains
  <2> QED BY <1>5, <2>3 DEF Leases, Moves, KeepsReceipt, ReceiptInv
<1>6. CASE Acknowledges(k)
  <2>1. Kinds(audit[k]) = <<"prepared", "submission_lease_granted">> /\ Appends(k, "submitted")
    BY <1>1, <1>6 DEF Acknowledges, Moves, ChainInv, ReceiptInv, AuditChains
  <2>2. /\ Kinds(audit'[k]) = <<"prepared", "submission_lease_granted", "submitted">>
        /\ Ordered(audit'[k]) /\ EndsAt(audit'[k], clock')
    <3>1. Append(<<"prepared", "submission_lease_granted">>, "submitted") = <<"prepared", "submission_lease_granted", "submitted">>
      BY <1>k, AppendTo2
    <3> QED BY <1>k, <2>1, <3>1, AppendsKeeps
  <2>3. ChainInv(k)'
    BY <1>1, <1>2, <1>6, <2>2 DEF Acknowledges, Moves, KeepsReceipt, ChainInv, ReceiptInv, AuditChains
  <2>4. Len(audit[k]) = 2
    <3>1. <<"prepared", "submission_lease_granted">> \in Seq(EventKinds)
      BY <1>k
    <3> QED BY <1>1, <2>1, <3>1, KindsLength
  <2>5. Len(audit'[k]) = 3 /\ audit'[k][3] = Event("submitted", clock')
    <3>1. /\ Len(audit'[k]) = Len(audit[k]) + 1
          /\ audit'[k][Len(audit[k]) + 1] = Event("submitted", clock')
      BY <1>k, <2>1, AppendsAt
    <3> QED BY <2>4, <3>1
  <2>6. audit'[k][3].kind = "submitted" /\ audit'[k][3].at = clock'
    BY <2>5 DEF Event
  <2> QED BY <1>6, <2>3, <2>5, <2>6 DEF Acknowledges, Moves, KeepsLease, ReceiptInv
<1>7. CASE Doubts(k)
  <2>1. Kinds(audit[k]) = <<"prepared", "submission_lease_granted">> /\ Appends(k, "indeterminate")
    BY <1>1, <1>7 DEF Doubts, Moves, ChainInv, ReceiptInv, AuditChains
  <2>2. /\ Kinds(audit'[k]) = <<"prepared", "submission_lease_granted", "indeterminate">>
        /\ Ordered(audit'[k]) /\ EndsAt(audit'[k], clock')
    <3>1. Append(<<"prepared", "submission_lease_granted">>, "indeterminate") = <<"prepared", "submission_lease_granted", "indeterminate">>
      BY <1>k, AppendTo2
    <3> QED BY <1>k, <2>1, <3>1, AppendsKeeps
  <2>3. ChainInv(k)'
    BY <1>1, <1>2, <1>7, <2>2 DEF Doubts, Moves, KeepsReceipt, ChainInv, ReceiptInv, AuditChains
  <2> QED BY <1>7, <2>3 DEF Doubts, Moves, KeepsReceipt, ReceiptInv
<1>8. CASE Settles(k)
  <2>1. Kinds(audit[k]) = <<"prepared", "submission_lease_granted", "submitted">> /\ Appends(k, "terminal")
    BY <1>1, <1>8 DEF Settles, Moves, ChainInv, ReceiptInv, AuditChains
  <2>2. /\ Kinds(audit'[k]) = <<"prepared", "submission_lease_granted", "submitted", "terminal">>
        /\ Ordered(audit'[k]) /\ EndsAt(audit'[k], clock')
    <3>1. Append(<<"prepared", "submission_lease_granted", "submitted">>, "terminal") = <<"prepared", "submission_lease_granted", "submitted", "terminal">>
      BY <1>k, AppendTo3
    <3> QED BY <1>k, <2>1, <3>1, AppendsKeeps
  <2>3. ChainInv(k)'
    BY <1>1, <1>2, <1>8, <2>2 DEF Settles, Moves, KeepsReceipt, ChainInv, ReceiptInv, AuditChains
  <2>4. Len(audit'[k]) >= 3 /\ audit'[k][3] = audit[k][3]
    BY <1>k, <1>8, <2>1, AppendsAt DEF Settles, Moves, ReceiptInv
  <2> QED BY <1>8, <2>3, <2>4 DEF Settles, Moves, KeepsLease, KeepsReceipt, ReceiptInv
<1>9. CASE Recovers(k)
  <2> DEFINE e == Event("recovered_submission", clock')
             s == Append(audit[k], e)
  <2>1. /\ orders[k].state \in {"Submitting", "Indeterminate"} /\ ~orders[k].receipt
        /\ orders'[k].state = "Terminal" /\ ~orders'[k].receipt
        /\ orders'[k].updated = clock' /\ orders'[k].revision # None
        /\ audit'[k] = Append(s, Event("terminal", clock'))
    BY <1>9, BoundsAssumption DEF Recovers, Moves, KeepsReceipt, ReceiptInv
  <2>2. orders[k].updated \in Time /\ orders[k].updated <= clock'
    BY <1>1 DEF ChainInv, OrderRow, Time
  <2>3. /\ Kinds(s) = Append(Kinds(audit[k]), "recovered_submission")
        /\ s \in Seq(EventType) /\ Ordered(s) /\ EndsAt(s, clock')
    BY <1>1, <1>k, <2>2, KindsGrow, OrderedAppend DEF ChainInv
  <2> HIDE DEF s
  <2>4. /\ Kinds(audit'[k]) = Append(Kinds(s), "terminal")
        /\ Ordered(audit'[k]) /\ EndsAt(audit'[k], clock')
    BY <1>1, <1>2, <1>k, <2>1, <2>3, KindsGrow, OrderedAppend
  <2>5. Kinds(audit'[k]) \in
           {<<"prepared", "submission_lease_granted", "recovered_submission", "terminal">>,
            <<"prepared", "submission_lease_granted", "indeterminate",
              "recovered_submission", "terminal">>}
    <3>1. CASE Kinds(audit[k]) = <<"prepared", "submission_lease_granted">>
      <4>1. Append(<<"prepared", "submission_lease_granted">>, "recovered_submission") =
               <<"prepared", "submission_lease_granted", "recovered_submission">>
        BY <1>k, AppendTo2
      <4>2. Append(<<"prepared", "submission_lease_granted", "recovered_submission">>, "terminal") =
               <<"prepared", "submission_lease_granted", "recovered_submission", "terminal">>
        BY <1>k, AppendTo3
      <4> QED BY <2>3, <2>4, <3>1, <4>1, <4>2
    <3>2. CASE Kinds(audit[k]) = <<"prepared", "submission_lease_granted", "indeterminate">>
      <4>1. Append(<<"prepared", "submission_lease_granted", "indeterminate">>, "recovered_submission") =
               <<"prepared", "submission_lease_granted", "indeterminate",
                 "recovered_submission">>
        BY <1>k, AppendTo3
      <4>2. Append(<<"prepared", "submission_lease_granted", "indeterminate",
                     "recovered_submission">>, "terminal") =
               <<"prepared", "submission_lease_granted", "indeterminate",
                 "recovered_submission", "terminal">>
        BY <1>k, AppendTo4
      <4> QED BY <2>3, <2>4, <3>2, <4>1, <4>2
    <3> QED BY <1>1, <2>1, <3>1, <3>2 DEF ChainInv, AuditChains
  <2>6. ChainInv(k)'
    BY <1>1, <1>2, <2>1, <2>4, <2>5 DEF ChainInv, AuditChains
  <2> QED BY <2>1, <2>6 DEF ReceiptInv
<1> QED BY <1>3, <1>4, <1>5, <1>6, <1>7, <1>8, <1>9 DEF RowStep

LEMMA EvidenceInvariant == Spec => []EvidenceInv
<1>1. Init => EvidenceInv
  <2> SUFFICES ASSUME Init, NEW k \in Keys PROVE ChainInv(k) /\ ReceiptInv(k)
    BY DEF EvidenceInv
  <2>1. /\ orders[k] = AbsentRow /\ audit[k] = <<>> /\ clock = 0
    BY DEF Init
  <2>2. Kinds(<<>>) = <<>> /\ Ordered(<<>>) /\ EndsAt(<<>>, 0)
    BY DEF Kinds, Ordered, EndsAt
  <2> QED BY <2>1, <2>2 DEF ChainInv, ReceiptInv, AuditChains, AbsentRow
<1>2. TypeOK /\ TypeOK' /\ EvidenceInv /\ [Next]_vars => EvidenceInv'
  <2> SUFFICES ASSUME TypeOK, TypeOK', EvidenceInv, [Next]_vars, NEW k \in Keys
               PROVE  (ChainInv(k) /\ ReceiptInv(k))'
    BY DEF EvidenceInv
  <2> QED BY EveryRowSteps, EvidenceStep DEF EvidenceInv
<1> QED BY <1>1, <1>2, TypeCorrect, PTL DEF Spec

(* However processes race, crash or read a stale clock, the audit chain of *)
(* an order retells its row: write_event runs in the transaction that      *)
(* moves the row, at a time no older than the persisted high water.        *)
THEOREM AuditFaithful == Spec => []AuditRetellsRow
<1>1. EvidenceInv => AuditRetellsRow
  BY DEF EvidenceInv, ChainInv, ReceiptInv, AuditRetellsRow, Kinds, Ordered, EndsAt
<1> QED BY <1>1, EvidenceInvariant, PTL

(* A stored receipt stands for exactly one send, acknowledged before the   *)
(* lease ran out, for any interleaving of record_submitted with recovery.  *)
THEOREM ReceiptsTimely == Spec => []ReceiptWithinLease
<1>1. EvidenceInv /\ DispatchInv => ReceiptWithinLease
  BY DEF EvidenceInv, ReceiptInv, DispatchInv, SentInv, ReceiptWithinLease
<1> QED BY <1>1, EvidenceInvariant, DispatchInvariant, PTL

(* No step rewrites the request or the policy of an admitted order, no     *)
(* step changes a terminal row, and an ambiguous send is settled only with *)
(* a snapshot's revision.                                                  *)
THEOREM EvidenceFinal == Spec => EvidenceIsFinal
<1> DEFINE Final(k) ==
             LET row == orders[k]
                 new == orders'[k]
             IN  /\ row.state # "Absent" =>
                       new.request = row.request /\ new.policy = row.policy
                 /\ row.state = "Terminal" => new = row
                 /\ row.state = "Indeterminate" /\ new # row =>
                       new.state = "Terminal" /\ new.revision \in Revisions
<1>1. TypeOK /\ [Next]_vars => \A k \in Keys : Final(k)
  <2> SUFFICES ASSUME TypeOK, [Next]_vars, NEW k \in Keys PROVE Final(k)
    OBVIOUS
  <2>1. RowStep(k)
    BY EveryRowSteps
  <2> QED BY <2>1 DEF RowStep, Kept, Admits, Leases, Acknowledges, Doubts, Settles,
                      Recovers, Moves, KeepsIdentity
<1>2. TypeOK /\ [Next]_vars => [\A k \in Keys : Final(k)]_vars
  BY <1>1
<1> QED BY <1>2, TypeCorrect, PTL DEF Spec, EvidenceIsFinal

-----------------------------------------------------------------------------
(* Daily usage is the sum of the reservations.                             *)

(* Nothing is reserved or charged and no order is admitted.                *)
NothingAdmitted ==
    /\ UNCHANGED <<reserved, usage>>
    /\ \A k \in Keys : orders[k].state = "Absent" => orders'[k].state = "Absent"

(* Only prepare reserves, charges and admits.                              *)
LEMMA PrepareOrNothing ==
    ASSUME TypeOK, [Next]_vars
    PROVE  NothingAdmitted \/ \E p \in Procs, r \in Requests : Prepare(p, r)
<1> USE DEF memory, policyDb, riskDb
<1>q. ASSUME UNCHANGED <<orders, reserved, usage>> PROVE NothingAdmitted
  BY <1>q DEF NothingAdmitted
<1>m. ASSUME NEW ks, NEW now, MarkIndeterminate(ks, now), UNCHANGED <<reserved, usage>>,
             \A k \in ks : orders[k].state = "Submitting"
      PROVE  NothingAdmitted
  <2>1. ASSUME NEW k \in Keys, orders[k].state = "Absent" PROVE orders'[k] = orders[k]
    BY <1>m, <2>1 DEF MarkIndeterminate
  <2> QED BY <1>m, <2>1 DEF NothingAdmitted
<1>s. ASSUME NEW k \in Keys, orders[k].state # "Absent", UNCHANGED <<reserved, usage>>,
             NEW row, orders' = [orders EXCEPT ![k] = row]
      PROVE  NothingAdmitted
  BY <1>s DEF NothingAdmitted, TypeOK
<1>1. ASSUME NEW p \in Procs, NEW k \in Keys, OrderOp(p, k) PROVE NothingAdmitted
  <2>1. CASE GrantLease(p, k)
    BY <1>s, <2>1 DEF GrantLease, Leased
  <2>2. CASE ExpireOnBegin(p, k)
    BY <1>m, <2>2 DEF ExpireOnBegin
  <2>3. ASSUME NEW t, NEW rev, ObserveTerminal(p, k, t, rev) PROVE NothingAdmitted
    BY <1>s, <2>3 DEF ObserveTerminal
  <2>4. ASSUME NEW s, NEW t, NEW rev, ReconcileTerminal(p, k, s, t, rev)
        PROVE  NothingAdmitted
    BY <1>s, <2>4 DEF ReconcileTerminal
  <2> QED BY <1>1, <2>1, <2>2, <2>3, <2>4 DEF OrderOp, BeginSubmission
<1>2. ASSUME NEW p \in Procs, NEW s \in Scopes, RecoverExpired(p, s) PROVE NothingAdmitted
  <2>1. \A k \in ExpiredIn(s, stamp[p]) : orders[k].state = "Submitting"
    BY DEF ExpiredIn
  <2> QED BY <1>2, <1>m, <2>1 DEF RecoverExpired
<1>3. ASSUME NEW p \in Procs, ProcessOp(p), ~ \E r \in Requests : Prepare(p, r)
      PROVE  NothingAdmitted
  <2>1. CASE \/ ReadClock(p) \/ Abandon(p, {}) \/ Crash(p)
             \/ \E a \in Accounts : ReadActivePolicy(p, a)
             \/ \E a \in Accounts, policy \in Policies : InstallPolicy(p, a, policy)
    BY <1>q, <2>1 DEF ReadClock, Abandon, Crash, ReadActivePolicy, InstallPolicy
  <2> QED BY <1>1, <1>2, <1>3, <2>1 DEF ProcessOp
<1>4. ASSUME NEW m \in permits, PermitOp(m) PROVE NothingAdmitted
  <2>1. m.key \in Keys
    BY DEF TypeOK, PermitType
  <2>2. CASE RecordSubmitted(m)
    <3>1. CASE MarkIndeterminate({m.key}, stamp[m.proc])
      BY <1>m, <2>2, <3>1 DEF RecordSubmitted
    <3>2. CASE ~ MarkIndeterminate({m.key}, stamp[m.proc])
      BY <1>s, <2>1, <2>2, <3>2 DEF RecordSubmitted
    <3> QED BY <3>1, <3>2
  <2>3. CASE RecordIndeterminate(m)
    BY <1>m, <2>3 DEF RecordIndeterminate
  <2>4. ASSUME NEW phase, NEW reached, Send(m, phase, reached) PROVE NothingAdmitted
    BY <1>q, <2>4 DEF Send
  <2>5. CASE Abandon(m.proc, {m})
    BY <1>q, <2>5 DEF Abandon
  <2> QED BY <1>4, <2>2, <2>3, <2>4, <2>5 DEF PermitOp
<1>5. CASE Tick \/ SetClockBack \/ UNCHANGED vars
  BY <1>5, <1>q DEF Tick, SetClockBack, vars
<1> QED BY <1>3, <1>4, <1>5 DEF Next

(* The sums are over finite sets: only finitely many orders were admitted. *)
AdmittedKeys == {k \in Keys : orders[k].state # "Absent"}

UsageInv == UsageIsReserved /\ IsFiniteSet(AdmittedKeys)

Reservations(rule) == [k \in Keys |-> reserved[k][rule]]

LEMMA UsageInvStep == TypeOK /\ UsageInv /\ [Next]_vars => UsageInv'
<1> SUFFICES ASSUME TypeOK, UsageInv, [Next]_vars
             PROVE  UsageInv'
  OBVIOUS
<1>1. CASE NothingAdmitted
  <2>1. ASSUME NEW k \in Keys
        PROVE  /\ orders'[k].state = "Absent" <=> orders[k].state = "Absent"
               /\ orders[k].state # "Absent" => orders'[k].request = orders[k].request
    <3>1. RowStep(k)
      BY EveryRowSteps
    <3> QED BY <1>1, <3>1 DEF NothingAdmitted, RowStep, Kept, Admits, Leases, Acknowledges,
                              Doubts, Settles, Recovers, Moves, KeepsIdentity
  <2>2. AdmittedKeys' = AdmittedKeys /\ \A s : ChargedTo(s)' = ChargedTo(s)
    BY <2>1 DEF AdmittedKeys, ChargedTo, ScopeOf
  <2> QED BY <1>1, <2>2 DEF UsageInv, UsageIsReserved, NothingAdmitted
<1>2. ASSUME NEW p \in Procs, NEW r \in Requests, Prepare(p, r)
      PROVE  UsageInv'
  <2> DEFINE key == r.key
             own == ScopeOf(r)
             amount(rule) == Amount(active[r.account], r, rule)
             new == [AbsentRow EXCEPT !.state = "Prepared", !.request = r,
                               !.policy = active[r.account], !.updated = stamp[p]]
  <2>1. /\ key \in Keys /\ own \in Scopes /\ r.account \in Accounts
    BY RequestsAssumption DEF RequestType, ScopeOf, Scopes
  <2>2. active[r.account] \in Policies
    BY <1>2, <2>1 DEF Prepare, TypeOK
  <2>3. \A rule \in Rules : amount(rule) \in Nat
    BY <2>2, AmountType
  <2>4. orders[key].state = "Absent" /\ orders' = [orders EXCEPT ![key] = new]
    BY <1>2 DEF Prepare, Admitted
  <2>5. new.state = "Prepared" /\ new.request = r
    BY DEF AbsentRow
  <2>6. /\ reserved' = [reserved EXCEPT ![key] = [rule \in Rules |-> amount(rule)]]
        /\ usage' = [usage EXCEPT ![own] =
                        [rule \in Rules |-> usage[own][rule] + amount(rule)]]
    BY <1>2 DEF Prepare, ReservedAfter, UsageAfter
  <2> HIDE DEF new, amount, key, own
  <2>7. AdmittedKeys' = AdmittedKeys \cup {key}
    BY <2>1, <2>4, <2>5 DEF AdmittedKeys, TypeOK
  <2>8. IsFiniteSet(AdmittedKeys')
    BY <2>7, FS_AddElement DEF UsageInv
  <2>9. ASSUME NEW s \in Scopes
        PROVE  /\ IsFiniteSet(ChargedTo(s)) /\ key \notin ChargedTo(s)
               /\ ChargedTo(s)' = IF s = own THEN ChargedTo(s) \cup {key} ELSE ChargedTo(s)
    <3>1. ChargedTo(s) \subseteq AdmittedKeys
      BY DEF ChargedTo, AdmittedKeys
    <3>2. IsFiniteSet(ChargedTo(s))
      BY <3>1, FS_Subset DEF UsageInv
    <3>3. key \notin ChargedTo(s)
      BY <2>4 DEF ChargedTo
    <3>4. orders'[key].state # "Absent" /\ ScopeOf(orders'[key].request) = own
      BY <2>1, <2>4, <2>5 DEF TypeOK, own
    <3>5. \A k \in Keys \ {key} : orders'[k] = orders[k]
      BY <2>4 DEF TypeOK
    <3>6. ChargedTo(s)' = {k \in Keys : orders'[k].state # "Absent"
                                        /\ ScopeOf(orders'[k].request) = s}
      BY DEF ChargedTo, ScopeOf
    <3> QED BY <2>1, <3>2, <3>3, <3>4, <3>5, <3>6 DEF ChargedTo
  <2>10. ASSUME NEW s \in Scopes, NEW rule \in Rules
         PROVE  usage'[s][rule] = SumFunctionOnSet(Reservations(rule)', ChargedTo(s)')
    <3> DEFINE f == Reservations(rule)
               g == Reservations(rule)'
               S == ChargedTo(s)
    <3>1. \A k \in Keys : f[k] = reserved[k][rule] /\ g[k] = reserved'[k][rule]
      BY DEF Reservations
    <3>2. \A k \in Keys : f[k] \in Nat
      BY <3>1 DEF TypeOK
    <3>3. g[key] = amount(rule) /\ \A k \in Keys \ {key} : g[k] = f[k]
      BY <2>1, <2>6, <3>1 DEF TypeOK
    <3>4. S \subseteq Keys
      BY DEF ChargedTo
    <3>5. usage[s][rule] = SumFunctionOnSet(f, S)
      BY DEF UsageInv, UsageIsReserved, Reservations
    <3>6. IsFiniteSet(S) /\ key \notin S
      BY <2>9
    <3> HIDE DEF f, g, S
    <3>7. \A k \in S : f[k] = g[k] /\ g[k] \in Nat
      BY <3>2, <3>3, <3>4, <3>6
    <3>8. SumFunctionOnSet(f, S) = SumFunctionOnSet(g, S) /\ SumFunctionOnSet(g, S) \in Nat
      BY <3>6, <3>7, SumSame, SumIsNat
    <3>9. CASE s = own
      <4>1. usage'[s][rule] = usage[s][rule] + amount(rule)
        BY <2>1, <2>6, <3>9 DEF TypeOK
      <4>2. SumFunctionOnSet(g, S \cup {key}) = g[key] + SumFunctionOnSet(g, S)
        BY <2>3, <3>3, <3>6, <3>7, SumAdd
      <4>3. ChargedTo(s)' = S \cup {key}
        BY <2>9, <3>9 DEF S
      <4>4. SumFunctionOnSet(Reservations(rule)', ChargedTo(s)')
              = SumFunctionOnSet(g, S \cup {key})
        BY <4>3 DEF g
      <4> QED BY <2>3, <3>3, <3>5, <3>8, <4>1, <4>2, <4>4
    <3>10. CASE s # own
      <4>1. usage'[s][rule] = usage[s][rule]
        BY <2>1, <2>6, <3>10 DEF TypeOK
      <4>2. SumFunctionOnSet(Reservations(rule)', ChargedTo(s)') = SumFunctionOnSet(g, S)
        BY <2>9, <3>10 DEF S, g
      <4> QED BY <3>5, <3>8, <4>1, <4>2
    <3> QED BY <3>9, <3>10
  <2> QED BY <2>8, <2>10 DEF UsageInv, UsageIsReserved, Reservations
<1> QED BY <1>1, <1>2, PrepareOrNothing

(* For any orders, policies and processes, and whatever becomes of the     *)
(* orders, daily usage is the sum of what the orders of the scope have     *)
(* reserved: prepare writes both in one transaction and nothing else       *)
(* touches either (hard_risk_daily_usage against hard_risk_reservations).  *)
THEOREM UsageSumsReservations == Spec => []UsageIsReserved
<1>1. Init => UsageInv
  <2> SUFFICES ASSUME Init PROVE UsageInv
    OBVIOUS
  <2>1. AdmittedKeys = {} /\ \A s : ChargedTo(s) = {}
    BY DEF Init, AbsentRow, AdmittedKeys, ChargedTo
  <2>2. \A s \in Scopes, rule \in Rules : usage[s][rule] = 0
    BY DEF Init
  <2> QED BY <2>1, <2>2, FS_EmptySet, SumEmpty DEF UsageInv, UsageIsReserved
<1>2. UsageInv => UsageIsReserved
  BY DEF UsageInv
<1> QED BY <1>1, <1>2, TypeCorrect, UsageInvStep, PTL DEF Spec
=============================================================================
