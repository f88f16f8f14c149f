------------------------------ MODULE HardRisk ------------------------------
(***************************************************************************)
(* The durable pre-send authority of crates/tqsdk-hard-risk: a SQLite      *)
(* database shared by cooperating local processes.  Every operation first  *)
(* reads the wall clock and only then opens its BEGIN IMMEDIATE            *)
(* transaction, so an operation is two steps: ReadClock, then one atomic   *)
(* transaction that uses the reading.  The database variables survive a    *)
(* crash; a process' clock reading, policy expectation and submission      *)
(* permits are memory and do not.  A transaction that returns early or     *)
(* fails rolls back, the clock row included (Abandon).                     *)
(***************************************************************************)
EXTENDS Integers, Sequences, Functions

CONSTANTS
    Procs,        \* processes (or threads) using one database
    Keys,         \* HardRiskOrderKey: namespace, account, client order id
    Accounts,     \* HardRiskPolicyScope: namespace and account
    Days,         \* trading days
    Requests,     \* HardRiskOrderRequest values callers may pass to prepare
    Policies,     \* HardRiskPolicy values an administrator may install
    Terminals,    \* HardRiskTerminalState
    Revisions,    \* runtime revisions carried by observations and snapshots
    None,         \* SQL NULL / Option::None
    Lease,        \* submission_lease of the configuration
    MaxTime,      \* the largest representable time (i64::MAX milliseconds)
    MaxInstalls,  \* bound: activations recorded per account
    ClockMayRegress  \* whether the host may set its clock back

Rules == {"order_attempt", "open_volume"}
Scopes == Accounts \X Days
Time == 0 .. MaxTime
NoStamp == -1

(* HardRiskOrderRequest, with what admission looks at: side, symbol and    *)
(* price only enter the fingerprint.                                       *)
RequestType ==
    [key: Keys, account: Accounts, day: Days, open: BOOLEAN, volume: Nat \ {0}]

(* HardRiskPolicy::validate: at least one limit, configured limits are     *)
(* positive (0 stands for a limit that is not configured).  name stands    *)
(* for (policy_id, policy_version).                                        *)
ValidPolicy(p) ==
    /\ DOMAIN p = {"name", "limit"}
    /\ p.limit \in [Rules -> Nat]
    /\ \E rule \in Rules : p.limit[rule] > 0

(* A request's key names its account: HardRiskOrderKey is a projection of  *)
(* HardRiskScope without the trading day.                                  *)
ASSUME RequestsAssumption ==
    /\ Requests \subseteq RequestType
    /\ \A r, s \in Requests : r.key = s.key => r.account = s.account

ASSUME PoliciesAssumption ==
    /\ \A p \in Policies : ValidPolicy(p)
    /\ None \notin Policies

ASSUME BoundsAssumption ==
    /\ Lease \in Nat \ {0}
    /\ MaxTime \in Nat
    /\ MaxInstalls \in Nat
    /\ ClockMayRegress \in BOOLEAN
    /\ None \notin Revisions
    /\ None \notin Terminals
    /\ None \notin Procs
    /\ None \notin Requests

VARIABLES
    wall,       \* the host's wall clock
    stamp,      \* stamp[p]: the reading of the operation p is executing
    expect,     \* expect[p]: active policy p last read, per account
    permits,    \* permits held in memory
    clock,      \* hard_risk_clock.max_observed_at_ms
    installed,  \* hard_risk_policies, per account
    active,     \* hard_risk_active_policies, per account
    activations,\* hard_risk_policy_events, per account
    orders,     \* hard_risk_orders
    reserved,   \* hard_risk_reservations
    usage,      \* hard_risk_daily_usage
    audit,      \* hard_risk_events, per order
    sent        \* history: how often an order reached the network

memory == <<stamp, expect, permits>>
policyDb == <<installed, active, activations>>
riskDb == <<reserved, usage>>
vars == <<wall, stamp, expect, permits, clock, installed, active, activations,
          orders, reserved, usage, audit, sent>>

OrderStates ==
    {"Absent", "Prepared", "Submitting", "Submitted", "Indeterminate", "Terminal"}

AbsentRow ==
    [state |-> "Absent", request |-> None, policy |-> None, owner |-> None,
     generation |-> 0, expiry |-> 0, receipt |-> FALSE, terminal |-> None,
     revision |-> None, updated |-> 0]

Init ==
    /\ wall = 0
    /\ stamp = [p \in Procs |-> NoStamp]
    /\ expect = [p \in Procs |-> [a \in Accounts |-> None]]
    /\ permits = {}
    /\ clock = 0
    /\ installed = [a \in Accounts |-> {}]
    /\ active = [a \in Accounts |-> None]
    /\ activations = [a \in Accounts |-> <<>>]
    /\ orders = [k \in Keys |-> AbsentRow]
    /\ reserved = [k \in Keys |-> [rule \in Rules |-> 0]]
    /\ usage = [s \in Scopes |-> [rule \in Rules |-> 0]]
    /\ audit = [k \in Keys |-> <<>>]
    /\ sent = [k \in Keys |-> 0]

-----------------------------------------------------------------------------
(* The helpers the transactions share.                                     *)

(* advance_clock refuses a reading older than the persisted high water.    *)
ClockAccepts(now) == now >= clock

(* Inside a transaction: p has read its clock and the reading is accepted; *)
(* the commit stores it as the new high water and ends the call.           *)
Transact(p) ==
    /\ stamp[p] # NoStamp
    /\ ClockAccepts(stamp[p])
    /\ clock' = stamp[p]
    /\ stamp' = [stamp EXCEPT ![p] = NoStamp]

ScopeOf(request) == <<request.account, request.day>>

(* rule_requests: the rules the policy limits that bear on the request; an *)
(* order is one attempt, an opening order also consumes its volume.        *)
Amount(policy, request, rule) ==
    IF policy.limit[rule] = 0 \/ (rule = "open_volume" /\ ~request.open) THEN 0
    ELSE IF rule = "order_attempt" THEN 1 ELSE request.volume

(* Mutant: a lease is still good at its expiry.                            *)
ExpiredLate(k, now) == orders[k].expiry < now

Expired(k, now) == orders[k].expiry <= now

(* write_event appends to the audit chain of an order.                     *)
Event(kind, now) == [kind |-> kind, at |-> now]

(* mark_indeterminate_in_transaction, for every key of ks at once.         *)
MarkIndeterminate(ks, now) ==
    /\ orders' = [k \in Keys |->
          IF k \in ks
          THEN [orders[k] EXCEPT !.state = "Indeterminate", !.updated = now]
          ELSE orders[k]]
    /\ audit' = [k \in Keys |->
          IF k \in ks THEN Append(audit[k], Event("indeterminate", now))
          ELSE audit[k]]

(* A permit names its order, its owner and the lease generation; phase is  *)
(* the caller's progress: not sent, acknowledged with a matching receipt,  *)
(* or sent with an error, an invalid or a mismatched receipt.              *)
Permit(p, k, gen, phase) ==
    [proc |-> p, key |-> k, generation |-> gen, phase |-> phase]

Fenced(m) ==
    \/ orders[m.key].owner # m.proc
    \/ orders[m.key].generation # m.generation

-----------------------------------------------------------------------------
(* Policy administration.                                                  *)

(* active_policy: the administrator reads the policy it will replace.      *)
ReadActivePolicy(p, a) ==
    /\ stamp[p] = NoStamp
    /\ expect[p][a] # active[a]
    /\ expect' = [expect EXCEPT ![p][a] = active[a]]
    /\ UNCHANGED <<wall, stamp, permits, clock, policyDb, orders, riskDb, audit, sent>>

(* Mutant: install without the compare of compare-and-set.                 *)
InstallBlindly(p, a, policy) ==
    /\ Transact(p)
    /\ \A q \in installed[a] : q.name = policy.name => q = policy
    /\ policy # active[a]
    /\ Len(activations[a]) < MaxInstalls
    /\ installed' = [installed EXCEPT ![a] = @ \cup {policy}]
    /\ active' = [active EXCEPT ![a] = policy]
    /\ activations' = [activations EXCEPT
          ![a] = Append(@, [policy |-> policy, expected |-> expect[p][a]])]
    /\ UNCHANGED <<wall, expect, permits, orders, riskDb, audit, sent>>

(* install_policy: compare-and-set on the active revision; a version row   *)
(* is immutable, so the same name with other limits violates its key.      *)
(* Installing the policy that is active already changes no row.            *)
InstallPolicy(p, a, policy) ==
    /\ Transact(p)
    /\ expect[p][a] = active[a]
    /\ \A q \in installed[a] : q.name = policy.name => q = policy
    /\ installed' = [installed EXCEPT ![a] = @ \cup {policy}]
    /\ \/ /\ policy # active[a]
          /\ Len(activations[a]) < MaxInstalls
          /\ active' = [active EXCEPT ![a] = policy]
          /\ activations' = [activations EXCEPT
                ![a] = Append(@, [policy |-> policy, expected |-> expect[p][a]])]
       \/ policy = active[a] /\ UNCHANGED <<active, activations>>
    /\ UNCHANGED <<wall, expect, permits, orders, riskDb, audit, sent>>

-----------------------------------------------------------------------------
(* Admission and submission.                                               *)

(* unix_epoch_millis, read before the connection is opened.                *)
ReadClock(p) ==
    /\ stamp[p] = NoStamp
    /\ stamp' = [stamp EXCEPT ![p] = wall]
    /\ UNCHANGED <<wall, expect, permits, clock, policyDb, orders, riskDb, audit, sent>>

(* The rows prepare writes when it admits r at now.                        *)
Admitted(r, now) ==
    /\ orders' = [orders EXCEPT ![r.key] =
          [AbsentRow EXCEPT !.state = "Prepared", !.request = r,
                            !.policy = active[r.account], !.updated = now]]
    /\ audit' = [audit EXCEPT ![r.key] = Append(@, Event("prepared", now))]

(* Mutant: usage is compared with the limit, the request's amount is not   *)
(* projected.                                                              *)
HasRoomUnprojected(policy, r) ==
    \A rule \in Rules :
       Amount(policy, r, rule) > 0 => usage[ScopeOf(r)][rule] <= policy.limit[rule]

(* Mutant: the usage row is overwritten instead of advanced.               *)
UsageOverwritten(policy, r) ==
    [usage EXCEPT ![ScopeOf(r)] = [rule \in Rules |-> Amount(policy, r, rule)]]

(* Mutant: reservations are not stored.                                    *)
NoReservations(policy, r) == reserved

(* Every rule the policy limits has room for the request.                  *)
HasRoom(policy, r) ==
    \A rule \in Rules :
       Amount(policy, r, rule) > 0 =>
          usage[ScopeOf(r)][rule] + Amount(policy, r, rule) <= policy.limit[rule]

UsageAfter(policy, r) ==
    [usage EXCEPT ![ScopeOf(r)] =
        [rule \in Rules |-> usage[ScopeOf(r)][rule] + Amount(policy, r, rule)]]

ReservedAfter(policy, r) ==
    [reserved EXCEPT ![r.key] = [rule \in Rules |-> Amount(policy, r, rule)]]

(* prepare: a new key is admitted under the active policy when every rule  *)
(* it limits has room.  A known key returns the row or an identity         *)
(* conflict without touching the database (Abandon).  An i64 overflow of   *)
(* used + amount exceeds every limit, so the sum needs no width here.      *)
Prepare(p, r) ==
    LET policy == active[r.account]
    IN  /\ Transact(p)
        /\ orders[r.key].state = "Absent"
        /\ policy # None
        /\ HasRoom(policy, r)
        /\ Admitted(r, stamp[p])
        /\ reserved' = ReservedAfter(policy, r)
        /\ usage' = UsageAfter(policy, r)
        /\ UNCHANGED <<wall, expect, permits, policyDb, sent>>

(* The row, the event and the permit of a granted lease.                   *)
Leased(p, k) ==
    /\ orders' = [orders EXCEPT ![k] =
          [orders[k] EXCEPT !.state = "Submitting", !.owner = p,
                            !.updated = stamp[p], !.expiry = stamp[p] + Lease,
                            !.generation = orders[k].generation + 1]]
    /\ audit' = [audit EXCEPT ![k] = Append(@, Event("submission_lease_granted", stamp[p]))]
    /\ permits' = permits \cup {Permit(p, k, orders[k].generation + 1, "held")}
    /\ UNCHANGED <<wall, expect, policyDb, riskDb, sent>>

(* Mutant: an expired lease is taken over and the order sent again.        *)
GrantLeaseReclaiming(p, k) ==
    /\ Transact(p)
    /\ stamp[p] + Lease <= MaxTime
    /\ \/ orders[k].state = "Prepared"
       \/ orders[k].state = "Submitting" /\ Expired(k, stamp[p])
    /\ Leased(p, k)

(* begin_submission of a Prepared order grants a permit; the expiry is a   *)
(* checked addition, made before the row is looked at.                     *)
GrantLease(p, k) ==
    /\ Transact(p)
    /\ stamp[p] + Lease <= MaxTime
    /\ orders[k].state = "Prepared"
    /\ Leased(p, k)

(* begin_submission of an order whose lease ran out gives no new permit.   *)
ExpireOnBegin(p, k) ==
    /\ Transact(p)
    /\ stamp[p] + Lease <= MaxTime
    /\ orders[k].state = "Submitting"
    /\ Expired(k, stamp[p])
    /\ MarkIndeterminate({k}, stamp[p])
    /\ UNCHANGED <<wall, expect, permits, policyDb, riskDb, sent>>

BeginSubmission(p, k) == GrantLease(p, k) \/ ExpireOnBegin(p, k)

(* submit_once runs the caller's network callback outside any transaction  *)
(* and without looking at the lease.  A success reached the network; a     *)
(* failed or mismatched call may or may not have.                          *)
Send(m, phase, reached) ==
    /\ stamp[m.proc] = NoStamp
    /\ m.phase = "held"
    /\ phase = "acknowledged" => reached
    /\ permits' = (permits \ {m}) \cup {[m EXCEPT !.phase = phase]}
    /\ sent' = [sent EXCEPT ![m.key] = IF reached THEN @ + 1 ELSE @]
    /\ UNCHANGED <<wall, stamp, expect, clock, policyDb, orders, riskDb, audit>>

(* record_submitted consumes the permit: a lease that ran out turns the    *)
(* row Indeterminate, otherwise the receipt is stored.                     *)
RecordSubmitted(m) ==
    LET k == m.key
        now == stamp[m.proc]
    IN  /\ m.phase = "acknowledged"
        /\ Transact(m.proc)
        /\ orders[k].state = "Submitting"
        /\ ~Fenced(m)
        /\ permits' = permits \ {m}
        /\ \/ Expired(k, now) /\ MarkIndeterminate({k}, now)
           \/ /\ ~Expired(k, now)
              /\ orders' = [orders EXCEPT ![k] =
                    [orders[k] EXCEPT !.state = "Submitted", !.receipt = TRUE,
                                      !.updated = now]]
              /\ audit' = [audit EXCEPT ![k] = Append(@, Event("submitted", now))]
        /\ UNCHANGED <<wall, expect, policyDb, riskDb, sent>>

(* record_indeterminate, by submit_once after a failed or mismatched call, *)
(* or by a caller that gives an unsent permit up.                          *)
RecordIndeterminate(m) ==
    /\ m.phase \in {"held", "ambiguous"}
    /\ Transact(m.proc)
    /\ orders[m.key].state = "Submitting"
    /\ ~Fenced(m)
    /\ permits' = permits \ {m}
    /\ MarkIndeterminate({m.key}, stamp[m.proc])
    /\ UNCHANGED <<wall, expect, policyDb, riskDb, sent>>

-----------------------------------------------------------------------------
(* Terminal evidence and recovery.                                         *)

TerminalRow(k, t, rev, now) ==
    [orders[k] EXCEPT !.state = "Terminal", !.terminal = t, !.revision = rev,
                      !.updated = now]

(* Mutant: a terminal observation is taken in any non-terminal state.      *)
ObserveTerminalAnyState(p, k, t, rev) ==
    /\ Transact(p)
    /\ orders[k].state \notin {"Absent", "Terminal"}
    /\ orders' = [orders EXCEPT ![k] = TerminalRow(k, t, rev, stamp[p])]
    /\ audit' = [audit EXCEPT ![k] = Append(@, Event("terminal", stamp[p]))]
    /\ UNCHANGED <<wall, expect, permits, policyDb, riskDb, sent>>

(* observe_terminal: only the locally receipted path, revision optional.   *)
ObserveTerminal(p, k, t, rev) ==
    /\ Transact(p)
    /\ orders[k].state = "Submitted"
    /\ orders' = [orders EXCEPT ![k] = TerminalRow(k, t, rev, stamp[p])]
    /\ audit' = [audit EXCEPT ![k] = Append(@, Event("terminal", stamp[p]))]
    /\ UNCHANGED <<wall, expect, permits, policyDb, riskDb, sent>>

(* Mutant: a later snapshot overwrites terminal evidence.                  *)
ReconcileAgain(p, k, s, t, rev) ==
    /\ Transact(p)
    /\ orders[k].state \in {"Submitting", "Indeterminate", "Terminal"}
    /\ ScopeOf(orders[k].request) = s
    /\ orders' = [orders EXCEPT ![k] = TerminalRow(k, t, rev, stamp[p])]
    /\ UNCHANGED <<wall, expect, permits, policyDb, riskDb, audit, sent>>

(* reconcile_terminal: from a complete snapshot of the order's own scope,  *)
(* at the snapshot's revision, leaving a recovery event in the audit.      *)
ReconcileTerminal(p, k, s, t, rev) ==
    /\ Transact(p)
    /\ orders[k].state \in {"Submitting", "Indeterminate"}
    /\ ScopeOf(orders[k].request) = s
    /\ orders' = [orders EXCEPT ![k] = TerminalRow(k, t, rev, stamp[p])]
    /\ audit' = [audit EXCEPT ![k] =
          @ \o <<Event("recovered_submission", stamp[p]), Event("terminal", stamp[p])>>]
    /\ UNCHANGED <<wall, expect, permits, policyDb, riskDb, sent>>

(* Mutant: the sweep also selects rows that have left Submitting.          *)
ExpiredInAnyState(s, now) ==
    {k \in Keys : /\ orders[k].state \in {"Submitting", "Submitted", "Indeterminate"}
                  /\ ScopeOf(orders[k].request) = s
                  /\ Expired(k, now)}

(* recover_expired_submissions: every expired Submitting row of one scope, *)
(* whoever owns it, in one transaction.                                    *)
ExpiredIn(s, now) ==
    {k \in Keys : /\ orders[k].state = "Submitting"
                  /\ ScopeOf(orders[k].request) = s
                  /\ Expired(k, now)}

(* Mutant: a process sweeps only the leases it owns itself.                *)
RecoverOwnExpired(p, s) ==
    /\ Transact(p)
    /\ MarkIndeterminate({k \in ExpiredIn(s, stamp[p]) : orders[k].owner = p}, stamp[p])
    /\ UNCHANGED <<wall, expect, permits, policyDb, riskDb, sent>>

RecoverExpired(p, s) ==
    /\ Transact(p)
    /\ MarkIndeterminate(ExpiredIn(s, stamp[p]), stamp[p])
    /\ UNCHANGED <<wall, expect, permits, policyDb, riskDb, sent>>

-----------------------------------------------------------------------------
(* The environment.                                                        *)

(* An operation ends without a commit: a typed error, an answer that only  *)
(* reads, or a storage failure (busy timeout, full disk).  A record_*      *)
(* operation has consumed its permit by then.                              *)
Abandon(p, lost) ==
    /\ stamp[p] # NoStamp
    /\ stamp' = [stamp EXCEPT ![p] = NoStamp]
    /\ permits' = permits \ lost
    /\ UNCHANGED <<wall, expect, clock, policyDb, orders, riskDb, audit, sent>>

(* A process dies: its memory is gone, the database stays.                 *)
Crash(p) ==
    /\ stamp' = [stamp EXCEPT ![p] = NoStamp]
    /\ expect' = [expect EXCEPT ![p] = [a \in Accounts |-> None]]
    /\ permits' = {m \in permits : m.proc # p}
    /\ <<stamp, expect, permits>>' # <<stamp, expect, permits>>
    /\ UNCHANGED <<wall, clock, policyDb, orders, riskDb, audit, sent>>

Tick ==
    /\ wall < MaxTime
    /\ wall' = wall + 1
    /\ UNCHANGED <<memory, clock, policyDb, orders, riskDb, audit, sent>>

SetClockBack ==
    /\ ClockMayRegress
    /\ wall > 0
    /\ wall' = wall - 1
    /\ UNCHANGED <<memory, clock, policyDb, orders, riskDb, audit, sent>>

-----------------------------------------------------------------------------

PermitOp(m) ==
    \/ \E phase \in {"acknowledged", "ambiguous"}, reached \in BOOLEAN :
          Send(m, phase, reached)
    \/ RecordSubmitted(m)
    \/ RecordIndeterminate(m)
    \/ Abandon(m.proc, {m})

OrderOp(p, k) ==
    \/ BeginSubmission(p, k)
    \/ \E t \in Terminals, rev \in Revisions \cup {None} : ObserveTerminal(p, k, t, rev)
    \/ \E t \in Terminals, rev \in Revisions, s \in Scopes :
          ReconcileTerminal(p, k, s, t, rev)

ProcessOp(p) ==
    \/ ReadClock(p)
    \/ \E a \in Accounts :
          ReadActivePolicy(p, a) \/ \E policy \in Policies : InstallPolicy(p, a, policy)
    \/ \E r \in Requests : Prepare(p, r)
    \/ \E k \in Keys : OrderOp(p, k)
    \/ \E s \in Scopes : RecoverExpired(p, s)
    \/ Abandon(p, {})
    \/ Crash(p)

Next ==
    \/ \E p \in Procs : ProcessOp(p)
    \/ \E m \in permits : PermitOp(m)
    \/ Tick
    \/ SetClockBack

Spec == Init /\ [][Next]_vars

-----------------------------------------------------------------------------
(* Properties.                                                             *)

OrderRow ==
    [state: OrderStates, request: Requests \cup {None}, policy: Policies \cup {None},
     owner: Procs \cup {None}, generation: Nat, expiry: Time, receipt: BOOLEAN,
     terminal: Terminals \cup {None}, revision: Revisions \cup {None}, updated: Time]

EventKinds ==
    {"prepared", "submission_lease_granted", "submitted", "indeterminate",
     "recovered_submission", "terminal"}

PermitType ==
    [proc: Procs, key: Keys, generation: Nat,
     phase: {"held", "acknowledged", "ambiguous"}]

(* Every variable ranges over what the schema's columns and the in-memory  *)
(* types allow.                                                            *)
TypeOK ==
    /\ wall \in Time
    /\ stamp \in [Procs -> Time \cup {NoStamp}]
    /\ expect \in [Procs -> [Accounts -> Policies \cup {None}]]
    /\ permits \subseteq PermitType
    /\ clock \in Time
    /\ installed \in [Accounts -> SUBSET Policies]
    /\ active \in [Accounts -> Policies \cup {None}]
    /\ activations \in
          [Accounts -> Seq([policy: Policies, expected: Policies \cup {None}])]
    /\ orders \in [Keys -> OrderRow]
    /\ reserved \in [Keys -> [Rules -> Nat]]
    /\ usage \in [Scopes -> [Rules -> Nat]]
    /\ audit \in [Keys -> Seq([kind: EventKinds, at: Time])]
    /\ sent \in [Keys -> Nat]

(* However processes interleave, crash, lose their permits or outlive      *)
(* their leases, begin_submission never gives an order a second chance to  *)
(* reach the network.                                                      *)
AtMostOneDispatch == \A k \in Keys : sent[k] <= 1

(* An order on the network holds in the database the reservation its       *)
(* pinned policy asks for: prepare reserved it before any permit existed.  *)
DispatchIsReserved ==
    \A k \in Keys :
       sent[k] > 0 =>
          /\ orders[k].state \notin {"Absent", "Prepared"}
          /\ \A rule \in Rules :
                reserved[k][rule] = Amount(orders[k].policy, orders[k].request, rule)

(* Daily usage never passes a limit that was in force at some activation   *)
(* of the account, however policies are replaced while prepare runs.       *)
UsageWithinLimits ==
    \A a \in Accounts, d \in Days, rule \in Rules :
       usage[<<a, d>>][rule] > 0 =>
          \E i \in DOMAIN activations[a] :
             usage[<<a, d>>][rule] <= activations[a][i].policy.limit[rule]

(* The orders that drew on the daily usage of a scope.                     *)
ChargedTo(s) == {k \in Keys : orders[k].state # "Absent" /\ ScopeOf(orders[k].request) = s}

(* Daily usage is exactly what the order rows of the scope reserved: no    *)
(* reservation is lost, counted twice or released, whatever becomes of the *)
(* orders (hard_risk_daily_usage against hard_risk_reservations).          *)
UsageIsReserved ==
    \A s \in Scopes, rule \in Rules :
       usage[s][rule] =
          SumFunctionOnSet([k \in Keys |-> reserved[k][rule]], ChargedTo(s))

(* The audit chains that end in each row state.                            *)
AuditChains(row) ==
    LET leased == "submission_lease_granted"
        recovered == "recovered_submission"
    IN  CASE row.state = "Absent"        -> {<<>>}
          [] row.state = "Prepared"      -> {<<"prepared">>}
          [] row.state = "Submitting"    -> {<<"prepared", leased>>}
          [] row.state = "Submitted"     -> {<<"prepared", leased, "submitted">>}
          [] row.state = "Indeterminate" -> {<<"prepared", leased, "indeterminate">>}
          [] row.state = "Terminal"      ->
                IF row.receipt THEN {<<"prepared", leased, "submitted", "terminal">>}
                ELSE {<<"prepared", leased, recovered, "terminal">>,
                      <<"prepared", leased, "indeterminate", recovered, "terminal">>}

(* The append-only audit chain of an order retells its row: no transition  *)
(* is missing, doubled or out of order, and a terminal row without a local *)
(* receipt carries the recovery event and the snapshot's revision.  The    *)
(* times never decrease along the chain, end at the row's update time and  *)
(* stay below the persisted high water, although every process reads its   *)
(* clock before it takes the write lock and the host clock may be set back.*)
AuditRetellsRow ==
    \A k \in Keys :
       /\ [i \in DOMAIN audit[k] |-> audit[k][i].kind] \in AuditChains(orders[k])
       /\ orders[k].state = "Terminal" /\ ~orders[k].receipt =>
             orders[k].revision # None
       /\ \A i, j \in DOMAIN audit[k] : i <= j => audit[k][i].at <= audit[k][j].at
       /\ audit[k] # <<>> => audit[k][Len(audit[k])].at = orders[k].updated
       /\ orders[k].updated <= clock

(* A durable receipt stands for one dispatch and was recorded before the   *)
(* lease ran out; a late receipt never revives an expired lease.           *)
ReceiptWithinLease ==
    \A k \in Keys :
       orders[k].receipt =>
          /\ sent[k] = 1
          /\ audit[k][3].kind = "submitted"
          /\ audit[k][3].at < orders[k].expiry

(* Activations of an account form one chain: each installer had read the   *)
(* policy it replaced, so no administrator's change is lost.               *)
PolicyChain ==
    \A a \in Accounts :
       /\ \A i \in DOMAIN activations[a] :
             activations[a][i].expected =
                IF i = 1 THEN None ELSE activations[a][i - 1].policy
       /\ active[a] = IF activations[a] = <<>> THEN None
                      ELSE activations[a][Len(activations[a])].policy

(* The request and the policy an order was admitted under never change,    *)
(* terminal evidence is final, and an ambiguous send is only ever settled  *)
(* by a snapshot revision.                                                 *)
EvidenceIsFinal ==
    [][\A k \in Keys :
         LET row == orders[k]
             new == orders'[k]
         IN  /\ row.state # "Absent" =>
                   new.request = row.request /\ new.policy = row.policy
             /\ row.state = "Terminal" => new = row
             /\ row.state = "Indeterminate" /\ new # row =>
                   new.state = "Terminal" /\ new.revision \in Revisions]_vars

Contract == INSTANCE RiskContract WITH
    status <- [k \in Keys |-> orders[k].state], sends <- sent, used <- usage

(* The authority implements its contract: seen through row states,         *)
(* dispatches and usage, every transaction, crash and clock step is a      *)
(* contract step or changes nothing.                                       *)
ImplementsContract == Contract!ContractSpec

-----------------------------------------------------------------------------
(* Fairness: time passes, and some process of the application keeps        *)
(* running recovery: its calls begin and end (a call in progress can       *)
(* always roll back, so weak fairness of Abandon only says that it does    *)
(* not hang; SQLite's busy timeout bounds it), and given ever new chances  *)
(* one of its recovery transactions commits.                               *)

RecoverSome(p) == \E s \in Scopes : ExpiredIn(s, stamp[p]) # {} /\ RecoverExpired(p, s)

Fairness ==
    /\ WF_vars(Tick)
    /\ \E p \in Procs : /\ WF_vars(ReadClock(p))
                        /\ WF_vars(Abandon(p, {}))
                        /\ SF_vars(RecoverSome(p))

FairSpec == Spec /\ Fairness

(* No order stays Submitting for ever: a permit that is crashed away,      *)
(* dropped or refused is resolved by lease expiry and recovery.            *)
SubmissionResolved ==
    \A k \in Keys : orders[k].state = "Submitting" ~> orders[k].state # "Submitting"
=============================================================================
