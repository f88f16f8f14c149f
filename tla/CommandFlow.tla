---------------------------- MODULE CommandFlow ----------------------------
(***************************************************************************)
(* The life of a command, from RuntimeHandle::submit to its last status:   *)
(* the command ledger and the rows of runtime.commands in the state tree   *)
(* (tqsdk-core, runtime/handle.rs and runtime/command_ledger.rs), the      *)
(* outbound queue, its flush to the connected routes, request routes,      *)
(* order updates and recovery after a lost connection (session_runtime.rs  *)
(* and its modules, transport/connected.rs; tqsdk-session, client/io.rs).  *)
(*                                                                         *)
(* Any thread may submit a command or record a status; one driver at a     *)
(* time holds the session's io lock and flushes, executes and receives.  A *)
(* driver's call that awaits can be cut short by a deadline.               *)
(***************************************************************************)
EXTENDS Integers, Sequences, FiniteSets, SequencesExt

CONSTANTS
    Orders,            \* order ids trade commands refer to
    Kinds,             \* kinds of command submitted
    OutsideStatuses,   \* statuses recorded directly through the handle
    MaxRetained,       \* max_retained_terminal_commands
    MaxCommands,       \* bound: commands ever submitted
    MaxLosses,         \* bound: lost connections
    MaxUpdates         \* bound: updates of one order

\* insert_order, cancel_order, a market subscription, and a command that a
\* request route (HTTP, replay, internal) executes.
AllKinds == {"insert", "cancel", "subscribe", "request"}

Terminal == {"completed", "rejected", "failed", "cancelled"}
Statuses == {"queued", "sent", "acked", "partially_applied"} \cup Terminal

ASSUME FlowAssumption ==
    /\ Kinds \subseteq AllKinds
    /\ OutsideStatuses \subseteq Statuses
    /\ MaxRetained \in Nat \ {0}
    /\ {MaxCommands, MaxLosses, MaxUpdates} \subseteq Nat

VARIABLES
    command,      \* kind and order of each command, by id
    ledger,       \* CommandLedger: status of each command not yet terminal
    retained,     \* retained_terminal_commands, oldest first
    evicted,      \* evicted_terminal_commands, oldest first
    tree,         \* runtime.commands: the status of each command with a row
    outbound,     \* the outbound queue: a command id per request
    driver,       \* what the holder of the io lock is doing
    requests,     \* pending_requests of the run's request route
    connected,    \* the run's websocket connections are usable
    losses,       \* connections lost so far
    orders,       \* the orders in the state tree
    \* history
    wire,         \* a command id per request handed to a route, in order
    outcome,      \* first terminal status committed for each command
    outside       \* the commands whose outcome came from outside the session runtime

ledgerVars == <<ledger, retained, evicted, tree, outcome>>
runVars == <<requests, connected, losses>>
vars == <<command, ledgerVars, outbound, driver, runVars, orders, wire, outside>>

Ids == 1 .. Len(command)
NoOutcome == "none"
NoStatus == "none"

\* What the adapters encode a command into: request_with_peek makes two requests
\* of a subscription, every other command is one.
RequestsOf(kind) == IF kind = "subscribe" THEN 2 ELSE 1

\* idle; flushing the drained queue; awaiting the executor of a request route;
\* recording status for the commands in queue.
IdleDriver == [at |-> "idle", queue |-> << >>, sent |-> {}, status |-> NoStatus]

Order == [status : {"none", "ALIVE", "FINISHED"}, onExchange : BOOLEAN, updates : Nat]

Init ==
    /\ command = << >>
    /\ ledger = << >>
    /\ retained = << >>
    /\ evicted = << >>
    /\ tree = << >>
    /\ outbound = << >>
    /\ driver = IdleDriver
    /\ requests = << >>
    /\ connected = TRUE
    /\ losses = 0
    /\ orders = [o \in Orders |-> [status |-> "none", onExchange |-> FALSE, updates |-> 0]]
    /\ wire = << >>
    /\ outcome = << >>
    /\ outside = {}

-----------------------------------------------------------------------------
(* The ledger *)

\* f without c.
Without(f, c) == [d \in DOMAIN f \ {c} |-> f[d]]

\* f with c mapped to v.
With(f, c, v) == [d \in DOMAIN f \cup {c} |-> IF d = c THEN v ELSE f[d]]

\* A bug: a failure is accepted after any other status.
CanFollowOrFail(current, next) ==
    next = "failed" \/ (next \in Terminal /\ current \notin Terminal)
        \/ (current = "queued" /\ next = "sent")
        \/ (current \notin Terminal /\ next \in {"acked", "partially_applied"})

\* validate_command_status_transition
CanFollow(current, next) ==
    CASE current = "queued" -> next \in {"sent", "rejected", "failed", "cancelled"}
      [] current = "sent" -> next \in {"acked", "partially_applied"} \cup Terminal
      [] current = "acked" -> next \in {"partially_applied"} \cup Terminal
      [] current = "partially_applied" -> next \in Terminal
      [] OTHER -> next = current

\* The command is known to the ledger, or to the tree when it was released.
Known(c) == c \in DOMAIN ledger \cup DOMAIN tree

CurrentStatus(c) == IF c \in DOMAIN ledger THEN ledger[c] ELSE tree[c]

\* record_command_status ends without a commit and without an error: the
\* command's terminal status has been evicted, or is recorded a second time.
Ignored(c, s) ==
    IF c \in DOMAIN ledger \/ c \notin Range(evicted)
    THEN Known(c) /\ CurrentStatus(c) = s /\ s \in Terminal
    ELSE TRUE

\* record_command_status returns an error.
Refused(c, s) ==
    /\ c \in DOMAIN ledger \/ c \notin Range(evicted)
    /\ Known(c) => ~CanFollow(CurrentStatus(c), s)

\* A bug: the row is removed one command too late.
EvictableLate(c) ==
    IF c \notin Range(retained) \cup Range(evicted) /\ Len(retained) > MaxRetained
    THEN {Head(retained)}
    ELSE {}

\* pending_terminal_eviction: the row the commit of a terminal status removes.
Evictable(c) ==
    IF c \notin Range(retained) \cup Range(evicted) /\ Len(retained) >= MaxRetained
    THEN {Head(retained)}
    ELSE {}

\* record_evicted_terminal
EvictedWith(c) ==
    LET all == Append(evicted, c)
    IN  IF Len(all) > MaxRetained THEN Tail(all) ELSE all

\* A committed status: the row in the tree, and commit_terminal or
\* update_status in the ledger.
Commit(c, s) ==
    LET out == IF s \in Terminal THEN Evictable(c) ELSE {}
    IN  /\ tree' = [d \in (DOMAIN tree \cup {c}) \ out |->
                       IF d = c THEN s ELSE tree[d]]
        /\ IF s \in Terminal
           THEN /\ ledger' = Without(ledger, c)
                /\ retained' = Append(IF out = {} THEN retained ELSE Tail(retained), c)
                /\ evicted' = IF out = {} THEN evicted ELSE EvictedWith(Head(retained))
                /\ outcome' = [outcome EXCEPT ![c] = s]
           ELSE /\ ledger' = IF c \in DOMAIN ledger THEN With(ledger, c, s) ELSE ledger
                /\ UNCHANGED <<retained, evicted, outcome>>

\* record_command_status when it does not fail.
Record(c, s) ==
    /\ ~Refused(c, s)
    /\ IF Ignored(c, s) THEN UNCHANGED ledgerVars ELSE Commit(c, s)

\* record_command_status is public: any holder of the handle may record any
\* status at any time.  (The simulated trading of a backtest and the test broker
\* end their commands this way, in a session without a connected transport.)
RecordOutside(c, s) ==
    /\ Record(c, s)
    /\ outside' = IF s \in Terminal /\ ~Ignored(c, s) THEN outside \cup {c} ELSE outside
    /\ UNCHANGED <<command, outbound, driver, runVars, orders, wire>>

-----------------------------------------------------------------------------
(* Submission *)

\* CommandLedger::allocate and the encoded requests, under the runtime's lock.
Enqueue(kind, order) ==
    /\ Len(command) < MaxCommands
    /\ command' = Append(command, [kind |-> kind, order |-> order])
    /\ ledger' = With(ledger, Len(command) + 1, "queued")
    /\ outcome' = Append(outcome, NoOutcome)
    /\ outbound' = outbound \o [i \in 1 .. RequestsOf(kind) |-> Len(command) + 1]
    /\ UNCHANGED <<retained, evicted, tree>>

\* RuntimeHandle::submit, at any time and from any thread.  A cancel_order
\* names an order whose insert_order has been submitted.
Submit(kind, order) ==
    /\ kind = "cancel" => \E c \in Ids : command[c].kind = "insert" /\ command[c].order = order
    /\ Enqueue(kind, order)
    /\ UNCHANGED <<driver, runVars, orders, wire, outside>>

-----------------------------------------------------------------------------
(* Flushing the outbound queue *)

\* drain_dispatches: the whole queue is taken; a request of a command that has
\* left the ledger fails the call, and with it everything that was drained.
Drain ==
    /\ driver.at = "idle"
    /\ outbound # << >>
    /\ outbound' = << >>
    /\ driver' = IF Range(outbound) \subseteq DOMAIN ledger
                 THEN [IdleDriver EXCEPT !.at = "flushing", !.queue = outbound]
                 ELSE IdleDriver
    /\ UNCHANGED <<command, ledgerVars, runVars, orders, wire, outside>>

\* The driver after the first command of its queue is done with.
AfterHead(sent) ==
    IF Len(driver.queue) = 1
    THEN IdleDriver
    ELSE [driver EXCEPT !.queue = Tail(driver.queue), !.sent = sent]

\* dispatch_ref: a frame on a websocket, or an entry in the request route's
\* queue, which needs no connection.
HandOver(c) ==
    /\ connected \/ command[c].kind = "request"
    /\ wire' = Append(wire, c)
    /\ requests' = IF command[c].kind = "request" THEN Append(requests, c) ELSE requests
    /\ UNCHANGED <<connected, losses>>

\* flush_outbound, one request sent: its command is recorded as sent, once per
\* flush.  If the ledger refuses, the flush ends with that error.
DispatchOk ==
    LET c == Head(driver.queue)
    IN  /\ driver.at = "flushing"
        /\ HandOver(c)
        /\ \/ /\ c \in driver.sent
              /\ driver' = AfterHead(driver.sent)
              /\ UNCHANGED ledgerVars
           \/ /\ c \notin driver.sent
              /\ Record(c, "sent")
              /\ driver' = AfterHead(driver.sent \cup {c})
           \/ /\ c \notin driver.sent
              /\ Refused(c, "sent")
              /\ driver' = IdleDriver
              /\ UNCHANGED ledgerVars
        /\ UNCHANGED <<command, outbound, orders, outside>>

\* A bug: a failed flush puts back everything it had drained, the requests it
\* had already sent with it.
DispatchFailRequeueAll ==
    /\ driver.at = "flushing"
    /\ outbound' = SetToSortSeq(driver.sent, <) \o driver.queue \o outbound
    /\ driver' = IdleDriver
    /\ UNCHANGED <<command, ledgerVars, runVars, orders, wire, outside>>

\* A bug: the requests after the failed one are queued again, behind what was
\* submitted in the meantime.
DispatchFailRequeueBehind ==
    LET c == Head(driver.queue)
    IN  /\ driver.at = "flushing"
        /\ IF Refused(c, "failed") THEN UNCHANGED ledgerVars ELSE Record(c, "failed")
        /\ outbound' = outbound \o SelectSeq(driver.queue, LAMBDA d : d # c)
        /\ driver' = IdleDriver
        /\ UNCHANGED <<command, runVars, orders, wire, outside>>

\* flush_outbound, one request not sent, for want of a route or because the
\* connection is lost: its command is recorded as failed, and the call returns
\* an error.  What was drained after it is dropped.
DispatchFail ==
    LET c == Head(driver.queue)
    IN  /\ driver.at = "flushing"
        /\ IF Refused(c, "failed") THEN UNCHANGED ledgerVars ELSE Record(c, "failed")
        /\ driver' = IdleDriver
        /\ UNCHANGED <<command, outbound, runVars, orders, wire, outside>>

\* drive_with_deadline, or the caller's own timeout: the flush is dropped while
\* it awaits a send, whether or not the frame has left.
DispatchCancelled ==
    /\ driver.at = "flushing"
    /\ command[Head(driver.queue)].kind # "request"
    /\ wire' \in {wire, Append(wire, Head(driver.queue))}
    /\ driver' = IdleDriver
    /\ UNCHANGED <<command, ledgerVars, outbound, runVars, orders, outside>>

-----------------------------------------------------------------------------
(* Request routes: drive_pending_route_once *)

\* take_route_requests, and the executor is awaited.  request_command_ids keeps
\* each command once: a command a request route executes is one request
\* (RequestsOf), so the batch names each of its commands once already.
TakeRequests ==
    /\ driver.at = "idle"
    /\ requests # << >>
    /\ driver' = [IdleDriver EXCEPT !.at = "executing", !.queue = requests]
    /\ requests' = << >>
    /\ UNCHANGED <<command, ledgerVars, outbound, connected, losses, orders, wire, outside>>

\* The executor or the decoding of its answer fails ("failed"), or the answer
\* is committed ("completed"): every command of the batch gets that status.
Executed(s) ==
    /\ driver.at = "executing"
    /\ driver' = [driver EXCEPT !.at = "recording", !.status = s]
    /\ UNCHANGED <<command, ledgerVars, outbound, runVars, orders, wire, outside>>

\* ingest_batch returns None, the answer changes nothing in the state; or the
\* call is dropped while the executor is awaited.  No status is recorded.
ExecutedInVain ==
    /\ driver.at = "executing"
    /\ driver' = IdleDriver
    /\ UNCHANGED <<command, ledgerVars, outbound, runVars, orders, wire, outside>>

\* record_command_statuses and record_command_failure, one command; a refusal
\* ends the loop.
RecordNext ==
    LET c == Head(driver.queue)
    IN  /\ driver.at = "recording"
        /\ \/ /\ Record(c, driver.status)
              /\ driver' = AfterHead({})
           \/ /\ Refused(c, driver.status)
              /\ driver' = IdleDriver
              /\ UNCHANGED ledgerVars
        /\ UNCHANGED <<command, outbound, runVars, orders, wire, outside>>

-----------------------------------------------------------------------------
(* Updates from the websocket routes *)

\* wait_command_completed drives the route of command c: its row names a route.
\* The wait looked whether c was over before it awaited the io lock; by now
\* another waiter's update may have ended it, or acked an insert_order.
Awaited(c) ==
    /\ c \in DOMAIN tree
    /\ command[c].kind # "request"

\* A bug: a finished order completes its insert_order, whether or not the
\* exchange ever accepted it.
DerivedAlwaysCompleted(c, o, order) ==
    IF command[c].kind \notin {"insert", "cancel"} \/ command[c].order # o THEN NoStatus
    ELSE IF order.status = "ALIVE" THEN "acked"
    ELSE "completed"

\* derive_transport_command_status, trade_order_status: the status that an
\* update of order o to the given state has for command c.
Derived(c, o, order) ==
    IF command[c].kind \notin {"insert", "cancel"} \/ command[c].order # o THEN NoStatus
    ELSE IF order.status = "ALIVE" THEN "acked"
    ELSE IF command[c].kind = "insert" /\ ~order.onExchange THEN "rejected"
    ELSE "completed"

\* record_transport_commit_statuses for one command and the status derived.
RecordDerived(c, derived) ==
    LET s == IF derived # NoStatus THEN derived ELSE "partially_applied"
        skipped == \/ tree[c] \in Terminal
                   \/ /\ derived = NoStatus
                      /\ \/ tree[c] \in {"acked", "partially_applied"}
                         \/ command[c].kind = "insert"
    IN  \/ skipped /\ UNCHANGED ledgerVars
        \/ ~skipped /\ Record(c, s)
        \/ ~skipped /\ Refused(c, s) /\ UNCHANGED ledgerVars

\* pump_route_once: an update of order o is committed; a caller may be waiting
\* for a command (0: for none).  The trading server reports an order once its
\* insert_order has reached it, and not after it has finished.
OrderUpdate(o, status, onExchange, c) ==
    LET order == [status |-> status, onExchange |-> onExchange,
                  updates |-> orders[o].updates + 1]
    IN  /\ driver.at = "idle"
        /\ connected
        /\ \E i \in DOMAIN wire : command[wire[i]].kind = "insert" /\ command[wire[i]].order = o
        /\ orders[o].status # "FINISHED"
        /\ orders[o].updates < MaxUpdates
        /\ orders[o].onExchange => onExchange
        /\ orders' = [orders EXCEPT ![o] = order]
        /\ IF c = 0
           THEN UNCHANGED ledgerVars
           ELSE Awaited(c) /\ RecordDerived(c, Derived(c, o, order))
        /\ UNCHANGED <<command, outbound, driver, runVars, wire, outside>>

\* pump_route_once: some other update while a caller waits for c.
OtherUpdate(c) ==
    /\ driver.at = "idle"
    /\ connected
    /\ Awaited(c)
    /\ RecordDerived(c, NoStatus)
    /\ UNCHANGED <<command, outbound, driver, runVars, orders, wire, outside>>

-----------------------------------------------------------------------------
(* Connections *)

Lose ==
    /\ connected
    /\ losses < MaxLosses
    /\ connected' = FALSE
    /\ losses' = losses + 1
    /\ UNCHANGED <<command, ledgerVars, outbound, driver, requests, orders, wire, outside>>

\* recover and recover_with_policy: a new run with empty routes replaces the
\* old one, and the market adapter's subscriptions are submitted again.
Recover ==
    /\ driver.at = "idle"
    /\ ~connected
    /\ connected' = TRUE
    /\ requests' = << >>
    /\ IF \E c \in Ids : command[c].kind = "subscribe"
       THEN Enqueue("subscribe", CHOOSE o \in Orders : TRUE)
       ELSE UNCHANGED <<command, ledgerVars, outbound>>
    /\ UNCHANGED <<driver, losses, orders, wire, outside>>

-----------------------------------------------------------------------------
Drive ==
    \/ Drain
    \/ DispatchOk
    \/ DispatchFail
    \/ DispatchCancelled
    \/ TakeRequests
    \/ \E s \in {"completed", "failed"} : Executed(s)
    \/ ExecutedInVain
    \/ RecordNext
    \/ \E o \in Orders, s \in {"ALIVE", "FINISHED"}, x \in BOOLEAN, c \in Ids \cup {0} :
          OrderUpdate(o, s, x, c)
    \/ \E c \in Ids : OtherUpdate(c)
    \/ Recover

Next ==
    \/ \E k \in Kinds, o \in Orders : Submit(k, o)
    \/ \E c \in Ids, s \in OutsideStatuses : RecordOutside(c, s)
    \/ Drive
    \/ Lose

Spec == Init /\ [][Next]_vars

-----------------------------------------------------------------------------
(* Properties *)

\* The ledger and the state tree tell the same story after every commit: a live
\* command is in the ledger with the status its row shows, the terminal rows in
\* the tree are exactly the retained commands and show the outcome, an evicted
\* command has no row, and both lists stay within the retention limit.
LedgerMatchesTree ==
    /\ DOMAIN ledger = {c \in Ids : outcome[c] = NoOutcome}
    /\ \A c \in DOMAIN ledger :
          IF c \in DOMAIN tree THEN tree[c] = ledger[c] ELSE ledger[c] = "queued"
    /\ Range(retained) = {c \in DOMAIN tree : tree[c] \in Terminal}
    /\ \A c \in Range(retained) : tree[c] = outcome[c]
    /\ Range(evicted) \cap DOMAIN tree = {}
    /\ Len(retained) <= MaxRetained /\ Cardinality(Range(retained)) = Len(retained)
    /\ Len(evicted) <= MaxRetained /\ Cardinality(Range(evicted)) = Len(evicted)

\* Once a terminal status of a command is committed no other one ever is, also
\* when a request is answered, fails or is cancelled again later; the row may
\* only disappear.
TerminalIsFinal ==
    [][\A c \in Ids : outcome[c] # NoOutcome =>
          /\ outcome'[c] = outcome[c]
          /\ c \in DOMAIN tree' => c \in DOMAIN tree /\ tree'[c] = tree[c]]_vars

\* Across failed and cancelled flushes and reconnections no request is handed
\* to a route twice: an insert_order is never sent again by the runtime.
AtMostOnceOnWire ==
    \A c \in Ids : Cardinality({i \in DOMAIN wire : wire[i] = c}) <= RequestsOf(command[c].kind)

\* Requests reach the routes in the order in which commands were submitted,
\* whatever was submitted while a flush was under way, failed or was dropped:
\* a cancel_order never overtakes an earlier insert_order.
WireFollowsSubmission ==
    \A i, j \in DOMAIN wire : i < j => wire[i] <= wire[j]

\* An outcome that the session runtime itself records for a trade command agrees
\* with the order in the state tree, whatever other holders of the handle record
\* in between: the command is completed only by a finished order, which for
\* insert_order the exchange had accepted, and rejected only by one the exchange
\* never did.
OutcomeMatchesOrder ==
    \A c \in Ids \ outside :
        LET order == orders[command[c].order]
        IN  /\ command[c].kind \in {"insert", "cancel"} /\ outcome[c] = "completed" =>
                   /\ order.status = "FINISHED"
                   /\ command[c].kind = "insert" => order.onExchange
            /\ outcome[c] = "rejected" => order.status = "FINISHED" /\ ~order.onExchange

=============================================================================
