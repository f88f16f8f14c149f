----------------------------- MODULE TargetPos -----------------------------
(***************************************************************************)
(* The target position task of tqsdk-task: a host loop that, after every   *)
(* wait_update, compares the position with the requested target, plans a   *)
(* batch of orders, reconciles it with the orders already alive, and sends *)
(* what is missing.  Targets and cancellation are set from any thread; the *)
(* exchange fills and ends orders at any time and the task learns of it    *)
(* through commits, which it takes one by one although the state it reads  *)
(* is always the newest.                                                   *)
(***************************************************************************)
EXTENDS Integers, Sequences, FiniteSets, SequencesExt

CONSTANTS
    None,            \* no target, price or volume
    Orders,          \* the order ids the task can use, 1 .. n
    Prices,          \* the limit prices the quote can give; None: no price yet
    Setups,          \* how a task is configured, and for what account
    MaxRequests,     \* bound: targets set
    MaxTicks,        \* bound: price changes
    MaxEnds,         \* bound: orders the exchange ends by itself
    MaxFailures,     \* bound: commands that fail
    MaxBacklog,      \* bound: commits waiting for the host
    AllowDrop        \* callers may drop the task

ASSUME BoundsAssumption ==
    /\ IsFiniteSet(Orders) /\ Orders = 1 .. Cardinality(Orders)
    /\ {MaxRequests, MaxTicks, MaxEnds, MaxFailures, MaxBacklog} \subseteq Nat

OffsetPriorities ==
    {"TodayYesterdayThenOpenWait", "TodayYesterdayThenOpen", "YesterdayThenOpen", "OpenOnly"}

(* The split policy is validated when a task is built; the buckets of a    *)
(* position hold volumes.                                                  *)
ASSUME SetupsAssumption ==
    \A s \in Setups :
        /\ s.targets \subseteq Int
        /\ s.splitMin \in Nat /\ s.splitMax \in Nat /\ s.splitMin <= s.splitMax
        /\ s.shfe \in BOOLEAN /\ s.priority \in OffsetPriorities
        /\ s.position \in [{"longToday", "longHis", "shortToday", "shortHis"} -> Nat]

(* A setup is a record: position, what the account holds at first; shfe,   *)
(* whether the exchange tells today's positions from older ones; priority, *)
(* the OffsetPriority; splitMin and splitMax, the split policy (0: none);  *)
(* targets, the volumes callers ask for.                                   *)
VARIABLES
    setup,
    \* the exchange
    orders, pos, trades, ends,
    \* the runtime state and the commits the host has not taken
    seenOrders, seenPos, seenTrades, quote, ticks, commits,
    \* the task and the host that runs it
    task, pc, todo, after, lastTrades, wanted, setting, failures,
    \* history: the targets set so far
    asked

exchange == <<setup, orders, pos, trades, ends>>
runtime  == <<seenOrders, seenPos, seenTrades, quote, ticks, commits>>
host     == <<pc, todo, after, lastTrades, wanted>>
vars     == <<exchange, runtime, task, host, setting, failures, asked>>

NoPosition == [longToday |-> 0, longHis |-> 0, shortToday |-> 0, shortHis |-> 0]
Buckets == DOMAIN NoPosition

NoOrder == [state |-> "none", direction |-> "buy", offset |-> "open", volume |-> 0,
            left |-> 0, price |-> 0, cancel |-> FALSE]
IdleTask == [target |-> None, applied |-> None, seq |-> 0, reached |-> 0,
             submittedSeq |-> 0, submittedNet |-> None, awaiting |-> FALSE,
             tracked |-> {}, known |-> {}, cancelIds |-> {}, seen |-> {},
             error |-> FALSE, cancelRequested |-> FALSE, finished |-> FALSE,
             failed |-> FALSE, dropped |-> FALSE]

-----------------------------------------------------------------------------
(* Positions and planning.                                                 *)

NetPosition(p) == (p.longToday + p.longHis) - (p.shortToday + p.shortHis)
Signed(direction, volume) == IF direction = "buy" THEN volume ELSE -volume

(* The position a closing order takes from.  Without the distinction of    *)
(* today's positions the exchange closes today's first.                    *)
Today(direction) == IF direction = "buy" THEN "shortToday" ELSE "longToday"
History(direction) == IF direction = "buy" THEN "shortHis" ELSE "longHis"

Alive(o) == orders[o].state \in {"sent", "live"}
Unfilled(os) == SumFunctionOnSet([o \in Orders |-> orders[o].left], os)

(* What the exchange freezes for the closing orders that are alive there.  *)
FrozenBy(direction, offsets) ==
    Unfilled({o \in Orders : /\ orders[o].state = "live"
                             /\ orders[o].direction = direction
                             /\ orders[o].offset \in offsets})

(* The position snapshot a commit carries: volumes and frozen volumes.     *)
Snapshot == [volume |-> pos,
             frozenToday |-> [d \in {"buy", "sell"} |-> FrozenBy(d, {"closeToday"})],
             frozenHis   |-> [d \in {"buy", "sell"} |-> FrozenBy(d, {"close"})]]

TotalFrozen(s, d) == s.frozenToday[d] + s.frozenHis[d]

PriorityGroups ==
    [TodayYesterdayThenOpenWait |-> <<<<"today", "yesterday">>, <<"open">>>>,
     TodayYesterdayThenOpen     |-> <<<<"today", "yesterday", "open">>>>,
     YesterdayThenOpen          |-> <<<<"yesterday", "open">>>>,
     OpenOnly                   |-> <<<<"open">>>>][setup.priority]

(* Mutant: what earlier orders of the batch and of the exchange freeze is  *)
(* not subtracted.                                                         *)
AvailableUnfrozen(action, direction, requested, pending, s) ==
    CASE action = "open" -> requested
      [] action = "today" -> s.volume[Today(direction)]
      [] action = "yesterday" -> s.volume[Today(direction)] + s.volume[History(direction)]

(* planned_order_for_action: the volume an action can still take, given    *)
(* what earlier orders of the batch will freeze.                           *)
Available(action, direction, requested, pending, s) ==
    LET today == s.volume[Today(direction)]
        his   == s.volume[History(direction)]
        frozen == pending + TotalFrozen(s, direction)
    IN  CASE action = "open" -> requested
          [] action = "today" /\ setup.shfe -> today - s.frozenToday[direction]
          [] action = "today" /\ ~setup.shfe -> today - frozen
          [] action = "yesterday" /\ setup.shfe -> his - s.frozenHis[direction]
          [] action = "yesterday" /\ ~setup.shfe ->
                IF today - frozen > 0 THEN 0 ELSE today + his - frozen

OffsetOf(action) == CASE action = "open" -> "open"
                      [] action = "today" /\ setup.shfe -> "closeToday"
                      [] OTHER -> "close"

Least(a, b) == IF a < b THEN a ELSE b
Greatest(a, b) == IF a > b THEN a ELSE b

PlanAction(acc, action, s) ==
    LET direction == IF acc.remaining > 0 THEN "buy" ELSE "sell"
        requested == Greatest(acc.remaining, -acc.remaining)
        volume == Least(requested,
                        Greatest(Available(action, direction, requested, acc.pending, s), 0))
        offset == OffsetOf(action)
    IN  IF volume = 0 THEN acc
        ELSE [remaining |-> acc.remaining - Signed(direction, volume),
              pending |-> acc.pending + (IF offset = "open" THEN 0 ELSE volume),
              batch |-> Append(acc.batch, [direction |-> direction, offset |-> offset,
                                           volume |-> volume])]

(* The actions of a group take, one after the other, what is left.         *)
PlanGroup(group, remaining, s) ==
    LET planned[i \in 0 .. Len(group)] ==
            IF i = 0 THEN [remaining |-> remaining, pending |-> 0, batch |-> <<>>]
            ELSE PlanAction(planned[i - 1], group[i], s)
    IN  planned[Len(group)].batch

(* compute_plan, of which the task only uses the first batch that is not   *)
(* empty.                                                                  *)
ComputePlan(s, target) ==
    LET batch(i) == PlanGroup(PriorityGroups[i], target - NetPosition(s.volume), s)
        filled   == {i \in DOMAIN PriorityGroups : batch(i) # <<>>}
    IN  IF filled = {} THEN <<>> ELSE batch(Min(filled))

SplitOrderVolume(volume) ==
    LET tail == volume - setup.splitMax
    IN  IF setup.splitMax = 0 \/ tail < 0 THEN volume
        ELSE IF tail > 0 /\ tail < setup.splitMin THEN volume - setup.splitMin
        ELSE setup.splitMax

(* desired_batch_for_target: split and priced at the current quote; none   *)
(* without a price.                                                        *)
DesiredBatch(s, target) ==
    LET plan == IF quote = None THEN <<>> ELSE ComputePlan(s, target)
    IN  [i \in DOMAIN plan |-> [direction |-> plan[i].direction, offset |-> plan[i].offset,
                                volume |-> SplitOrderVolume(plan[i].volume),
                                price |-> quote]]

-----------------------------------------------------------------------------
(* Live orders against the desired batch.                                  *)

CanSatisfy(o, d) == /\ o.direction = d.direction /\ o.offset = d.offset
                    /\ o.price = d.price /\ o.left > 0 /\ o.left <= d.volume

(* consume_compatible_desired_order: an exact match if there is one, else  *)
(* the first that the order can be part of.                                *)
Consume(missing, o) ==
    LET fits  == {i \in DOMAIN missing : CanSatisfy(o, missing[i])}
        exact == {i \in fits : missing[i].volume = o.left}
        first == CHOOSE i \in IF exact # {} THEN exact ELSE fits :
                    \A j \in IF exact # {} THEN exact ELSE fits : i <= j
    IN  IF missing[first].volume = o.left THEN RemoveAt(missing, first)
        ELSE [missing EXCEPT ![first].volume = @ - o.left]

(* One live order: part of what is wanted, or stale.                       *)
ReconcileOrder(acc, id) ==
    IF \E i \in DOMAIN acc.missing : CanSatisfy(seenOrders[id], acc.missing[i])
    THEN [acc EXCEPT !.missing = Consume(acc.missing, seenOrders[id])]
    ELSE [acc EXCEPT !.stale = @ \cup {id}]

(* The task keeps its orders in the order it sent them, which is that of   *)
(* their numbers.                                                          *)
ReconcileLiveOrders(live, batch) ==
    LET reconciled[n \in 0 .. Cardinality(Orders)] ==
            IF n = 0 THEN [missing |-> batch, stale |-> {}]
            ELSE IF n \in live THEN ReconcileOrder(reconciled[n - 1], n)
            ELSE reconciled[n - 1]
    IN  reconciled[Cardinality(Orders)]

InOrder(ids) == SetToSortSeq(ids, <)

-----------------------------------------------------------------------------
(* Pieces of process_wait_update.                                          *)

(* Mutant: trades of orders that are already pruned are passed over.       *)
NewTradesOfTracked(t) == {x \in lastTrades : x.order \in t.tracked} \ t.seen

(* record_commit_trades: of the commit that was just taken, the trades of  *)
(* the task's orders, each once.                                           *)
NewTrades(t) == {x \in lastTrades : x.order \in t.known} \ t.seen
RecordTrades(t) == [t EXCEPT !.seen = @ \cup NewTrades(t)]

(* Mutant: only a filled order counts as finished.                         *)
TerminalIfFilled(id) == seenOrders[id].state = "done" /\ seenOrders[id].left = 0

Terminal(id) == seenOrders[id].state = "done"
Unmaterialized(id) == seenOrders[id] = NoOrder

(* Mutant: the task still waits for progress of orders that are gone.      *)
PruneStillAwaiting(t) ==
    [t EXCEPT !.tracked = {id \in @ : ~Terminal(id)},
              !.cancelIds = {id \in @ : ~Terminal(id)}]

(* prune_terminal_orders: forget finished orders, and stop waiting for     *)
(* progress when none is left.                                             *)
Prune(t) ==
    LET rest == {id \in t.tracked : ~Terminal(id)}
    IN  [t EXCEPT !.tracked = rest,
                  !.cancelIds = {id \in @ : ~Terminal(id)},
                  !.awaiting = @ /\ rest # {}]

Finish(t) == [t EXCEPT !.finished = TRUE]

(* Where the host goes next, with the commands it has to send first.       *)
Goto(next, commands, then) ==
    pc' = next /\ todo' = commands /\ after' = then /\ UNCHANGED <<lastTrades, wanted>>
Return == Goto("returned", <<>>, None)

(* cancel_pending_orders_filtered, called with the pruned task.            *)
CancelOrders(t, ids, then) ==
    LET uncancelled == (ids \cap t.tracked) \ t.cancelIds
    IN  IF uncancelled = {} THEN Goto(then, <<>>, None)
        ELSE Goto("cancelling", InOrder(uncancelled), then)

MarkReached(t) ==
    [t EXCEPT !.applied = wanted.target, !.awaiting = FALSE, !.reached = wanted.seq]

(* submit_desired_batch notes what the batch was planned on, then sends.   *)
SubmitBatch(t, net, batch) ==
    /\ task' = [t EXCEPT !.submittedSeq = wanted.seq, !.awaiting = TRUE,
                         !.submittedNet = net]
    /\ Goto("inserting", batch, None)

AwaitingSameSubmission(t, net) == t.awaiting /\ t.submittedNet = net

(* The end of process_wait_update: nothing to wait for, so either the      *)
(* target is reached or the batch is sent.                                 *)
ReachOrSubmit(t, net, batch) ==
    \/ /\ AwaitingSameSubmission(t, net) /\ t.submittedSeq >= wanted.seq
       /\ task' = t /\ Return
    \/ /\ ~(AwaitingSameSubmission(t, net) /\ t.submittedSeq >= wanted.seq)
       /\ \/ net = wanted.target /\ task' = MarkReached(t) /\ Return
          \/ net # wanted.target /\ batch = <<>> /\ task' = t /\ Return
          \/ net # wanted.target /\ batch # <<>> /\ SubmitBatch(t, net, batch)

(* Mutant: new orders are sent without waiting for stale ones to end.      *)
HandleLiveOrdersEager(t, net, batch) ==
    LET missing == ReconcileLiveOrders(t.tracked, batch).missing
    IN  \/ net = wanted.target /\ task' = t /\ CancelOrders(t, t.tracked, "returned")
        \/ net # wanted.target /\ ReachOrSubmit(t, net, missing)

(* Mutant: the target counts as reached although orders are alive.         *)
HandleLiveOrdersReached(t, net, batch) ==
    \/ net = wanted.target /\ task' = MarkReached(t) /\ Return
    \/ net # wanted.target /\ task' = t /\ Return

(* handle_live_orders for a pruned task that still tracks orders.          *)
HandleLiveOrders(t, net, batch) ==
    LET missing == ReconcileLiveOrders(t.tracked, batch).missing
        stale   == ReconcileLiveOrders(t.tracked, batch).stale
        blank   == {id \in t.tracked : Unmaterialized(id)}
    IN  \/ /\ net = wanted.target
           /\ task' = t /\ CancelOrders(t, t.tracked, "returned")
        \/ /\ net # wanted.target /\ blank # {}
           /\ task' = t
           /\ \/ AwaitingSameSubmission(t, net) /\ Return
              \/ ~AwaitingSameSubmission(t, net) /\ CancelOrders(t, blank, "returned")
        \/ /\ net # wanted.target /\ blank = {} /\ batch = <<>>
           /\ task' = t /\ Return
        \/ /\ net # wanted.target /\ blank = {} /\ batch # <<>> /\ (stale # {} \/ missing = <<>>)
           /\ task' = t /\ CancelOrders(t, stale, "returned")
        \/ /\ net # wanted.target /\ blank = {} /\ stale = {} /\ missing # <<>>
           /\ ReachOrSubmit(t, net, missing)

-----------------------------------------------------------------------------
Init ==
    /\ orders = [o \in Orders |-> NoOrder] /\ seenOrders = orders
    /\ setup \in Setups
    /\ pos = setup.position /\ seenPos = Snapshot
    /\ trades = {} /\ seenTrades = {} /\ ends = 0
    /\ quote \in Prices /\ ticks = 0 /\ commits = <<>>
    /\ task = IdleTask
    /\ pc = "idle" /\ todo = <<>> /\ after = None /\ lastTrades = {}
    /\ wanted = [seq |-> 0, target |-> None]
    /\ setting = "no" /\ failures = 0 /\ asked = {}

(* The callers.  set_target_volume first looks whether the task is over or *)
(* to be cancelled, then stores the target and clears the error under the  *)
(* lock, and then announces the target with the request number.  The task  *)
(* may end or be cancelled in between.                                     *)
CheckOpen ==
    /\ setting = "no" /\ ~task.finished /\ ~task.cancelRequested
    /\ task.seq < MaxRequests
    /\ setting' = "checked"
    /\ UNCHANGED <<exchange, runtime, task, host, failures, asked>>

SetTarget(v) ==
    /\ setting = "checked"
    /\ \/ /\ task.target = v /\ setting' = "no" /\ UNCHANGED <<task, asked>>
       \/ /\ task.target # v
          /\ task' = [task EXCEPT !.target = v, !.submittedNet = None, !.error = FALSE]
          /\ setting' = "stored" /\ asked' = asked \cup {v}
    /\ UNCHANGED <<exchange, runtime, host, failures>>

PublishTarget ==
    /\ setting = "stored" /\ setting' = "no"
    /\ task' = [task EXCEPT !.awaiting = FALSE, !.seq = @ + 1]
    /\ UNCHANGED <<exchange, runtime, host, failures, asked>>

CancelTask ==
    /\ ~task.finished /\ ~task.cancelRequested
    /\ task' = [task EXCEPT !.cancelRequested = TRUE]
    /\ UNCHANGED <<exchange, runtime, host, setting, failures, asked>>

(* Dropping the last handle: between two calls of the host only its store, *)
(* which holds weak references, still knows the task.                      *)
DropTask ==
    /\ AllowDrop /\ ~task.finished /\ setting = "no" /\ pc = "idle"
    /\ task' = [Finish(task) EXCEPT !.dropped = TRUE]
    /\ UNCHANGED <<exchange, runtime, host, setting, failures, asked>>

(* The exchange (external).                                                *)
Accept(o) ==
    /\ orders[o].state = "sent"
    /\ orders' = [orders EXCEPT ![o].state = "live"]
    /\ UNCHANGED <<setup, pos, trades, ends, runtime, task, host, setting, failures, asked>>

(* A fill of v lots: opening adds to today's position, closing takes from  *)
(* the side the order names, and the trade is remembered.                  *)
Taken(o, v) ==
    LET d == orders[o].direction
    IN  IF orders[o].offset = "open"
        THEN [pos EXCEPT ![IF d = "buy" THEN "longToday" ELSE "shortToday"] = @ + v]
        ELSE IF orders[o].offset = "closeToday"
        THEN [pos EXCEPT ![Today(d)] = @ - v]
        ELSE IF setup.shfe
        THEN [pos EXCEPT ![History(d)] = @ - v]
        ELSE [pos EXCEPT ![Today(d)] = @ - Least(v, @),
                         ![History(d)] = @ - (v - Least(v, pos[Today(d)]))]
Fill(o, v) ==
    /\ orders[o].state = "live" /\ v <= orders[o].left
    /\ LET left == orders[o].left - v
       IN  /\ orders' = [orders EXCEPT ![o].left = left,
                                       ![o].state = IF left = 0 THEN "done" ELSE "live"]
           /\ trades' = trades \cup {[order |-> o, left |-> left, volume |-> v]}
    /\ pos' = Taken(o, v)
    /\ UNCHANGED <<setup, ends, runtime, task, host, setting, failures, asked>>

(* An order ends unfilled because it was cancelled, or by itself.          *)
End(o) ==
    /\ Alive(o)
    /\ \/ orders[o].cancel /\ UNCHANGED ends
       \/ ~orders[o].cancel /\ ends < MaxEnds /\ ends' = ends + 1
    /\ orders' = [orders EXCEPT ![o].state = "done"]
    /\ UNCHANGED <<setup, pos, trades, runtime, task, host, setting, failures, asked>>

(* A commit brings orders, trades and positions up to date in the state.   *)
Reported == [o \in Orders |-> IF orders[o].state = "sent" THEN NoOrder
                              ELSE [orders[o] EXCEPT !.cancel = FALSE]]
Deliver ==
    /\ Len(commits) < MaxBacklog
    /\ seenOrders # Reported
    /\ seenOrders' = Reported /\ seenPos' = Snapshot /\ seenTrades' = trades
    /\ commits' = Append(commits, trades \ seenTrades)
    /\ UNCHANGED <<exchange, quote, ticks, task, host, setting, failures, asked>>

Tick(price) ==
    /\ ticks < MaxTicks /\ price # quote /\ Len(commits) < MaxBacklog
    /\ quote' = price /\ ticks' = ticks + 1 /\ commits' = Append(commits, {})
    /\ UNCHANGED <<exchange, seenOrders, seenPos, seenTrades, task, host,
                   setting, failures, asked>>

(* TaskHost::wait_update takes the next commit, or times out and keeps the *)
(* last one, and then runs the task.                                       *)
TakeCommit(next) ==
    /\ pc = "idle"
    /\ \/ /\ commits # <<>>
          /\ lastTrades' = Head(commits) /\ commits' = Tail(commits)
       \/ commits = <<>> /\ UNCHANGED <<lastTrades, commits>>
    /\ pc' = next /\ UNCHANGED <<todo, after, wanted>>
    /\ UNCHANGED <<exchange, seenOrders, seenPos, seenTrades, quote, ticks, task,
                   setting, failures, asked>>
WaitUpdate == ~task.finished /\ TakeCommit("process")

(* The first part of process_wait_update: trades into the record,  *)
(* then cancellation, then the request to work on is read.                 *)
Process ==
    LET known == RecordTrades(task)
        t     == Prune(known)
        idle  == t.seq = 0 \/ t.reached >= t.seq \/ t.target = None
    IN  /\ pc = "process"
        /\ \/ /\ task.cancelRequested
              /\ task' = t
              /\ CancelOrders(t, t.tracked, "cancelled")
           \/ /\ ~task.cancelRequested
              /\ task' = known
              /\ wanted' = IF idle THEN wanted ELSE [seq |-> t.seq, target |-> t.target]
              /\ pc' = IF idle THEN "returned" ELSE "plan"
              /\ UNCHANGED <<todo, after, lastTrades>>
        /\ UNCHANGED <<exchange, runtime, setting, failures, asked>>

(* The second part, after the quote subscription has been awaited: plan    *)
(* for the request that was read and act on it up to the first command.    *)
Plan ==
    LET t     == Prune(task)
        net   == NetPosition(seenPos.volume)
        batch == DesiredBatch(seenPos, wanted.target)
    IN  /\ pc = "plan"
        /\ \/ t.tracked = {} /\ ReachOrSubmit(t, net, batch)
           \/ t.tracked # {} /\ HandleLiveOrders(t, net, batch)
        /\ UNCHANGED <<exchange, runtime, setting, failures, asked>>

(* Mutant: the task ends as soon as the cancels are sent.                  *)
CancelledAtOnce ==
    /\ pc = "cancelled" /\ task' = Finish(task)
    /\ Return
    /\ UNCHANGED <<exchange, runtime, setting, failures, asked>>

(* The cancel commands were sent: finish once no order is left.            *)
Cancelled ==
    /\ pc = "cancelled"
    /\ LET t == Prune(task)
       IN  task' = IF t.tracked = {} THEN Finish(t) ELSE t
    /\ Return
    /\ UNCHANGED <<exchange, runtime, setting, failures, asked>>

CommandOk(o, order) ==
    /\ orders' = [orders EXCEPT ![o] = order]
    /\ UNCHANGED <<setup, pos, trades, ends, failures>>
CommandFails == failures < MaxFailures /\ failures' = failures + 1 /\ UNCHANGED exchange

(* A command failed: the error is recorded under the lock, and what comes  *)
(* of it is a step of its own.                                             *)
RecordError(then) == task' = [task EXCEPT !.error = TRUE] /\ Goto(then, <<>>, None)

(* One cancel command: the id is noted first and taken back on failure.    *)
SendCancel ==
    /\ pc = "cancelling"
    /\ LET id == Head(todo)
       IN  \/ /\ CommandOk(id, [orders[id] EXCEPT !.cancel = @ \/ Alive(id)])
              /\ task' = [task EXCEPT !.cancelIds = @ \cup {id}]
              /\ IF Len(todo) > 1 THEN Goto("cancelling", Tail(todo), after)
                                  ELSE Goto(after, <<>>, None)
           \/ /\ CommandFails
              /\ RecordError("failing")
    /\ UNCHANGED <<runtime, setting, asked>>

(* One insert command of the batch.  If a later one fails the task cancels *)
(* what it has already sent; if the first fails the task ends.             *)
SendInsert ==
    /\ pc = "inserting"
    /\ LET d == Head(todo)
           id == Cardinality({o \in Orders : orders[o].state # "none"}) + 1
       IN  \/ /\ id \in Orders
              /\ CommandOk(id, [NoOrder EXCEPT !.state = "sent", !.volume = d.volume,
                                  !.left = d.volume, !.direction = d.direction,
                                  !.offset = d.offset, !.price = d.price])
              /\ task' = [task EXCEPT !.tracked = @ \cup {id}, !.known = @ \cup {id}]
              /\ IF Len(todo) > 1 THEN Goto("inserting", Tail(todo), "sent")
                                  ELSE Return
           \/ /\ CommandFails
              /\ RecordError(IF after = "sent" THEN "stopping" ELSE "failing")
    /\ UNCHANGED <<runtime, setting, asked>>

(* finish_with_error, after the error is recorded.                         *)
FinishWithError ==
    /\ pc = "failing" /\ task' = [Finish(task) EXCEPT !.failed = TRUE] /\ Return
    /\ UNCHANGED <<exchange, runtime, setting, failures, asked>>

(* A later insert of the batch failed: the task asks for its own end.      *)
StopAfterError ==
    /\ pc = "stopping" /\ task' = [task EXCEPT !.cancelRequested = TRUE] /\ Return
    /\ UNCHANGED <<exchange, runtime, setting, failures, asked>>

HostReturn ==
    /\ pc = "returned" /\ Goto("idle", <<>>, None)
    /\ UNCHANGED <<exchange, runtime, task, setting, failures, asked>>

Exchange == \E o \in Orders : Accept(o) \/ End(o) \/ \E v \in 1 .. orders[o].left : Fill(o, v)
TaskSteps == \/ Process \/ Plan \/ Cancelled \/ SendCancel \/ SendInsert
             \/ FinishWithError \/ StopAfterError
Environment == Exchange \/ Deliver \/ \E p \in Prices : Tick(p)

Next ==
    \/ CheckOpen \/ \E v \in setup.targets : SetTarget(v)
    \/ PublishTarget \/ CancelTask \/ DropTask
    \/ Environment
    \/ WaitUpdate \/ TaskSteps \/ HostReturn

Spec == Init /\ [][Next]_vars

(* The strategy keeps calling wait_update, the session keeps delivering,   *)
(* and the exchange answers every order and every cancel in the end.  Only *)
(* the host's steps change its variables, and HostCanStep is when one of   *)
(* them is enabled: the second conjunct is their weak fairness.            *)
HostCanStep ==
    /\ pc = "idle" => ~task.finished
    /\ pc = "inserting" => failures < MaxFailures \/ \E o \in Orders : orders[o] = NoOrder
Fairness ==
    /\ WF_vars(PublishTarget)
    /\ <>[]HostCanStep => []<><<host' # host>>_vars
    /\ WF_vars(Deliver)
    /\ WF_vars(\E o \in Orders : Accept(o) \/ End(o) \/ Fill(o, orders[o].left))
FairSpec == Spec /\ Fairness

-----------------------------------------------------------------------------
(* Properties.                                                             *)

Requested == asked \cup {NetPosition(setup.position)}
Outstanding(direction) == Unfilled({o \in Orders : Alive(o) /\ orders[o].direction = direction})

(* Whatever fills, and however late the task hears of it, the position     *)
(* stays between the lowest and the highest volume asked for so far: no    *)
(* order is sent twice and orders for an old target are gone before those  *)
(* for the new one are sent (machine.rs handle_live_orders).               *)
ExposureWithinTargets ==
    /\ \E v \in Requested : NetPosition(pos) + Outstanding("buy") <= v
    /\ \E v \in Requested : NetPosition(pos) - Outstanding("sell") >= v

(* When the last request counts as reached (reached_tx), the position      *)
(* really is the target and no order of the task can change it any more.   *)
ReachedIsFact ==
    task.seq > 0 /\ task.reached = task.seq /\ setting # "stored" =>
        /\ NetPosition(pos) = task.target /\ task.applied = task.target
        /\ \A o \in task.known : ~Alive(o)

(* Closing orders never ask for more than the position they close, also    *)
(* when several of them are under way (plan.rs planned_order_for_action).  *)
ClosesCovered ==
    \A d \in {"buy", "sell"} :
        LET closing(offsets) == Unfilled({o \in Orders : /\ Alive(o) /\ orders[o].direction = d
                                                         /\ orders[o].offset \in offsets})
        IN  IF setup.shfe THEN /\ closing({"closeToday"}) <= pos[Today(d)]
                             /\ closing({"close"}) <= pos[History(d)]
            ELSE closing({"close", "closeToday"}) <= pos[Today(d)] + pos[History(d)]

(* Unless a failed command ended it (finish_with_error) or its owner       *)
(* dropped it, a task that has ended has no order left at the exchange     *)
(* when it gives up the symbol: also when it was cancelled while a target  *)
(* was being set, or stopped after the first orders of a batch were sent   *)
(* and a later one failed (machine.rs process_cancel_requested).           *)
CleanFinish ==
    task.finished /\ ~task.failed /\ ~task.dropped => \A o \in task.known : ~Alive(o)

(* Of the commits the host has taken no trade of the task's orders is      *)
(* missing in its record, although an order is often seen finished, and    *)
(* pruned, before the commit with its trades is taken (machine.rs          *)
(* record_commit_trades).                                                  *)
TradesRecorded ==
    commits = <<>> /\ pc # "process" /\ ~task.finished =>
        task.seen = {x \in seenTrades : x.order \in task.known}

(* A request is settled: its target is reached, a later target has taken   *)
(* its place, or the task has ended.  No order in an odd state (not yet    *)
(* reported, cancel under way, price moved) blocks the task for ever.      *)
RequestsSettle ==
    \A n \in 1 .. MaxRequests :
        task.seq = n ~> task.reached >= n \/ task.seq > n \/ task.finished

(* A cancelled task ends (machine.rs process_cancel_requested).            *)
CancelledTaskEnds == task.cancelRequested ~> task.finished
=============================================================================
