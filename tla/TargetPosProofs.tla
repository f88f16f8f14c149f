-------------------------- MODULE TargetPosProofs --------------------------
(***************************************************************************)
(* Theorems about TargetPos for any setup, any number of orders, requests, *)
(* price changes and failures, and any delay between the exchange and the  *)
(* commits the task takes; and, at the end, about TargetPosScheduler for   *)
(* every schedule: any number of steps, targets and pauses, and any moment *)
(* at which a step's time is up.                                           *)
(*                                                                         *)
(* The argument rests on one fact: an order the task has stopped tracking  *)
(* was seen finished, and the state never shows an order finished that is  *)
(* not.  So a task without tracked orders has none alive, and then the     *)
(* position it reads is the position it has.                               *)
(*                                                                         *)
(* That the orders alive stay within what was asked for, and within what   *)
(* they close, rests on a second one: once every order has been seen, no   *)
(* more is spare in the state than in truth, since orders only fill and    *)
(* end.  The batch a task plans, less the live orders it is reconciled     *)
(* with, fits into what is spare in the state.                             *)
(*                                                                         *)
(* Between two steps of a schedule the task in hand tracks no order; so    *)
(* nothing of an earlier step is alive when the next one starts, and the   *)
(* schedule ends with the position its last step read.                     *)
(***************************************************************************)
EXTENDS TargetPosScheduler, FiniteSums, SequenceTheorems, FiniteSetTheorems, TLAPS

-----------------------------------------------------------------------------
(* The inductive invariant.  The parts about the exchange, the runtime     *)
(* state and the orders of the task also hold under the scheduler.         *)

Used == {o \in Orders : orders[o].state # "none"}
SeenDone(o) == seenOrders[o].state = "done"

OrderFields == {"state", "direction", "offset", "volume", "left", "price", "cancel"}

(* Order numbers are used up one after the other, and the runtime state    *)
(* lags behind the exchange but is never ahead of it.                      *)
OrderInv ==
    /\ orders = [o \in Orders |-> orders[o]] /\ seenOrders = [o \in Orders |-> seenOrders[o]]
    /\ \A o \in Orders : /\ DOMAIN orders[o] = OrderFields
                         /\ orders[o].state \in {"none", "sent", "live", "done"}
                         /\ SeenDone(o) => orders[o].state = "done"
    /\ Used = 1 .. Cardinality(Used)

(* With every order seen finished, the position seen is the real one.      *)
PosInv == (\A o \in Used : SeenDone(o)) => seenPos.volume = pos

TradeInv == seenTrades \subseteq trades /\ \A x \in trades : x.order \in Used

ExchangeInv == OrderInv /\ PosInv /\ TradeInv

TaskFields == {"target", "applied", "seq", "reached", "submittedSeq", "submittedNet", "awaiting",
               "tracked", "known", "cancelIds", "seen", "error", "cancelRequested", "finished",
               "failed", "dropped"}

(* An order that is not tracked any more was seen finished.                *)
KnownInv ==
    /\ DOMAIN task = TaskFields
    /\ task.tracked \subseteq task.known /\ task.known \subseteq Used
    /\ \A o \in Used \ task.tracked : SeenDone(o)

(* The request in hand is not newer than the last one, and is that one's   *)
(* target unless a caller is between its two steps.  Once it is reached    *)
(* nothing is planned or sent.                                             *)
RequestInv ==
    /\ task.seq \in Nat /\ task.reached \in Nat /\ wanted.seq \in Nat
    /\ task.reached <= task.seq /\ wanted.seq <= task.seq
    /\ pc = "plan" /\ wanted.seq = task.seq /\ setting # "stored" => wanted.target = task.target
    /\ pc = "cancelling" => after \in {"returned", "cancelled", "stop", "nextStep"}

ReachInv ==
    task.seq > 0 /\ task.reached = task.seq /\ setting # "stored" =>
        /\ task.tracked = {} /\ task.applied = task.target
        /\ NetPosition(seenPos.volume) = task.target
        /\ pc \notin {"plan", "inserting"}

(* A task ends between two calls of the host, without orders unless it     *)
(* failed or was dropped.                                                  *)
FinishInv ==
    task.finished =>
        /\ pc \in {"idle", "returned"}
        /\ ~task.failed /\ ~task.dropped => task.tracked = {}

(* A trade of the task's orders is recorded, in the commit just taken, or  *)
(* in one still to be taken.                                               *)
IsList(s) == Len(s) \in Nat /\ s = [i \in 1 .. Len(s) |-> s[i]]
RecordInv ==
    /\ IsList(commits) /\ \A i \in 1 .. Len(commits) : commits[i] \subseteq seenTrades
    /\ lastTrades \subseteq seenTrades
    /\ task.seen \subseteq {x \in seenTrades : x.order \in task.known}
    /\ \A x \in seenTrades : x.order \in task.known =>
          \/ x \in task.seen
          \/ pc = "process" /\ x \in lastTrades
          \/ \E i \in 1 .. Len(commits) : x \in commits[i]

TaskInv == ExchangeInv /\ KnownInv /\ RequestInv /\ ReachInv /\ FinishInv /\ RecordInv

-----------------------------------------------------------------------------
(* The exchange and what the runtime state shows of it.                    *)

LEMMA FreshOrder ==
    ASSUME OrderInv
    PROVE  LET id == Cardinality(Used) + 1
           IN  id \notin Used /\ Used \cup {id} = 1 .. Cardinality(Used \cup {id})
<1> DEFINE k == Cardinality(Used)
<1>1. k \in Nat /\ Used = 1 .. k
  <2>1. IsFiniteSet(Used)
    BY BoundsAssumption, FS_Subset DEF Used
  <2> QED BY <2>1, FS_CardinalityType DEF OrderInv
<1> HIDE DEF k
<1>2. Used \cup {k + 1} = 1 .. k + 1 /\ k + 1 \notin Used
  BY <1>1
<1>3. Cardinality(1 .. k + 1) = k + 1
  BY <1>1, FS_Interval
<1> QED BY <1>2, <1>3 DEF k

(* One order that was already used changes.                                *)
LEMMA OrderChanges ==
    ASSUME OrderInv, NEW o \in Orders, NEW x, orders' = [orders EXCEPT ![o] = x],
           DOMAIN x = OrderFields, x.state \in {"none", "sent", "live", "done"},
           x.state = "none" <=> orders[o].state = "none",
           SeenDone(o) => x.state = "done", UNCHANGED seenOrders
    PROVE  OrderInv' /\ Used' = Used
<1>1. orders'[o] = x /\ (\A q \in Orders : q # o => orders'[q] = orders[q])
      /\ orders' = [q \in Orders |-> orders'[q]]
  BY DEF OrderInv
<1>2. Used' = Used
  BY <1>1 DEF Used
<1>3. \A q \in Orders : /\ DOMAIN orders'[q] = OrderFields
                        /\ orders'[q].state \in {"none", "sent", "live", "done"}
                        /\ seenOrders[q].state = "done" => orders'[q].state = "done"
  BY <1>1 DEF OrderInv, SeenDone
<1> QED BY <1>1, <1>2, <1>3 DEF OrderInv, SeenDone

(* What the exchange, the session and the quotes do: no order appears, and *)
(* what was seen finished stays so.                                        *)
Settled == Used' = Used /\ \A o \in Orders : SeenDone(o) => seenOrders'[o].state = "done"

LEMMA ExchangeMoves ==
    ASSUME ExchangeInv, NEW o \in Orders,
           Accept(o) \/ End(o) \/ \E v \in 1 .. orders[o].left : Fill(o, v)
    PROVE  ExchangeInv' /\ Settled
<1>1. /\ DOMAIN orders[o] = OrderFields /\ orders[o].state \in {"none", "sent", "live", "done"}
      /\ SeenDone(o) => orders[o].state = "done"
  BY DEF ExchangeInv, OrderInv
<1>2. UNCHANGED <<seenOrders, seenPos, seenTrades>>
  BY DEF Accept, End, Fill, runtime
<1>3. CASE Accept(o)
  <2> DEFINE x == [orders[o] EXCEPT !.state = "live"]
  <2>1. orders[o].state = "sent" /\ orders' = [orders EXCEPT ![o] = x] /\ UNCHANGED <<pos, trades>>
    BY <1>3 DEF Accept
  <2>2. DOMAIN x = OrderFields /\ x.state = "live"
    BY <1>1 DEF OrderFields
  <2> HIDE DEF x
  <2>3. OrderInv' /\ Used' = Used
    BY <1>1, <1>2, <2>1, <2>2, OrderChanges DEF ExchangeInv
  <2> QED BY <1>2, <2>1, <2>3 DEF ExchangeInv, PosInv, TradeInv, Settled, SeenDone
<1>4. CASE End(o)
  <2> DEFINE x == [orders[o] EXCEPT !.state = "done"]
  <2>1. /\ orders[o].state \in {"sent", "live"} /\ orders' = [orders EXCEPT ![o] = x]
        /\ UNCHANGED <<pos, trades>>
    BY <1>4 DEF End, Alive
  <2>2. DOMAIN x = OrderFields /\ x.state = "done"
    BY <1>1 DEF OrderFields
  <2> HIDE DEF x
  <2>3. OrderInv' /\ Used' = Used
    BY <1>1, <1>2, <2>1, <2>2, OrderChanges DEF ExchangeInv
  <2> QED BY <1>2, <2>1, <2>3 DEF ExchangeInv, PosInv, TradeInv, Settled, SeenDone
<1>5. CASE \E v \in 1 .. orders[o].left : Fill(o, v)
  <2>1. PICK v \in 1 .. orders[o].left : Fill(o, v)
    BY <1>5
  <2> DEFINE left == orders[o].left - v
             x == [orders[o] EXCEPT !.left = left, !.state = IF left = 0 THEN "done" ELSE "live"]
  <2>2. /\ orders[o].state = "live"
        /\ orders' = [orders EXCEPT ![o].left = left,
                                    ![o].state = IF left = 0 THEN "done" ELSE "live"]
        /\ trades' = trades \cup {[order |-> o, left |-> left, volume |-> v]}
    BY <2>1 DEF Fill
  <2> HIDE DEF left
  <2>3. orders' = [orders EXCEPT ![o] = x]
    BY <2>2 DEF ExchangeInv, OrderInv
  <2>4. DOMAIN x = OrderFields /\ x.state \in {"live", "done"}
    BY <1>1 DEF OrderFields
  <2> HIDE DEF x
  <2>5. OrderInv' /\ Used' = Used
    BY <1>1, <1>2, <2>2, <2>3, <2>4, OrderChanges DEF ExchangeInv
  <2>6. o \in Used /\ ~SeenDone(o)
    BY <1>1, <2>2 DEF Used
  <2>7. PosInv'
    BY <1>2, <2>5, <2>6 DEF PosInv, SeenDone
  <2>8. TradeInv'
    BY <1>2, <2>2, <2>5, <2>6 DEF ExchangeInv, TradeInv
  <2> QED BY <1>2, <2>5, <2>7, <2>8 DEF ExchangeInv, Settled, SeenDone
<1> QED BY <1>3, <1>4, <1>5

LEMMA DeliverMoves ==
    ASSUME ExchangeInv, Deliver
    PROVE  ExchangeInv' /\ Settled
<1>1. /\ UNCHANGED <<orders, pos, trades>>
      /\ seenOrders' = Reported /\ seenPos' = Snapshot /\ seenTrades' = trades
  BY DEF Deliver, exchange
<1>2. ASSUME NEW o \in Orders
      PROVE  seenOrders'[o].state = "done" <=> orders[o].state = "done"
  <2>1. DOMAIN orders[o] = OrderFields
    BY DEF ExchangeInv, OrderInv
  <2>2. CASE orders[o].state = "sent"
    BY <1>1, <2>2 DEF Reported, NoOrder
  <2>3. CASE orders[o].state # "sent"
    <3>1. seenOrders'[o] = [orders[o] EXCEPT !.cancel = FALSE]
      BY <1>1, <2>3 DEF Reported
    <3> QED BY <2>1, <3>1 DEF OrderFields
  <2> QED BY <2>2, <2>3
<1>3. seenOrders' = [o \in Orders |-> seenOrders'[o]]
  BY <1>1 DEF Reported
<1>4. Used' = Used
  BY <1>1 DEF Used
<1>5. OrderInv'
  BY <1>1, <1>2, <1>3, <1>4 DEF ExchangeInv, OrderInv, SeenDone
<1>6. PosInv'
  BY <1>1 DEF PosInv, Snapshot
<1>7. TradeInv'
  BY <1>1, <1>4 DEF ExchangeInv, TradeInv
<1>8. Settled
  BY <1>2, <1>4 DEF ExchangeInv, OrderInv, Settled
<1> QED BY <1>5, <1>6, <1>7, <1>8 DEF ExchangeInv

LEMMA ExchangeQuiet ==
    ASSUME ExchangeInv, UNCHANGED <<orders, pos, trades, seenOrders, seenPos, seenTrades>>
    PROVE  ExchangeInv' /\ Settled
BY DEF ExchangeInv, OrderInv, PosInv, TradeInv, Settled, Used, SeenDone

LEMMA EnvironmentMoves ==
    ASSUME ExchangeInv, Environment
    PROVE  ExchangeInv' /\ Settled /\ UNCHANGED <<task, host, setting>>
<1>1. CASE Exchange
  <2>1. PICK o \in Orders : Accept(o) \/ End(o) \/ \E v \in 1 .. orders[o].left : Fill(o, v)
    BY <1>1 DEF Exchange
  <2>2. UNCHANGED <<task, host, setting>>
    BY <2>1 DEF Accept, End, Fill
  <2> QED BY <2>1, <2>2, ExchangeMoves
<1>2. CASE Deliver
  BY <1>2, DeliverMoves DEF Deliver
<1>3. CASE \E p \in Prices : Tick(p)
  BY <1>3, ExchangeQuiet DEF Tick, exchange
<1> QED BY <1>1, <1>2, <1>3 DEF Environment

(* A cancel command only marks the order.                                  *)
LEMMA CancelMoves ==
    ASSUME ExchangeInv, NEW id, NEW flag, CommandOk(id, [orders[id] EXCEPT !.cancel = flag]),
           UNCHANGED <<seenOrders, seenPos, seenTrades>>
    PROVE  ExchangeInv' /\ Settled
<1> DEFINE x == [orders[id] EXCEPT !.cancel = flag]
<1>1. orders' = [orders EXCEPT ![id] = x] /\ UNCHANGED <<pos, trades>>
  BY DEF CommandOk
<1>2. CASE id \in Orders
  <2>1. DOMAIN x = OrderFields /\ x.state = orders[id].state
    BY <1>2 DEF ExchangeInv, OrderInv, OrderFields
  <2> HIDE DEF x
  <2>2. OrderInv' /\ Used' = Used
    BY <1>1, <1>2, <2>1, OrderChanges DEF ExchangeInv, OrderInv
  <2> QED BY <1>1, <2>2 DEF ExchangeInv, PosInv, TradeInv, Settled, SeenDone
<1>3. CASE id \notin Orders
  <2>1. orders' = orders
    BY <1>1, <1>3 DEF ExchangeInv, OrderInv
  <2> QED BY <1>1, <2>1, ExchangeQuiet
<1> QED BY <1>2, <1>3

(* An insert command uses the next number.                                 *)
LEMMA InsertMoves ==
    ASSUME ExchangeInv, NEW id \in Orders, id = Cardinality(Used) + 1, NEW x,
           DOMAIN x = OrderFields, x.state = "sent", CommandOk(id, x),
           UNCHANGED <<seenOrders, seenPos, seenTrades>>
    PROVE  ExchangeInv' /\ id \notin Used /\ Used' = Used \cup {id}
<1>1. orders' = [orders EXCEPT ![id] = x] /\ UNCHANGED <<pos, trades>>
  BY DEF CommandOk
<1>2. id \notin Used /\ Used \cup {id} = 1 .. Cardinality(Used \cup {id})
  BY FreshOrder DEF ExchangeInv
<1>3. /\ orders'[id] = x /\ (\A q \in Orders : q # id => orders'[q] = orders[q])
      /\ orders' = [q \in Orders |-> orders'[q]]
  BY <1>1 DEF ExchangeInv, OrderInv
<1>4. Used' = Used \cup {id}
  BY <1>3 DEF Used
<1>5. ~SeenDone(id)
  BY <1>2 DEF ExchangeInv, OrderInv, Used
<1>6. \A q \in Orders : /\ DOMAIN orders'[q] = OrderFields
                        /\ orders'[q].state \in {"none", "sent", "live", "done"}
                        /\ seenOrders[q].state = "done" => orders'[q].state = "done"
  BY <1>3, <1>5 DEF ExchangeInv, OrderInv, SeenDone
<1>7. OrderInv'
  BY <1>2, <1>3, <1>4, <1>6 DEF ExchangeInv, OrderInv, SeenDone
<1>8. PosInv'
  BY <1>4, <1>5 DEF PosInv, SeenDone
<1>9. TradeInv'
  BY <1>1, <1>4 DEF ExchangeInv, TradeInv
<1> QED BY <1>2, <1>4, <1>7, <1>8, <1>9 DEF ExchangeInv

-----------------------------------------------------------------------------
(* What the steps of process_wait_update do to the task.                   *)

(* u is t with some orders forgotten that were seen finished, and perhaps  *)
(* other notes about cancels, submissions, trades and reached requests.    *)
SameOrders(t, u) ==
    /\ DOMAIN u = TaskFields
    /\ u.target = t.target /\ u.seq = t.seq /\ u.known = t.known
    /\ u.tracked \subseteq t.tracked
    /\ \A o \in t.tracked \ u.tracked : SeenDone(o)
SameTask(t, u) ==
    SameOrders(t, u) /\ u.finished = t.finished /\ u.failed = t.failed /\ u.dropped = t.dropped
SameRequest(t, u) == u.applied = t.applied /\ u.reached = t.reached

LEMMA PruneFacts ==
    ASSUME NEW t, DOMAIN t = TaskFields
    PROVE  /\ SameTask(t, Prune(t)) /\ SameRequest(t, Prune(t))
           /\ Prune(t).seen = t.seen /\ Prune(t).cancelRequested = t.cancelRequested
BY DEF Prune, SameTask, SameOrders, SameRequest, SeenDone, Terminal, TaskFields

LEMMA KnownKept ==
    ASSUME KnownInv, SameOrders(task, task'), Settled
    PROVE  KnownInv'
<1>1. /\ task'.tracked \subseteq task'.known /\ task'.known \subseteq Used'
      /\ DOMAIN task' = TaskFields
  BY DEF KnownInv, SameOrders, Settled
<1>2. ASSUME NEW o \in Used \ task'.tracked PROVE seenOrders'[o].state = "done"
  <2>1. SeenDone(o) /\ o \in Orders
    BY DEF KnownInv, SameOrders, Used
  <2> QED BY <2>1 DEF Settled
<1> QED BY <1>1, <1>2 DEF KnownInv, Settled, SeenDone

LEMMA ProcessStep ==
    ASSUME KnownInv, Process
    PROVE  /\ SameTask(task, task') /\ SameRequest(task, task')
           /\ task'.cancelRequested = task.cancelRequested
           /\ task'.seen = task.seen \cup NewTrades(task)
           /\ \/ pc' = "cancelling" /\ after' = "cancelled" /\ wanted' = wanted
              \/ pc' \in {"cancelled", "returned"} /\ wanted' = wanted
              \/ /\ pc' = "plan" /\ wanted' = [seq |-> task.seq, target |-> task.target]
                 /\ task.seq # 0 /\ ~(task.reached >= task.seq) /\ task.target # None
           /\ lastTrades' = lastTrades
           /\ UNCHANGED <<exchange, runtime, setting>>
<1> DEFINE known == RecordTrades(task)
           t     == Prune(known)
           idle  == t.seq = 0 \/ t.reached >= t.seq \/ t.target = None
<1>1. /\ SameTask(task, known) /\ SameRequest(task, known) /\ DOMAIN known = TaskFields
      /\ known.cancelRequested = task.cancelRequested
      /\ known.seen = task.seen \cup NewTrades(task) /\ known.tracked = task.tracked
  <2>1. DOMAIN task = TaskFields
    BY DEF KnownInv
  <2> QED BY <2>1 DEF RecordTrades, SameTask, SameOrders, SameRequest, TaskFields
<1> HIDE DEF known
<1>2. /\ SameTask(known, t) /\ SameRequest(known, t) /\ t.seen = known.seen
      /\ t.cancelRequested = known.cancelRequested
  BY <1>1, PruneFacts
<1>3. /\ SameTask(task, t) /\ SameRequest(task, t)
      /\ t.seen = task.seen \cup NewTrades(task) /\ t.cancelRequested = task.cancelRequested
  BY <1>1, <1>2 DEF SameTask, SameOrders, SameRequest
<1>4. t.seq = task.seq /\ t.target = task.target /\ t.reached = task.reached
  BY <1>3 DEF SameTask, SameOrders, SameRequest
<1>5. UNCHANGED <<exchange, runtime, setting>>
  BY DEF Process
<1>6. \/ /\ task' = t /\ CancelOrders(t, t.tracked, "cancelled")
      \/ /\ task' = known
         /\ wanted' = IF idle THEN wanted ELSE [seq |-> t.seq, target |-> t.target]
         /\ pc' = IF idle THEN "returned" ELSE "plan"
         /\ UNCHANGED <<todo, after, lastTrades>>
  BY DEF Process, known
<1> HIDE DEF t
<1>7. CASE task' = t /\ CancelOrders(t, t.tracked, "cancelled")
  <2>1. /\ wanted' = wanted /\ lastTrades' = lastTrades
        /\ pc' = "cancelled" \/ (pc' = "cancelling" /\ after' = "cancelled")
    BY <1>7 DEF CancelOrders, Goto
  <2> QED BY <1>3, <1>5, <1>7, <2>1
<1>8. CASE /\ task' = known
           /\ wanted' = IF idle THEN wanted ELSE [seq |-> t.seq, target |-> t.target]
           /\ pc' = IF idle THEN "returned" ELSE "plan"
           /\ UNCHANGED <<todo, after, lastTrades>>
  BY <1>1, <1>4, <1>5, <1>8
<1> QED BY <1>6, <1>7, <1>8

LEMMA PlanStep ==
    ASSUME KnownInv, Plan
    PROVE  /\ SameTask(task, task') /\ task'.seen = task.seen /\ wanted' = wanted
           /\ task'.cancelRequested = task.cancelRequested
           /\ \/ /\ SameRequest(task, task')
                 /\ pc' \in {"returned", "inserting"} \/ (pc' = "cancelling" /\ after' = "returned")
              \/ /\ task'.tracked = {} /\ NetPosition(seenPos.volume) = wanted.target
                 /\ task'.applied = wanted.target /\ task'.reached = wanted.seq
                 /\ pc' = "returned"
           /\ UNCHANGED <<exchange, runtime, setting>>
<1> DEFINE t     == Prune(task)
           net   == NetPosition(seenPos.volume)
           batch == DesiredBatch(seenPos, wanted.target)
<1>1. /\ SameTask(task, t) /\ SameRequest(task, t) /\ t.seen = task.seen
      /\ t.cancelRequested = task.cancelRequested /\ DOMAIN t = TaskFields
  BY PruneFacts DEF KnownInv, SameTask, SameOrders
<1>2. UNCHANGED <<exchange, runtime, setting>>
  BY DEF Plan
<1>3. (t.tracked = {} /\ ReachOrSubmit(t, net, batch)) \/ HandleLiveOrders(t, net, batch)
  BY DEF Plan
<1> HIDE DEF t, net, batch
<1> DEFINE quiet == /\ task' = t /\ wanted' = wanted
                    /\ pc' = "returned" \/ (pc' = "cancelling" /\ after' = "returned")
           sent(b) == SubmitBatch(t, net, b)
<1>4. ASSUME NEW b, ReachOrSubmit(t, net, b)
      PROVE  \/ quiet \/ sent(b)
             \/ net = wanted.target /\ task' = MarkReached(t) /\ Return
  BY <1>4 DEF ReachOrSubmit, Return, Goto
<1>5. ASSUME NEW ids, task' = t, CancelOrders(t, ids, "returned") PROVE quiet
  BY <1>5 DEF CancelOrders, Goto
<1>6. \/ quiet \/ (\E b : sent(b))
      \/ t.tracked = {} /\ net = wanted.target /\ task' = MarkReached(t) /\ Return
  <2>1. CASE t.tracked = {} /\ ReachOrSubmit(t, net, batch)
    BY <1>4, <2>1
  <2>2. CASE HandleLiveOrders(t, net, batch)
    <3>1. ASSUME NEW ids, task' = t, CancelOrders(t, ids, "returned") PROVE quiet
      BY <1>5, <3>1
    <3>2. ASSUME task' = t, Return PROVE quiet
      BY <3>2 DEF Return, Goto
    <3>3. ASSUME NEW b, net # wanted.target, ReachOrSubmit(t, net, b) PROVE quiet \/ sent(b)
      BY <1>4, <3>3
    <3> HIDE DEF quiet, sent
    <3> DEFINE missing == ReconcileLiveOrders(t.tracked, batch).missing
               stale   == ReconcileLiveOrders(t.tracked, batch).stale
               blank   == {id \in t.tracked : Unmaterialized(id)}
    <3>4. \/ task' = t /\ CancelOrders(t, t.tracked, "returned")
          \/ task' = t /\ (Return \/ CancelOrders(t, blank, "returned"))
          \/ task' = t /\ Return
          \/ task' = t /\ CancelOrders(t, stale, "returned")
          \/ net # wanted.target /\ ReachOrSubmit(t, net, missing)
      BY <2>2 DEF HandleLiveOrders
    <3> HIDE DEF missing, stale, blank
    <3> QED BY <3>1, <3>2, <3>3, <3>4
  <2> QED BY <1>3, <2>1, <2>2
<1>7. CASE quiet
  BY <1>1, <1>2, <1>7
<1>8. CASE \E b : sent(b)
  <2>1. PICK b : SubmitBatch(t, net, b)
    BY <1>8
  <2>2. /\ task' = [t EXCEPT !.submittedSeq = wanted.seq, !.awaiting = TRUE, !.submittedNet = net]
        /\ pc' = "inserting" /\ wanted' = wanted
    BY <2>1 DEF SubmitBatch, Goto
  <2>3. /\ SameTask(t, task') /\ SameRequest(t, task') /\ task'.seen = t.seen
        /\ task'.cancelRequested = t.cancelRequested
    BY <1>1, <2>2 DEF SameTask, SameOrders, SameRequest, TaskFields
  <2>4. SameTask(task, task') /\ SameRequest(task, task')
    BY <1>1, <2>3 DEF SameTask, SameOrders, SameRequest
  <2> QED BY <1>1, <1>2, <2>2, <2>3, <2>4
<1>9. CASE t.tracked = {} /\ net = wanted.target /\ task' = MarkReached(t) /\ Return
  <2>1. pc' = "returned" /\ wanted' = wanted
    BY <1>9 DEF Return, Goto
  <2>2. /\ SameTask(t, task') /\ task'.seen = t.seen /\ task'.applied = wanted.target
        /\ task'.reached = wanted.seq /\ task'.tracked = t.tracked
        /\ task'.cancelRequested = t.cancelRequested
    BY <1>1, <1>9 DEF MarkReached, SameTask, SameOrders, TaskFields
  <2>3. SameTask(task, task')
    BY <1>1, <2>2 DEF SameTask, SameOrders
  <2> QED BY <1>1, <1>2, <1>9, <2>1, <2>2, <2>3 DEF net
<1> QED BY <1>6, <1>7, <1>8, <1>9

LEMMA CancelledStep ==
    ASSUME KnownInv, Cancelled
    PROVE  /\ SameOrders(task, task') /\ SameRequest(task, task') /\ task'.seen = task.seen
           /\ task'.failed = task.failed /\ task'.dropped = task.dropped
           /\ task'.cancelRequested = task.cancelRequested
           /\ task'.finished = task.finished \/ (task'.finished = TRUE /\ task'.tracked = {})
           /\ pc' = "returned" /\ wanted' = wanted
           /\ UNCHANGED <<exchange, runtime, setting>>
<1> DEFINE t == Prune(task)
<1>1. /\ SameTask(task, t) /\ SameRequest(task, t) /\ t.seen = task.seen
      /\ t.cancelRequested = task.cancelRequested
  BY PruneFacts DEF KnownInv
<1>2. task' = IF t.tracked = {} THEN Finish(t) ELSE t
  BY DEF Cancelled
<1>3. pc' = "returned" /\ wanted' = wanted /\ UNCHANGED <<exchange, runtime, setting>>
  BY DEF Cancelled, Return, Goto
<1> HIDE DEF t
<1>4. CASE task' = t
  BY <1>1, <1>3, <1>4 DEF SameTask
<1>5. CASE t.tracked = {} /\ task' = Finish(t)
  BY <1>1, <1>3, <1>5 DEF SameTask, SameOrders, SameRequest, Finish, TaskFields
<1> QED BY <1>2, <1>4, <1>5

LEMMA SendCancelStep ==
    ASSUME KnownInv, ExchangeInv, SendCancel
    PROVE  /\ SameOrders(task, task') /\ SameRequest(task, task') /\ task'.seen = task.seen
           /\ task'.dropped = task.dropped /\ task'.cancelRequested = task.cancelRequested
           /\ \/ /\ SameTask(task, task')
                 /\ (pc' = "cancelling" /\ after' = after) \/ pc' = after
              \/ SameTask(task, task') /\ pc' = "failing"
           /\ wanted' = wanted /\ lastTrades' = lastTrades
           /\ ExchangeInv' /\ Settled /\ UNCHANGED <<runtime, setting>>
<1> DEFINE id == Head(todo)
<1>1. DOMAIN task = TaskFields
  BY DEF KnownInv
<1>2. UNCHANGED <<runtime, setting>> /\ UNCHANGED <<seenOrders, seenPos, seenTrades>>
  BY DEF SendCancel, runtime
<1>3. \/ /\ CommandOk(id, [orders[id] EXCEPT !.cancel = @ \/ Alive(id)])
         /\ task' = [task EXCEPT !.cancelIds = @ \cup {id}]
         /\ IF Len(todo) > 1 THEN Goto("cancelling", Tail(todo), after)
                             ELSE Goto(after, <<>>, None)
      \/ CommandFails /\ RecordError("failing")
  BY DEF SendCancel
<1> HIDE DEF id
<1>4. CASE /\ CommandOk(id, [orders[id] EXCEPT !.cancel = @ \/ Alive(id)])
           /\ task' = [task EXCEPT !.cancelIds = @ \cup {id}]
           /\ IF Len(todo) > 1 THEN Goto("cancelling", Tail(todo), after)
                               ELSE Goto(after, <<>>, None)
  <2> DEFINE flag == orders[id].cancel \/ Alive(id)
  <2>1. CommandOk(id, [orders[id] EXCEPT !.cancel = flag])
    BY <1>4
  <2> HIDE DEF flag
  <2>2. ExchangeInv' /\ Settled
    BY <1>2, <2>1, CancelMoves
  <2>3. /\ SameTask(task, task') /\ SameRequest(task, task') /\ task'.seen = task.seen
        /\ task'.cancelRequested = task.cancelRequested
    BY <1>1, <1>4 DEF SameTask, SameOrders, SameRequest, TaskFields
  <2>4. /\ (pc' = "cancelling" /\ after' = after) \/ pc' = after
        /\ wanted' = wanted /\ lastTrades' = lastTrades
    BY <1>4 DEF Goto
  <2> QED BY <1>2, <2>2, <2>3, <2>4 DEF SameTask
<1>5. CASE CommandFails /\ RecordError("failing")
  <2>1. UNCHANGED <<orders, pos, trades>>
    BY <1>5 DEF CommandFails, exchange
  <2>2. ExchangeInv' /\ Settled
    BY <1>2, <2>1, ExchangeQuiet
  <2>3. /\ SameOrders(task, task') /\ SameRequest(task, task') /\ task'.seen = task.seen
        /\ task'.cancelRequested = task.cancelRequested /\ SameTask(task, task')
    BY <1>1, <1>5 DEF RecordError, SameTask, SameOrders, SameRequest, TaskFields
  <2>4. pc' = "failing" /\ wanted' = wanted /\ lastTrades' = lastTrades
    BY <1>5 DEF RecordError, Goto
  <2> QED BY <1>2, <2>2, <2>3, <2>4 DEF SameTask
<1> QED BY <1>3, <1>4, <1>5

LEMMA SendInsertStep ==
    ASSUME KnownInv, ExchangeInv, SendInsert
    PROVE  /\ DOMAIN task' = TaskFields /\ SameRequest(task, task') /\ task'.seen = task.seen
           /\ task'.target = task.target /\ task'.seq = task.seq /\ task'.dropped = task.dropped
           /\ \/ \E id \in Orders \ Used :
                    /\ Used' = Used \cup {id} /\ task'.known = task.known \cup {id}
                    /\ task'.tracked = task.tracked \cup {id}
                    /\ task'.finished = task.finished /\ pc' \in {"inserting", "returned"}
              \/ SameTask(task, task') /\ Used' = Used /\ pc' \in {"failing", "stopping"}
           /\ wanted' = wanted /\ lastTrades' = lastTrades
           /\ ExchangeInv' /\ UNCHANGED <<runtime, setting, trades>>
<1> DEFINE d == Head(todo)
           id == Cardinality({o \in Orders : orders[o].state # "none"}) + 1
           x  == [NoOrder EXCEPT !.state = "sent", !.volume = d.volume, !.left = d.volume,
                                 !.direction = d.direction, !.offset = d.offset, !.price = d.price]
<1>1. DOMAIN task = TaskFields
  BY DEF KnownInv
<1>2. UNCHANGED <<runtime, setting>> /\ UNCHANGED <<seenOrders, seenPos, seenTrades>>
  BY DEF SendInsert, runtime
<1>3. id = Cardinality(Used) + 1
  BY DEF Used
<1>4. \/ /\ id \in Orders /\ CommandOk(id, x)
         /\ task' = [task EXCEPT !.tracked = @ \cup {id}, !.known = @ \cup {id}]
         /\ IF Len(todo) > 1 THEN Goto("inserting", Tail(todo), "sent") ELSE Return
      \/ CommandFails /\ RecordError(IF after = "sent" THEN "stopping" ELSE "failing")
  BY DEF SendInsert
<1>5. DOMAIN x = OrderFields /\ x.state = "sent"
  BY DEF NoOrder, OrderFields
<1> HIDE DEF id, x, d
<1>6. CASE /\ id \in Orders /\ CommandOk(id, x)
           /\ task' = [task EXCEPT !.tracked = @ \cup {id}, !.known = @ \cup {id}]
           /\ IF Len(todo) > 1 THEN Goto("inserting", Tail(todo), "sent") ELSE Return
  <2>1. ExchangeInv' /\ id \notin Used /\ Used' = Used \cup {id}
    BY <1>2, <1>3, <1>5, <1>6, InsertMoves
  <2>2. /\ DOMAIN task' = TaskFields /\ SameRequest(task, task') /\ task'.seen = task.seen
        /\ task'.target = task.target /\ task'.seq = task.seq /\ task'.dropped = task.dropped
        /\ task'.known = task.known \cup {id} /\ task'.tracked = task.tracked \cup {id}
        /\ task'.finished = task.finished
    BY <1>1, <1>6 DEF SameRequest, TaskFields
  <2>3. pc' \in {"inserting", "returned"} /\ wanted' = wanted /\ lastTrades' = lastTrades
    BY <1>6 DEF Goto, Return
  <2>4. UNCHANGED trades
    BY <1>6 DEF CommandOk
  <2> QED BY <1>2, <1>6, <2>1, <2>2, <2>3, <2>4
<1>7. CASE CommandFails /\ RecordError(IF after = "sent" THEN "stopping" ELSE "failing")
  <2>1. UNCHANGED <<orders, pos, trades>>
    BY <1>7 DEF CommandFails, exchange
  <2>2. ExchangeInv' /\ Settled
    BY <1>2, <2>1, ExchangeQuiet
  <2>3. SameTask(task, task') /\ SameRequest(task, task') /\ task'.seen = task.seen
    BY <1>1, <1>7 DEF RecordError, SameTask, SameOrders, SameRequest, TaskFields
  <2>4. pc' \in {"failing", "stopping"} /\ wanted' = wanted /\ lastTrades' = lastTrades
    BY <1>7 DEF RecordError, Goto
  <2> QED BY <1>2, <2>1, <2>2, <2>3, <2>4 DEF SameTask, SameOrders, Settled
<1> QED BY <1>4, <1>6, <1>7

(* What comes of a recorded error: the task ends, or asks for its end.     *)
LEMMA ErrorStep ==
    ASSUME KnownInv, ExchangeInv, FinishWithError \/ StopAfterError
    PROVE  /\ pc \in {"failing", "stopping"} /\ pc' = "returned"
           /\ SameOrders(task, task') /\ SameRequest(task, task') /\ task'.seen = task.seen
           /\ task'.dropped = task.dropped
           /\ \/ task'.finished = TRUE /\ task'.failed = TRUE
              \/ task'.finished = task.finished /\ task'.failed = task.failed
           /\ wanted' = wanted /\ lastTrades' = lastTrades
           /\ UNCHANGED <<exchange, runtime, setting, asked>>
<1>1. DOMAIN task = TaskFields
  BY DEF KnownInv
<1>2. CASE FinishWithError
  BY <1>1, <1>2 DEF FinishWithError, Finish, Return, Goto, SameOrders, SameRequest, TaskFields
<1>3. CASE StopAfterError
  BY <1>1, <1>3 DEF StopAfterError, Return, Goto, SameOrders, SameRequest, TaskFields
<1> QED BY <1>2, <1>3

(* Every step of the task keeps the facts about its orders.                *)
LEMMA TaskStepsKeep ==
    ASSUME ExchangeInv, KnownInv, TaskSteps
    PROVE  ExchangeInv' /\ KnownInv'
<1>1. CASE Process \/ Plan \/ Cancelled \/ FinishWithError \/ StopAfterError
  <2>1. SameOrders(task, task') /\ UNCHANGED <<exchange, runtime>>
    BY <1>1, ProcessStep, PlanStep, CancelledStep, ErrorStep DEF SameTask
  <2>2. UNCHANGED <<orders, pos, trades, seenOrders, seenPos, seenTrades>>
    BY <2>1 DEF exchange, runtime
  <2> QED BY <2>1, <2>2, ExchangeQuiet, KnownKept
<1>2. CASE SendCancel
  BY <1>2, SendCancelStep, KnownKept
<1>3. CASE SendInsert
  <2>1. ExchangeInv' /\ DOMAIN task' = TaskFields /\ UNCHANGED seenOrders
    BY <1>3, SendInsertStep DEF runtime
  <2>2. CASE \E id \in Orders \ Used :
                /\ Used' = Used \cup {id} /\ task'.known = task.known \cup {id}
                /\ task'.tracked = task.tracked \cup {id}
    BY <2>1, <2>2 DEF KnownInv, SeenDone
  <2>3. CASE SameOrders(task, task') /\ Used' = Used
    BY <2>1, <2>3, KnownKept DEF Settled, SeenDone
  <2> QED BY <1>3, <2>1, <2>2, <2>3, SendInsertStep DEF SameTask
<1> QED BY <1>1, <1>2, <1>3 DEF TaskSteps

(* Without a tracked order none is alive, and the position read is real.   *)
LEMMA NothingAlive ==
    ASSUME ExchangeInv, KnownInv, task.tracked = {}
    PROVE  seenPos.volume = pos /\ \A o \in Orders : ~Alive(o)
<1>1. \A o \in Used : SeenDone(o)
  BY DEF KnownInv
<1>2. seenPos.volume = pos
  BY <1>1 DEF ExchangeInv, PosInv
<1>3. \A o \in Orders : ~Alive(o)
  BY <1>1 DEF ExchangeInv, OrderInv, Alive, Used
<1> QED BY <1>2, <1>3

-----------------------------------------------------------------------------
(* The record of trades.                                                   *)

LEMMA ListAppend ==
    ASSUME NEW s, NEW e, IsList(s)
    PROVE  /\ IsList(Append(s, e)) /\ Len(Append(s, e)) = Len(s) + 1 /\ Len(s) \in Nat
           /\ \A i \in 1 .. Len(s) : Append(s, e)[i] = s[i]
           /\ Append(s, e)[Len(s) + 1] = e
<1> DEFINE S == {s[i] : i \in 1 .. Len(s)} \cup {e}
           t == Append(s, e)
<1>1. Len(s) \in Nat /\ s = [i \in 1 .. Len(s) |-> s[i]]
  BY DEF IsList
<1>2. s \in Seq(S) /\ e \in S
  <2>1. [i \in 1 .. Len(s) |-> s[i]] \in [1 .. Len(s) -> S]
    OBVIOUS
  <2> QED BY <1>1, <2>1
<1> HIDE DEF S
<1>3. t \in Seq(S) /\ Len(t) = Len(s) + 1 /\ t[Len(s) + 1] = e
      /\ \A i \in 1 .. Len(s) : t[i] = s[i]
  BY <1>2, AppendProperties
<1> HIDE DEF t
<1>4. t = [i \in 1 .. Len(t) |-> t[i]]
  BY <1>3, LenProperties
<1> QED BY <1>1, <1>3, <1>4 DEF IsList, t

LEMMA ListTail ==
    ASSUME NEW s, IsList(s), s # <<>>
    PROVE  /\ IsList(Tail(s)) /\ Len(Tail(s)) = Len(s) - 1 /\ Len(s) \in Nat \ {0}
           /\ Head(s) = s[1] /\ \A i \in 1 .. Len(s) - 1 : Tail(s)[i] = s[i + 1]
<1> DEFINE S == {s[i] : i \in 1 .. Len(s)}
           t == Tail(s)
<1>1. Len(s) \in Nat /\ s = [i \in 1 .. Len(s) |-> s[i]]
  BY DEF IsList
<1>2. s \in Seq(S)
  <2>1. [i \in 1 .. Len(s) |-> s[i]] \in [1 .. Len(s) -> S]
    OBVIOUS
  <2> QED BY <1>1, <2>1
<1> HIDE DEF S
<1>3. Len(s) # 0
  BY <1>2, EmptySeq
<1>4. t \in Seq(S) /\ Len(t) = Len(s) - 1 /\ Head(s) = s[1]
      /\ \A i \in 1 .. Len(t) : t[i] = s[i + 1]
  BY <1>2, HeadTailProperties
<1> HIDE DEF t
<1>5. t = [i \in 1 .. Len(t) |-> t[i]] /\ Len(t) \in Nat
  BY <1>4, LenProperties
<1> QED BY <1>1, <1>3, <1>4, <1>5 DEF IsList, t

LEMMA RecordQuiet ==
    ASSUME RecordInv, UNCHANGED <<commits, lastTrades, seenTrades>>,
           task'.seen = task.seen, task'.known = task.known, pc = "process" => pc' = "process"
    PROVE  RecordInv'
BY DEF RecordInv

LEMMA RecordDelivered ==
    ASSUME RecordInv, NEW new, commits' = Append(commits, new),
           seenTrades' = seenTrades \cup new, UNCHANGED <<task, pc, lastTrades>>
    PROVE  RecordInv'
<1>1. /\ IsList(commits') /\ Len(commits') = Len(commits) + 1 /\ Len(commits) \in Nat
      /\ \A i \in 1 .. Len(commits) : commits'[i] = commits[i]
      /\ commits'[Len(commits) + 1] = new
  BY ListAppend DEF RecordInv
<1>2. \A i \in 1 .. Len(commits') : commits'[i] \subseteq seenTrades'
  <2>1. \A i \in 1 .. Len(commits') : i \in 1 .. Len(commits) \/ i = Len(commits) + 1
    BY <1>1
  <2> QED BY <1>1, <2>1 DEF RecordInv
<1>3. lastTrades \subseteq seenTrades' /\ task.seen \subseteq {x \in seenTrades' : x.order \in task.known}
  BY DEF RecordInv
<1>4. ASSUME NEW x \in seenTrades', x.order \in task.known
      PROVE  \/ x \in task.seen
             \/ pc = "process" /\ x \in lastTrades
             \/ \E i \in 1 .. Len(commits') : x \in commits'[i]
  <2>1. CASE x \in new
    <3>1. Len(commits) + 1 \in 1 .. Len(commits')
      BY <1>1
    <3> QED BY <1>1, <2>1, <3>1
  <2>2. CASE x \in seenTrades
    <3>1. \A i \in 1 .. Len(commits) : i \in 1 .. Len(commits')
      BY <1>1
    <3> QED BY <1>1, <1>4, <2>2, <3>1 DEF RecordInv
  <2> QED BY <2>1, <2>2
<1> QED BY <1>1, <1>2, <1>3, <1>4 DEF RecordInv

LEMMA RecordTaken ==
    ASSUME RecordInv, TakeCommit("process")
    PROVE  RecordInv'
<1>1. pc = "idle" /\ pc' = "process" /\ UNCHANGED <<task, seenTrades>>
  BY DEF TakeCommit
<1>2. CASE commits = <<>> /\ UNCHANGED <<lastTrades, commits>>
  BY <1>1, <1>2 DEF RecordInv
<1>3. CASE commits # <<>> /\ lastTrades' = Head(commits) /\ commits' = Tail(commits)
  <2>1. /\ IsList(commits') /\ Len(commits') = Len(commits) - 1 /\ Len(commits) \in Nat \ {0}
        /\ lastTrades' = commits[1]
        /\ \A i \in 1 .. Len(commits) - 1 : commits'[i] = commits[i + 1]
    BY <1>3, ListTail DEF RecordInv
  <2>2. 1 \in 1 .. Len(commits) /\ \A i \in 1 .. Len(commits) - 1 : i + 1 \in 1 .. Len(commits)
    BY <2>1
  <2>3. \A i \in 1 .. Len(commits') : commits'[i] \subseteq seenTrades
    BY <2>1, <2>2 DEF RecordInv
  <2>4. lastTrades' \subseteq seenTrades
    BY <2>1, <2>2 DEF RecordInv
  <2>5. ASSUME NEW x \in seenTrades, x.order \in task.known
        PROVE  \/ x \in task.seen \/ x \in lastTrades'
               \/ \E i \in 1 .. Len(commits') : x \in commits'[i]
    <3>1. x \in task.seen \/ \E i \in 1 .. Len(commits) : x \in commits[i]
      BY <1>1, <2>5 DEF RecordInv
    <3>2. ASSUME NEW i \in 1 .. Len(commits), x \in commits[i], i # 1
          PROVE  \E j \in 1 .. Len(commits') : x \in commits'[j]
      <4>1. i - 1 \in 1 .. Len(commits) - 1 /\ (i - 1) + 1 = i
        BY <2>1, <3>2
      <4> QED BY <2>1, <3>2, <4>1
    <3> QED BY <2>1, <3>1, <3>2
  <2> QED BY <1>1, <2>1, <2>3, <2>4, <2>5 DEF RecordInv
<1> QED BY <1>2, <1>3 DEF TakeCommit

LEMMA RecordProcessed ==
    ASSUME RecordInv, task'.seen = task.seen \cup NewTrades(task), task'.known = task.known,
           UNCHANGED <<commits, lastTrades, seenTrades>>
    PROVE  RecordInv'
BY DEF RecordInv, NewTrades

LEMMA RecordInserted ==
    ASSUME RecordInv, ExchangeInv, NEW id, id \notin Used, task'.seen = task.seen,
           task'.known = task.known \cup {id}, pc # "process",
           UNCHANGED <<commits, lastTrades, seenTrades>>
    PROVE  RecordInv'
<1>1. \A x \in seenTrades : x.order # id
  BY DEF ExchangeInv, TradeInv
<1> QED BY <1>1 DEF RecordInv

-----------------------------------------------------------------------------
(* The steps of the callers, of the host and of the exchange.              *)

LEMMA CallerSteps ==
    ASSUME TaskInv,
           \/ CheckOpen \/ (\E v \in setup.targets : SetTarget(v)) \/ PublishTarget
           \/ CancelTask \/ DropTask
    PROVE  TaskInv'
<1>1. UNCHANGED <<exchange, runtime, host>>
  BY DEF CheckOpen, SetTarget, PublishTarget, CancelTask, DropTask
<1>2. /\ UNCHANGED <<orders, pos, trades, seenOrders, seenPos, seenTrades, commits>>
      /\ UNCHANGED <<pc, todo, after, lastTrades, wanted>>
  BY <1>1 DEF exchange, runtime, host
<1>3. DOMAIN task = TaskFields
  BY DEF TaskInv, KnownInv
<1>4. /\ DOMAIN task' = TaskFields /\ task'.known = task.known /\ task'.tracked = task.tracked
      /\ task'.seen = task.seen /\ task'.reached = task.reached /\ task'.applied = task.applied
      /\ \/ /\ task'.seq = task.seq /\ setting' = "stored" /\ task'.finished = task.finished
            /\ task'.failed = task.failed /\ task'.dropped = task.dropped
         \/ task' = task /\ setting # "stored"
         \/ /\ task'.seq = task.seq + 1 /\ task'.finished = task.finished
            /\ task'.failed = task.failed /\ task'.dropped = task.dropped
         \/ /\ task'.seq = task.seq /\ task'.target = task.target /\ setting' = setting
            /\ \/ task'.finished = task.finished /\ ~task.finished
               \/ task'.dropped = TRUE /\ pc = "idle"
  <2>1. CASE \E v \in setup.targets : SetTarget(v)
    BY <1>3, <2>1 DEF SetTarget, TaskFields
  <2>2. CASE PublishTarget
    BY <1>3, <2>2 DEF PublishTarget, TaskFields
  <2>3. CASE CancelTask
    BY <1>3, <2>3 DEF CancelTask, TaskFields
  <2>4. CASE DropTask
    BY <1>3, <2>4 DEF DropTask, Finish, TaskFields
  <2>5. CASE CheckOpen
    BY <1>3, <2>5 DEF CheckOpen
  <2> QED BY <2>1, <2>2, <2>3, <2>4, <2>5
<1>5. ExchangeInv' /\ Settled
  BY <1>2, ExchangeQuiet DEF TaskInv
<1>6. KnownInv'
  BY <1>2, <1>4, <1>5 DEF TaskInv, KnownInv, Settled, SeenDone
<1>7. RequestInv'
  <2>1. /\ task.seq \in Nat /\ task.reached \in Nat /\ wanted.seq \in Nat
        /\ task.reached <= task.seq /\ wanted.seq <= task.seq
        /\ pc = "plan" /\ wanted.seq = task.seq /\ setting # "stored" => wanted.target = task.target
        /\ pc = "cancelling" => after \in {"returned", "cancelled", "stop", "nextStep"}
    BY DEF TaskInv, RequestInv
  <2> QED BY <1>2, <1>4, <2>1 DEF RequestInv
<1>8. ReachInv'
  <2>1. task.seq \in Nat /\ task.reached \in Nat /\ task.reached <= task.seq
    BY DEF TaskInv, RequestInv
  <2> QED BY <1>2, <1>4, <2>1 DEF TaskInv, ReachInv
<1>9. FinishInv'
  BY <1>2, <1>4 DEF TaskInv, FinishInv
<1>10. RecordInv'
  BY <1>2, <1>4, RecordQuiet DEF TaskInv
<1> QED BY <1>5, <1>6, <1>7, <1>8, <1>9, <1>10 DEF TaskInv

LEMMA EnvironmentSteps ==
    ASSUME TaskInv, Environment
    PROVE  TaskInv'
<1>1. ExchangeInv' /\ Settled /\ UNCHANGED <<task, host, setting>>
  BY EnvironmentMoves DEF TaskInv
<1>2. UNCHANGED <<pc, todo, after, lastTrades, wanted>>
  BY <1>1 DEF host
<1>3. KnownInv'
  BY <1>1 DEF TaskInv, KnownInv, Settled, SeenDone, Used
<1>4. RequestInv' /\ FinishInv'
  BY <1>1, <1>2 DEF TaskInv, RequestInv, FinishInv
<1>5. CASE UNCHANGED <<seenPos, seenTrades, commits>>
  BY <1>1, <1>2, <1>3, <1>4, <1>5, RecordQuiet DEF TaskInv, ReachInv
<1>6. CASE Deliver
  <2>1. /\ seenPos'.volume = pos /\ seenTrades' = trades
        /\ commits' = Append(commits, trades \ seenTrades)
    BY <1>6 DEF Deliver, Snapshot
  <2>2. task.tracked = {} => seenPos'.volume = seenPos.volume
    BY <2>1, NothingAlive DEF TaskInv
  <2>3. ReachInv'
    BY <1>1, <1>2, <2>2 DEF TaskInv, ReachInv
  <2>4. seenTrades' = seenTrades \cup (trades \ seenTrades)
    BY <2>1 DEF TaskInv, ExchangeInv, TradeInv
  <2>5. RecordInv'
    BY <1>1, <1>2, <2>1, <2>4, RecordDelivered DEF TaskInv
  <2> QED BY <1>1, <1>3, <1>4, <2>3, <2>5 DEF TaskInv
<1>7. CASE \E p \in Prices : Tick(p)
  <2>1. UNCHANGED <<seenPos, seenTrades>> /\ commits' = Append(commits, {})
    BY <1>7 DEF Tick
  <2>2. ReachInv'
    BY <1>1, <1>2, <2>1 DEF TaskInv, ReachInv
  <2>3. RecordInv'
    <3>1. seenTrades' = seenTrades \cup {}
      BY <2>1
    <3> QED BY <1>1, <1>2, <2>1, <3>1, RecordDelivered DEF TaskInv
  <2> QED BY <1>1, <1>3, <1>4, <2>2, <2>3 DEF TaskInv
<1>8. Exchange => UNCHANGED <<seenPos, seenTrades, commits>>
  BY DEF Exchange, Accept, End, Fill, runtime
<1> QED BY <1>5, <1>6, <1>7, <1>8 DEF Environment

LEMMA HostSteps ==
    ASSUME TaskInv, WaitUpdate \/ HostReturn
    PROVE  TaskInv'
<1>1. UNCHANGED <<orders, pos, trades, seenOrders, seenPos, seenTrades, task, setting, wanted>>
  BY DEF WaitUpdate, TakeCommit, HostReturn, Goto, exchange, runtime
<1>2. ExchangeInv' /\ Settled
  BY <1>1, ExchangeQuiet DEF TaskInv
<1>3. KnownInv'
  BY <1>1, <1>2 DEF TaskInv, KnownInv, Settled, SeenDone, Used
<1>4. (~task.finished /\ pc' = "process") \/ pc' = "idle"
  BY DEF WaitUpdate, TakeCommit, HostReturn, Goto
<1>5. RequestInv' /\ ReachInv' /\ FinishInv'
  BY <1>1, <1>4 DEF TaskInv, RequestInv, ReachInv, FinishInv
<1>6. CASE WaitUpdate
  BY <1>2, <1>3, <1>5, <1>6, RecordTaken DEF WaitUpdate, TaskInv
<1>7. CASE HostReturn
  <2>1. UNCHANGED <<commits, lastTrades>> /\ pc # "process"
    BY <1>7 DEF HostReturn, Goto, runtime
  <2> QED BY <1>1, <1>2, <1>3, <1>5, <2>1, RecordQuiet DEF TaskInv
<1> QED BY <1>6, <1>7

-----------------------------------------------------------------------------
(* The steps of the task.                                                  *)

LEMMA ProcessKeeps ==
    ASSUME TaskInv, Process
    PROVE  RequestInv' /\ ReachInv' /\ FinishInv' /\ RecordInv'
<1>1. pc = "process"
  BY DEF Process
<1>2. /\ SameTask(task, task') /\ SameRequest(task, task')
      /\ task'.seen = task.seen \cup NewTrades(task)
      /\ \/ pc' = "cancelling" /\ after' = "cancelled" /\ wanted' = wanted
         \/ pc' \in {"cancelled", "returned"} /\ wanted' = wanted
         \/ /\ pc' = "plan" /\ wanted' = [seq |-> task.seq, target |-> task.target]
            /\ task.seq # 0 /\ ~(task.reached >= task.seq)
      /\ lastTrades' = lastTrades /\ UNCHANGED <<runtime, setting>>
  BY ProcessStep DEF TaskInv
<1>3. /\ task'.seq = task.seq /\ task'.target = task.target /\ task'.reached = task.reached
      /\ task'.applied = task.applied /\ task'.finished = task.finished
      /\ task'.known = task.known /\ task'.tracked \subseteq task.tracked
  BY <1>2 DEF SameTask, SameOrders, SameRequest
<1>4. UNCHANGED <<seenPos, seenTrades, commits>>
  BY <1>2 DEF runtime
<1>5. /\ task.seq \in Nat /\ task.reached \in Nat /\ wanted.seq \in Nat
      /\ task.reached <= task.seq /\ wanted.seq <= task.seq
  BY DEF TaskInv, RequestInv
<1>6. RequestInv'
  <2>1. wanted' = wanted \/ (wanted'.seq = task.seq /\ wanted'.target = task.target)
    BY <1>2
  <2>2. pc' = "plan" => wanted'.target = task.target
    BY <1>2
  <2>3. pc' = "cancelling" => after' = "cancelled"
    BY <1>2
  <2> QED BY <1>3, <1>5, <2>1, <2>2, <2>3 DEF RequestInv
<1>7. ReachInv'
  BY <1>2, <1>3, <1>4, <1>5 DEF TaskInv, ReachInv
<1>8. FinishInv'
  BY <1>1, <1>3 DEF TaskInv, FinishInv
<1>9. RecordInv'
  BY <1>2, <1>3, <1>4, RecordProcessed DEF TaskInv
<1> QED BY <1>6, <1>7, <1>8, <1>9

LEMMA PlanKeeps ==
    ASSUME TaskInv, Plan
    PROVE  RequestInv' /\ ReachInv' /\ FinishInv' /\ RecordInv'
<1>1. pc = "plan"
  BY DEF Plan
<1>2. /\ SameTask(task, task') /\ task'.seen = task.seen /\ wanted' = wanted
      /\ \/ /\ SameRequest(task, task')
            /\ pc' \in {"returned", "inserting"} \/ (pc' = "cancelling" /\ after' = "returned")
         \/ /\ task'.tracked = {} /\ NetPosition(seenPos.volume) = wanted.target
            /\ task'.applied = wanted.target /\ task'.reached = wanted.seq
            /\ pc' = "returned"
      /\ UNCHANGED <<runtime, setting>>
  BY PlanStep DEF TaskInv
<1>3. /\ task'.seq = task.seq /\ task'.target = task.target
      /\ task'.finished = task.finished /\ task'.known = task.known
  BY <1>2 DEF SameTask, SameOrders
<1>4. UNCHANGED <<seenPos, seenTrades, commits, lastTrades>>
  <2>1. UNCHANGED lastTrades
    BY DEF Plan, ReachOrSubmit, HandleLiveOrders, SubmitBatch, CancelOrders, Return, Goto
  <2> QED BY <1>2, <2>1 DEF runtime
<1>5. /\ task.seq \in Nat /\ task.reached \in Nat /\ wanted.seq \in Nat
      /\ task.reached <= task.seq /\ wanted.seq <= task.seq
      /\ wanted.seq = task.seq /\ setting # "stored" => wanted.target = task.target
  BY <1>1 DEF TaskInv, RequestInv
<1>6. RequestInv'
  <2>1. task'.reached \in Nat /\ task'.reached <= task.seq
    BY <1>2, <1>5 DEF SameRequest
  <2> QED BY <1>2, <1>3, <1>5, <2>1 DEF RequestInv
<1>7. ReachInv'
  <2>1. CASE SameRequest(task, task')
    BY <1>1, <1>2, <1>3, <2>1 DEF TaskInv, ReachInv, SameRequest
  <2>2. CASE /\ task'.tracked = {} /\ NetPosition(seenPos.volume) = wanted.target
             /\ task'.applied = wanted.target /\ task'.reached = wanted.seq
             /\ pc' = "returned"
    BY <1>2, <1>3, <1>4, <1>5, <2>2 DEF ReachInv
  <2> QED BY <1>2, <2>1, <2>2
<1>8. FinishInv'
  BY <1>1, <1>3 DEF TaskInv, FinishInv
<1>9. RecordInv'
  BY <1>1, <1>2, <1>3, <1>4, RecordQuiet DEF TaskInv
<1> QED BY <1>6, <1>7, <1>8, <1>9

LEMMA CancelKeeps ==
    ASSUME TaskInv, Cancelled \/ SendCancel
    PROVE  RequestInv' /\ ReachInv' /\ FinishInv' /\ RecordInv'
<1>1. pc \in {"cancelled", "cancelling"}
  BY DEF Cancelled, SendCancel
<1>2. /\ SameOrders(task, task') /\ SameRequest(task, task') /\ task'.seen = task.seen
      /\ wanted' = wanted /\ UNCHANGED <<runtime, setting>>
  BY CancelledStep, SendCancelStep DEF TaskInv
<1>3. /\ task'.seq = task.seq /\ task'.target = task.target /\ task'.reached = task.reached
      /\ task'.applied = task.applied /\ task'.known = task.known
      /\ task'.tracked \subseteq task.tracked
  BY <1>2 DEF SameOrders, SameRequest
<1>4. UNCHANGED <<seenPos, seenTrades, commits, lastTrades>>
  <2>1. UNCHANGED lastTrades
    BY DEF Cancelled, SendCancel, Return, Goto, RecordError
  <2> QED BY <1>2, <2>1 DEF runtime
<1>5. \/ pc' = "returned" \/ (pc' = "cancelling" /\ after' \in {"returned", "cancelled", "stop", "nextStep"})
      \/ pc' \in {"returned", "cancelled", "stop", "nextStep", "failing"}
  <2>1. CASE Cancelled
    BY <2>1, CancelledStep DEF TaskInv
  <2>2. CASE SendCancel
    <3>1. after \in {"returned", "cancelled", "stop", "nextStep"}
      BY <2>2 DEF SendCancel, TaskInv, RequestInv
    <3> QED BY <2>2, <3>1, SendCancelStep DEF TaskInv
  <2> QED BY <2>1, <2>2
<1>6. RequestInv'
  BY <1>2, <1>3, <1>5 DEF TaskInv, RequestInv
<1>7. ReachInv'
  BY <1>2, <1>3, <1>4, <1>5 DEF TaskInv, ReachInv
<1>8. FinishInv'
  <2>1. ~task.finished
    BY <1>1 DEF TaskInv, FinishInv
  <2>2. CASE Cancelled
    BY <2>1, <2>2, CancelledStep DEF TaskInv, FinishInv
  <2>3. CASE SendCancel
    BY <2>1, <2>3, SendCancelStep DEF TaskInv, FinishInv, SameTask
  <2> QED BY <2>2, <2>3
<1>9. RecordInv'
  BY <1>1, <1>2, <1>3, <1>4, RecordQuiet DEF TaskInv
<1> QED BY <1>6, <1>7, <1>8, <1>9

LEMMA InsertKeeps ==
    ASSUME TaskInv, SendInsert
    PROVE  RequestInv' /\ ReachInv' /\ FinishInv' /\ RecordInv'
<1>1. pc = "inserting"
  BY DEF SendInsert
<1>2. /\ SameRequest(task, task') /\ task'.seen = task.seen
      /\ task'.target = task.target /\ task'.seq = task.seq
      /\ \/ \E id \in Orders \ Used :
               /\ Used' = Used \cup {id} /\ task'.known = task.known \cup {id}
               /\ task'.tracked = task.tracked \cup {id}
               /\ task'.finished = task.finished /\ pc' \in {"inserting", "returned"}
         \/ SameTask(task, task') /\ Used' = Used /\ pc' \in {"failing", "stopping"}
      /\ wanted' = wanted /\ lastTrades' = lastTrades /\ UNCHANGED <<runtime, setting>>
  BY SendInsertStep DEF TaskInv
<1>3. UNCHANGED <<seenPos, seenTrades, commits>>
  BY <1>2 DEF runtime
<1>4. RequestInv' /\ ReachInv'
  BY <1>1, <1>2 DEF TaskInv, RequestInv, ReachInv, SameRequest
<1>5. FinishInv'
  BY <1>1, <1>2 DEF TaskInv, FinishInv, SameTask
<1>6. RecordInv'
  <2>1. CASE \E id \in Orders \ Used : task'.known = task.known \cup {id}
    BY <1>1, <1>2, <1>3, <2>1, RecordInserted DEF TaskInv
  <2>2. CASE SameOrders(task, task')
    BY <1>1, <1>2, <1>3, <2>2, RecordQuiet DEF TaskInv, SameOrders
  <2> QED BY <1>2, <2>1, <2>2 DEF SameTask
<1> QED BY <1>4, <1>5, <1>6

LEMMA ErrorKeeps ==
    ASSUME TaskInv, FinishWithError \/ StopAfterError
    PROVE  RequestInv' /\ ReachInv' /\ FinishInv' /\ RecordInv'
<1>1. /\ pc \in {"failing", "stopping"} /\ pc' = "returned"
      /\ SameOrders(task, task') /\ SameRequest(task, task') /\ task'.seen = task.seen
      /\ \/ task'.finished = TRUE /\ task'.failed = TRUE
         \/ task'.finished = task.finished
      /\ wanted' = wanted /\ lastTrades' = lastTrades /\ UNCHANGED <<runtime, setting>>
  BY ErrorStep DEF TaskInv
<1>2. /\ task'.seq = task.seq /\ task'.target = task.target /\ task'.reached = task.reached
      /\ task'.applied = task.applied /\ task'.known = task.known
      /\ task'.tracked \subseteq task.tracked
  BY <1>1 DEF SameOrders, SameRequest
<1>3. UNCHANGED <<seenPos, seenTrades, commits>>
  BY <1>1 DEF runtime
<1>4. RequestInv' /\ ReachInv'
  BY <1>1, <1>2, <1>3 DEF TaskInv, RequestInv, ReachInv
<1>5. FinishInv'
  BY <1>1 DEF TaskInv, FinishInv
<1>6. RecordInv'
  BY <1>1, <1>2, <1>3, RecordQuiet DEF TaskInv
<1> QED BY <1>4, <1>5, <1>6

-----------------------------------------------------------------------------
(* The invariant of the specification.                                     *)

LEMMA InitKeeps == Init => TaskInv
<1> SUFFICES ASSUME Init PROVE TaskInv
  OBVIOUS
<1>1. /\ \A o \in Orders : orders[o] = NoOrder /\ seenOrders[o] = NoOrder
      /\ orders = [o \in Orders |-> orders[o]] /\ seenOrders = [o \in Orders |-> seenOrders[o]]
  BY DEF Init
<1>2. DOMAIN NoOrder = OrderFields /\ NoOrder.state = "none"
  BY DEF NoOrder, OrderFields
<1>3. Used = {}
  BY <1>1, <1>2 DEF Used
<1>4. OrderInv
  <2>1. Cardinality({}) = 0 /\ {} = 1 .. 0
    BY FS_EmptySet
  <2> QED BY <1>1, <1>2, <1>3, <2>1 DEF OrderInv, SeenDone
<1>5. PosInv /\ TradeInv
  BY DEF Init, PosInv, TradeInv, Snapshot
<1>6. KnownInv /\ RequestInv /\ ReachInv /\ FinishInv
  BY <1>3 DEF Init, IdleTask, TaskFields, KnownInv, RequestInv, ReachInv, FinishInv
<1>7. RecordInv
  <2>1. IsList(<<>>) /\ Len(<<>>) = 0
    <3>1. Len(<<>>) = 0 /\ DOMAIN <<>> = {} /\ 1 .. 0 = {}
      OBVIOUS
    <3>2. <<>> = [i \in 1 .. 0 |-> <<>>[i]]
      OBVIOUS
    <3> QED BY <3>1, <3>2 DEF IsList
  <2> QED BY <2>1 DEF Init, IdleTask, RecordInv
<1> QED BY <1>4, <1>5, <1>6, <1>7 DEF TaskInv, ExchangeInv

LEMMA StepKeeps == TaskInv /\ [Next]_vars => TaskInv'
<1> SUFFICES ASSUME TaskInv, [Next]_vars PROVE TaskInv'
  OBVIOUS
<1>1. CASE UNCHANGED vars
  <2>1. /\ UNCHANGED <<orders, pos, trades, seenOrders, seenPos, seenTrades, commits>>
        /\ UNCHANGED <<task, pc, after, lastTrades, wanted, setting>>
    BY <1>1 DEF vars, exchange, runtime, host
  <2>2. ExchangeInv' /\ Settled
    BY <2>1, ExchangeQuiet DEF TaskInv
  <2>3. KnownInv' /\ RequestInv' /\ ReachInv' /\ FinishInv' /\ RecordInv'
    BY <2>1, <2>2, RecordQuiet
       DEF TaskInv, KnownInv, RequestInv, ReachInv, FinishInv, Settled, SeenDone
  <2> QED BY <2>2, <2>3 DEF TaskInv
<1>2. CASE \/ CheckOpen \/ (\E v \in setup.targets : SetTarget(v)) \/ PublishTarget
           \/ CancelTask \/ DropTask
  BY <1>2, CallerSteps
<1>3. CASE Environment
  BY <1>3, EnvironmentSteps
<1>4. CASE WaitUpdate \/ HostReturn
  BY <1>4, HostSteps
<1>5. CASE TaskSteps
  <2>1. ExchangeInv' /\ KnownInv'
    BY <1>5, TaskStepsKeep DEF TaskInv
  <2>2. RequestInv' /\ ReachInv' /\ FinishInv' /\ RecordInv'
    BY <1>5, ProcessKeeps, PlanKeeps, CancelKeeps, InsertKeeps, ErrorKeeps DEF TaskSteps
  <2> QED BY <2>1, <2>2 DEF TaskInv
<1> QED BY <1>1, <1>2, <1>3, <1>4, <1>5 DEF Next

(* When reached_tx announces the last request, the exchange really holds   *)
(* the target position and no order of the task is alive, however late the *)
(* commits come and whatever callers set meanwhile (mark_target_reached of *)
(* target_pos/machine.rs).                                                 *)
THEOREM ReachedMeansHeld == Spec => []ReachedIsFact
<1>1. TaskInv => ReachedIsFact
  <2> SUFFICES ASSUME TaskInv, task.seq > 0, task.reached = task.seq, setting # "stored"
               PROVE  /\ NetPosition(pos) = task.target /\ task.applied = task.target
                      /\ \A o \in task.known : ~Alive(o)
    BY DEF ReachedIsFact
  <2>1. /\ task.tracked = {} /\ task.applied = task.target
        /\ NetPosition(seenPos.volume) = task.target
    BY DEF TaskInv, ReachInv
  <2>2. seenPos.volume = pos /\ \A o \in Orders : ~Alive(o)
    BY <2>1, NothingAlive DEF TaskInv
  <2>3. task.known \subseteq Orders
    BY DEF TaskInv, KnownInv, Used
  <2> QED BY <2>1, <2>2, <2>3
<1> QED BY InitKeeps, StepKeeps, <1>1, PTL DEF Spec

(* A task that neither a failed command ended nor its owner dropped leaves *)
(* no order at the exchange, also when a target was being set while it was *)
(* cancelled, or when a batch broke off after its first orders             *)
(* (process_cancel_requested of target_pos/machine.rs).                    *)
THEOREM FinishedTaskIsClean == Spec => []CleanFinish
<1>1. TaskInv => CleanFinish
  <2> SUFFICES ASSUME TaskInv, task.finished, ~task.failed, ~task.dropped
               PROVE  \A o \in task.known : ~Alive(o)
    BY DEF CleanFinish
  <2>1. task.tracked = {}
    BY DEF TaskInv, FinishInv
  <2>2. (\A o \in Orders : ~Alive(o)) /\ task.known \subseteq Orders
    BY <2>1, NothingAlive DEF TaskInv, KnownInv, Used
  <2> QED BY <2>2
<1> QED BY InitKeeps, StepKeeps, <1>1, PTL DEF Spec

(* Every trade of the task's orders in the commits taken so far is in its  *)
(* record, also of orders that were pruned before the commit was taken     *)
(* (record_commit_trades of target_pos/machine.rs).                        *)
THEOREM NoTradeIsMissed == Spec => []TradesRecorded
<1>1. TaskInv => TradesRecorded
  <2> SUFFICES ASSUME TaskInv, commits = <<>>, pc # "process"
               PROVE  task.seen = {x \in seenTrades : x.order \in task.known}
    BY DEF TradesRecorded
  <2>1. Len(commits) = 0 /\ 1 .. 0 = {}
    OBVIOUS
  <2> QED BY <2>1 DEF TaskInv, RecordInv
<1> QED BY InitKeeps, StepKeeps, <1>1, PTL DEF Spec

-----------------------------------------------------------------------------
(* How far the position may still move.                                    *)

Directions == {"buy", "sell"}
Offsets == {"open", "close", "closeToday"}

(* The volumes that orders of a direction take from: each kind of closing  *)
(* order from the positions it closes, and all orders from the distance to *)
(* a volume asked for.                                                     *)
ClosingKinds == IF setup.shfe THEN {{"closeToday"}, {"close"}} ELSE {{"close", "closeToday"}}

Stock(p, d, offs) ==
    CASE offs = Offsets -> IF d = "buy" THEN -NetPosition(p) ELSE NetPosition(p)
      [] offs = {"closeToday"} -> p[Today(d)]
      [] offs = {"close"} -> p[History(d)]
      [] offs = {"close", "closeToday"} -> p[Today(d)] + p[History(d)]
Toward(d, v) == IF d = "buy" THEN v ELSE -v

AliveOf(d, offs) == {o \in Orders : /\ Alive(o) /\ orders[o].direction = d
                                    /\ orders[o].offset \in offs}
SeenLiveOf(d, offs) == {o \in Orders : /\ seenOrders[o].state = "live"
                                       /\ seenOrders[o].direction = d
                                       /\ seenOrders[o].offset \in offs}
SeenLefts == [o \in Orders |-> seenOrders[o].left]

(* What is left of a stock when every order alive is filled; and what is   *)
(* left of it as far as the runtime state shows.                           *)
Spare(d, offs) == Stock(pos, d, offs) - Unfilled(AliveOf(d, offs))
SeenOut(d, offs) == SumFunctionOnSet(SeenLefts, SeenLiveOf(d, offs))
SeenSpare(d, offs) == Stock(seenPos.volume, d, offs) - SeenOut(d, offs)

(* The orders of a batch: all in one direction.                            *)
Share(x, offs) == IF x.offset \in offs THEN x.volume ELSE 0
LeftShare(o, offs) == IF o.offset \in offs THEN o.left ELSE 0
Volumes(q, offs) == [i \in 1 .. Len(q) |-> Share(q[i], offs)]
Volume(q, offs) == SumFunctionOnSet(Volumes(q, offs), 1 .. Len(q))
IsPlan(q, d) ==
    /\ IsList(q)
    /\ \A i \in 1 .. Len(q) : /\ q[i].direction = d /\ q[i].offset \in Offsets
                              /\ q[i].volume \in Nat \ {0}
PricedFields == {"direction", "offset", "volume", "price"}
IsBatch(q, d) == IsPlan(q, d) /\ \A i \in 1 .. Len(q) : DOMAIN q[i] = PricedFields

PositionType == [{"longToday", "longHis", "shortToday", "shortHis"} -> Nat]
OrderTypes ==
    /\ setup \in Setups /\ pos \in PositionType /\ seenPos.volume \in PositionType
    /\ \A o \in Orders :
          /\ orders[o].left \in Nat /\ orders[o].direction \in Directions
          /\ orders[o].offset \in Offsets
          /\ orders[o].offset = "closeToday" => setup.shfe
          /\ orders[o].state = "none" => orders[o] = NoOrder
SeenTypes ==
    /\ \A o \in Orders : orders[o].state = "none" => seenOrders[o] = NoOrder
    /\ \A o \in Orders :
          \/ seenOrders[o] = NoOrder
          \/ /\ seenOrders[o].state \in {"live", "done"} /\ seenOrders[o].left \in Nat
             /\ seenOrders[o].direction = orders[o].direction
             /\ seenOrders[o].offset = orders[o].offset
    /\ \A d \in Directions : /\ seenPos.frozenToday[d] = SeenOut(d, {"closeToday"})
                             /\ seenPos.frozenHis[d] = SeenOut(d, {"close"})

(* Once every order has been reported, less is spare in the state than in  *)
(* truth.                                                                  *)
AllSeen == \A o \in Used : seenOrders[o] # NoOrder
SpareInv ==
    AllSeen => \A d \in Directions, offs \in ClosingKinds \cup {Offsets} :
                  SeenSpare(d, offs) <= Spare(d, offs)

WantedInv ==
    /\ asked \subseteq Int
    /\ task.target # None => task.target \in asked
    /\ pc = "plan" => wanted.target \in asked

(* The orders still to be sent fit as well as those that are alive.        *)
Fits(q, d) ==
    /\ \E v \in asked : Volume(q, Offsets) <= Toward(d, v) + Spare(d, Offsets)
    /\ \A offs \in ClosingKinds : Volume(q, offs) <= Spare(d, offs)
    /\ ~setup.shfe => Volume(q, {"closeToday"}) = 0
RoomInv ==
    \A d \in Directions :
        /\ \E v \in Requested : 0 <= Toward(d, v) + Spare(d, Offsets)
        /\ \A offs \in ClosingKinds : 0 <= Spare(d, offs)
TodoInv ==
    pc = "inserting" => \E d \in Directions : IsBatch(todo, d) /\ todo # <<>> /\ Fits(todo, d)

ExposureInv == OrderTypes /\ SeenTypes /\ SpareInv /\ WantedInv /\ RoomInv /\ TodoInv

-----------------------------------------------------------------------------
(* The volume of a batch.                                                  *)

LEMMA FiniteInterval ==
    ASSUME NEW n \in Nat
    PROVE  IsFiniteSet(1 .. n)
BY FS_Interval

(* What a batch holds of a kind of order is a number.                      *)
LEMMA VolumesNat ==
    ASSUME NEW q, NEW d, NEW offs, IsPlan(q, d)
    PROVE  /\ Len(q) \in Nat /\ IsFiniteSet(1 .. Len(q))
           /\ \A i \in 1 .. Len(q) : Volumes(q, offs)[i] \in Nat
           /\ Volume(q, offs) \in Nat
<1>1. Len(q) \in Nat
  BY DEF IsPlan, IsList
<1>2. IsFiniteSet(1 .. Len(q))
  BY <1>1, FiniteInterval
<1>3. \A i \in 1 .. Len(q) : Volumes(q, offs)[i] \in Nat
  BY DEF IsPlan, Volumes, Share
<1>4. Volume(q, offs) \in Nat
  BY <1>2, <1>3, SumIsNat DEF Volume
<1> QED BY <1>1, <1>2, <1>3, <1>4

LEMMA EmptyPlan ==
    ASSUME NEW d, NEW offs
    PROVE  IsBatch(<<>>, d) /\ IsPlan(<<>>, d) /\ Volume(<<>>, offs) = 0 /\ Len(<<>>) = 0
<1>1. Len(<<>>) = 0 /\ 1 .. 0 = {} /\ <<>> = [i \in 1 .. 0 |-> <<>>[i]]
  OBVIOUS
<1>2. IsList(<<>>)
  BY <1>1 DEF IsList
<1>3. Volume(<<>>, offs) = 0
  BY <1>1, SumEmpty DEF Volume
<1> QED BY <1>1, <1>2, <1>3 DEF IsBatch, IsPlan

(* An order added to a batch adds its volume to its kind.                  *)
LEMMA PlanAppend ==
    ASSUME NEW q, NEW d, NEW x, IsPlan(q, d),
           x.direction = d, x.offset \in Offsets, x.volume \in Nat \ {0}
    PROVE  /\ IsPlan(Append(q, x), d)
           /\ \A offs : Volume(Append(q, x), offs)
                          = Volume(q, offs) + Share(x, offs)
<1> DEFINE t == Append(q, x)
           n == Len(q)
<1>1. /\ IsList(t) /\ Len(t) = n + 1 /\ n \in Nat
      /\ (\A i \in 1 .. n : t[i] = q[i]) /\ t[n + 1] = x
  BY ListAppend DEF IsPlan
<1> HIDE DEF t
<1>2. IsPlan(t, d)
  BY <1>1 DEF IsPlan
<1>3. ASSUME NEW offs
      PROVE  Volume(t, offs) = Volume(q, offs) + Share(x, offs)
  <2> DEFINE f == Volumes(t, offs)
             g == Volumes(q, offs)
  <2>1. /\ IsFiniteSet(1 .. n) /\ n \in Nat /\ Volume(q, offs) \in Nat
        /\ \A i \in 1 .. n + 1 : f[i] \in Nat
    BY <1>1, <1>2, VolumesNat
  <2>2. \A i \in 1 .. n : f[i] = g[i]
    BY <1>1 DEF Volumes
  <2>3. f[n + 1] = Share(x, offs)
    BY <1>1 DEF Volumes
  <2>4. 1 .. n + 1 = (1 .. n) \cup {n + 1} /\ n + 1 \notin 1 .. n
    BY <2>1
  <2> HIDE DEF f, g, n
  <2>5. SumFunctionOnSet(f, (1 .. n) \cup {n + 1}) = f[n + 1] + SumFunctionOnSet(f, 1 .. n)
    BY <2>1, <2>4, SumAdd
  <2>6. SumFunctionOnSet(f, 1 .. n) = SumFunctionOnSet(g, 1 .. n)
    BY <2>1, <2>2, SumSame
  <2>7. Volume(t, offs) = SumFunctionOnSet(f, 1 .. n + 1)
        /\ Volume(q, offs) = SumFunctionOnSet(g, 1 .. n)
    BY <1>1 DEF Volume, f, g, n
  <2>8. Volume(t, offs) = f[n + 1] + Volume(q, offs) /\ f[n + 1] \in Nat
    BY <2>1, <2>4, <2>5, <2>6, <2>7
  <2> QED BY <2>1, <2>3, <2>8
<1> QED BY <1>2, <1>3 DEF t

(* u is q without its k-th entry.                                          *)
Without(u, q, k) ==
    /\ k \in 1 .. Len(q) /\ Len(u) = Len(q) - 1
    /\ \A i \in 1 .. Len(q) - 1 : u[i] = q[IF i < k THEN i ELSE i + 1]

(* A batch is an entry and the batch without it.                           *)
LEMMA VolumeWithout ==
    ASSUME NEW q, NEW u, NEW d, NEW k, NEW offs, IsPlan(q, d), IsPlan(u, d), Without(u, q, k)
    PROVE  Volume(q, offs) = Volume(u, offs) + Share(q[k], offs)
<1> DEFINE n == Len(q)
           S == 1 .. n - 1
           T == 1 .. n
           f == Volumes(q, offs)
           g == Volumes(u, offs)
           h == [i \in S |-> IF i < k THEN i ELSE i + 1]
<1>1. n \in Nat /\ k \in T /\ k \in Nat
  BY VolumesNat DEF Without
<1>2. IsFiniteSet(T) /\ \A i \in T : f[i] \in Nat
  BY VolumesNat
<1>3. IsFiniteSet(S) /\ (\A i \in S : g[i] \in Nat) /\ Volume(u, offs) \in Nat
  BY VolumesNat DEF Without
<1>4. \A i \in S : h[i] \in T \ {k}
  BY <1>1
<1>5. \A i \in S : g[i] = f[h[i]]
  BY <1>4 DEF Volumes, Without
<1>6. \A i, j \in S : h[i] = h[j] => i = j
  BY <1>1
<1>7. {h[i] : i \in S} = T \ {k}
  <2>1. ASSUME NEW j \in T \ {k} PROVE \E i \in S : h[i] = j
    <3>1. CASE j < k
      <4>1. j \in S /\ h[j] = j
        BY <1>1, <3>1
      <4> QED BY <4>1
    <3>2. CASE ~(j < k)
      <4>1. j - 1 \in S /\ h[j - 1] = j
        BY <1>1, <3>2
      <4> QED BY <4>1
    <3> QED BY <3>1, <3>2
  <2> HIDE DEF h, S, T
  <2> QED BY <1>4, <2>1
<1>8. f[k] = Share(q[k], offs)
  BY <1>1 DEF Volumes
<1>9. Volume(q, offs) = SumFunctionOnSet(f, T) /\ Volume(u, offs) = SumFunctionOnSet(g, S)
  BY DEF Volume, Without
<1> HIDE DEF f, g, h, n, S, T
<1>10. SumFunctionOnSet(g, S) = SumFunctionOnSet(f, {h[i] : i \in S})
  BY <1>3, <1>5, <1>6, SumReindex
<1>11. SumFunctionOnSet(f, T) = f[k] + SumFunctionOnSet(f, T \ {k})
  <2>1. IsFiniteSet(T) /\ (\A i \in T : f[i] \in Nat) /\ k \in T
    BY <1>1, <1>2
  <2> QED BY ONLY <2>1, SumRemove
<1>12. Volume(q, offs) = f[k] + Volume(u, offs) /\ f[k] \in Nat
  BY <1>1, <1>2, <1>7, <1>9, <1>10, <1>11
<1> QED BY <1>3, <1>8, <1>12

(* A batch that has been sent in part fits as well as before.              *)
LEMMA BatchTail ==
    ASSUME NEW q, NEW d, IsBatch(q, d), q # <<>>
    PROVE  /\ IsBatch(Tail(q), d) /\ Len(Tail(q)) = Len(q) - 1 /\ Len(q) \in Nat \ {0}
           /\ Head(q).direction = d /\ Head(q).offset \in Offsets
           /\ Head(q).volume \in Nat \ {0}
           /\ \A offs : Volume(q, offs)
                 = Volume(Tail(q), offs) + Share(Head(q), offs)
<1> DEFINE t == Tail(q)
           n == Len(q)
<1>1. /\ IsList(t) /\ Len(t) = n - 1 /\ n \in Nat \ {0} /\ Head(q) = q[1]
      /\ \A i \in 1 .. n - 1 : t[i] = q[i + 1]
  BY ListTail DEF IsBatch, IsPlan
<1> HIDE DEF t
<1>2. 1 \in 1 .. n /\ \A i \in 1 .. n - 1 : i + 1 \in 1 .. n
  BY <1>1
<1>3. IsBatch(t, d)
  <2>1. ASSUME NEW i \in 1 .. Len(t)
        PROVE  t[i] = q[i + 1] /\ i + 1 \in 1 .. Len(q)
    BY <1>1, <1>2
  <2>2. \A i \in 1 .. Len(q) : /\ q[i].direction = d /\ q[i].offset \in Offsets
                               /\ q[i].volume \in Nat \ {0} /\ DOMAIN q[i] = PricedFields
    BY DEF IsBatch, IsPlan
  <2>3. \A i \in 1 .. Len(t) : /\ t[i].direction = d /\ t[i].offset \in Offsets
                               /\ t[i].volume \in Nat \ {0} /\ DOMAIN t[i] = PricedFields
    BY <2>1, <2>2
  <2> QED BY <1>1, <2>3 DEF IsBatch, IsPlan
<1>4. ASSUME NEW offs
      PROVE  Volume(q, offs) = Volume(t, offs) + Share(q[1], offs)
  <2>1. Without(t, q, 1)
    BY <1>1, <1>2 DEF Without
  <2>2. IsPlan(q, d) /\ IsPlan(t, d)
    BY <1>3 DEF IsBatch
  <2> QED BY <2>1, <2>2, VolumeWithout
<1>5. q[1].direction = d /\ q[1].offset \in Offsets /\ q[1].volume \in Nat \ {0}
  BY <1>2 DEF IsBatch, IsPlan
<1> QED BY <1>1, <1>3, <1>4, <1>5 DEF t

(* consume_compatible_desired_order: the volume the order stands for is    *)
(* taken from one entry of the batch.                                      *)
LEMMA ConsumeFacts ==
    ASSUME NEW q, NEW d, NEW o, IsBatch(q, d), o.left \in Nat,
           \E i \in DOMAIN q : CanSatisfy(o, q[i])
    PROVE  /\ IsBatch(Consume(q, o), d) /\ o.direction = d
           /\ \A offs : Volume(q, offs)
                 = Volume(Consume(q, o), offs) + LeftShare(o, offs)
<1> DEFINE fits  == {i \in DOMAIN q : CanSatisfy(o, q[i])}
           exact == {i \in fits : q[i].volume = o.left}
           pool  == IF exact # {} THEN exact ELSE fits
           k     == CHOOSE i \in pool : \A j \in pool : i <= j
           n     == Len(q)
<1>1. n \in Nat /\ DOMAIN q = 1 .. n /\ q = [i \in 1 .. n |-> q[i]]
  BY DEF IsBatch, IsPlan, IsList
<1>2. k \in fits
  <2>1. pool \subseteq fits /\ pool # {} /\ pool \subseteq Nat
    BY <1>1
  <2> HIDE DEF pool
  <2>2. \E i \in pool : \A j \in pool : i <= j
    BY <2>1, LeastNat
  <2>3. k \in pool
    BY <2>2
  <2> HIDE DEF k, fits
  <2> QED BY <2>1, <2>3
<1>3. Consume(q, o) = IF q[k].volume = o.left THEN RemoveAt(q, k)
                      ELSE [q EXCEPT ![k].volume = @ - o.left]
  BY DEF Consume
<1> HIDE DEF k, pool, exact
<1>4. /\ k \in 1 .. n /\ o.direction = q[k].direction /\ o.offset = q[k].offset
      /\ o.left > 0 /\ o.left <= q[k].volume
  BY <1>1, <1>2 DEF CanSatisfy
<1>5. /\ q[k].direction = d /\ q[k].offset \in Offsets /\ q[k].volume \in Nat \ {0}
      /\ DOMAIN q[k] = PricedFields
  BY <1>4 DEF IsBatch, IsPlan
<1>6. CASE q[k].volume = o.left
  <2> DEFINE u == RemoveAt(q, k)
  <2>1. /\ IsList(u) /\ Len(u) = n - 1
        /\ \A i \in 1 .. n - 1 : u[i] = q[IF i < k THEN i ELSE i + 1]
    <3> DEFINE E == {q[i] : i \in 1 .. n}
    <3>1. q \in Seq(E)
      <4>1. [i \in 1 .. n |-> q[i]] \in [1 .. n -> E]
        OBVIOUS
      <4> QED BY <1>1, <4>1
    <3> HIDE DEF E
    <3> DEFINE a == SubSeq(q, 1, k - 1)
               b == SubSeq(q, k + 1, n)
    <3>2. /\ a \in Seq(E) /\ Len(a) = k - 1 /\ \A i \in 1 .. k - 1 : a[i] = q[i]
      BY <1>1, <1>4, <3>1
    <3>3. /\ b \in Seq(E) /\ Len(b) = n - k /\ \A i \in 1 .. n - k : b[i] = q[k + i]
      BY <1>1, <1>4, <3>1
    <3>4. u = a \o b
      BY DEF RemoveAt
    <3> HIDE DEF a, b, u
    <3>5. /\ u \in Seq(E) /\ Len(u) = n - 1
          /\ \A i \in 1 .. n - 1 : u[i] = IF i <= k - 1 THEN a[i] ELSE b[i - (k - 1)]
      <4>1. (k - 1) + (n - k) = n - 1
        BY <1>1, <1>4
      <4> QED BY <3>2, <3>3, <3>4, <4>1, ConcatProperties
    <3>6. u = [i \in 1 .. Len(u) |-> u[i]] /\ Len(u) \in Nat
      BY <3>5
    <3>7. ASSUME NEW i \in 1 .. n - 1 PROVE u[i] = q[IF i < k THEN i ELSE i + 1]
      <4>1. CASE i < k
        BY <1>1, <1>4, <3>2, <3>5, <4>1
      <4>2. CASE ~(i < k)
        <5>1. i - (k - 1) \in 1 .. n - k /\ k + (i - (k - 1)) = i + 1 /\ ~(i <= k - 1)
          BY <1>1, <1>4, <4>2
        <5> QED BY <1>4, <3>3, <3>5, <4>2, <5>1
      <4> QED BY <4>1, <4>2
    <3> QED BY <3>5, <3>6, <3>7 DEF IsList
  <2> HIDE DEF u
  <2>2. \A i \in 1 .. n - 1 : (IF i < k THEN i ELSE i + 1) \in 1 .. n
    BY <1>1, <1>4
  <2>3. IsBatch(u, d)
    BY <1>1, <2>1, <2>2 DEF IsBatch, IsPlan
  <2>4. Without(u, q, k) /\ IsPlan(u, d) /\ IsPlan(q, d)
    BY <1>1, <1>4, <2>1, <2>3 DEF IsBatch, Without
  <2>5. \A offs : Volume(q, offs)
                   = Volume(u, offs) + Share(q[k], offs)
    BY <2>4, VolumeWithout
  <2>6. \A offs : Share(q[k], offs) = LeftShare(o, offs)
    BY <1>4, <1>6 DEF Share, LeftShare
  <2> QED BY <1>3, <1>4, <1>5, <1>6, <2>3, <2>5, <2>6 DEF u
<1>7. CASE q[k].volume # o.left
  <2> DEFINE u == [q EXCEPT ![k].volume = @ - o.left]
             x == [q[k] EXCEPT !.volume = q[k].volume - o.left]
  <2>1. u = [i \in 1 .. n |-> IF i = k THEN x ELSE q[i]]
    BY <1>1, <1>4
  <2>2. /\ x.direction = d /\ x.offset = q[k].offset /\ x.volume = q[k].volume - o.left
        /\ DOMAIN x = PricedFields
    BY <1>5 DEF PricedFields
  <2>3. x.volume \in Nat \ {0}
    BY <1>4, <1>5, <1>7, <2>2
  <2> HIDE DEF x, u
  <2>4. Len(u) = n /\ IsList(u)
    <3>1. DOMAIN u = 1 .. n /\ u = [i \in 1 .. n |-> u[i]]
      BY <2>1
    <3>2. Len(u) = n
      BY <1>1, <2>1
    <3> QED BY <1>1, <3>1, <3>2 DEF IsList
  <2>5. u[k] = x /\ \A i \in 1 .. n : i # k => u[i] = q[i]
    BY <1>4, <2>1
  <2>6. IsBatch(u, d)
    BY <1>5, <2>2, <2>3, <2>4, <2>5 DEF IsBatch, IsPlan
  <2>7. ASSUME NEW offs
        PROVE  Volume(q, offs) = Volume(u, offs) + LeftShare(o, offs)
    <3> DEFINE f == Volumes(q, offs)
               g == Volumes(u, offs)
               T == 1 .. n
    <3>1. /\ IsFiniteSet(T) /\ (\A i \in T : f[i] \in Nat) /\ Volume(q, offs) \in Nat
      BY VolumesNat DEF IsBatch
    <3>2. (\A i \in T : g[i] \in Nat) /\ Volume(u, offs) \in Nat
      BY <2>4, <2>6, VolumesNat DEF IsBatch
    <3>3. \A i \in T \ {k} : f[i] = g[i]
      BY <2>4, <2>5 DEF Volumes
    <3>4. /\ f[k] = Share(q[k], offs)
          /\ g[k] = Share(x, offs)
      BY <1>4, <2>4, <2>5 DEF Volumes
    <3>5. Volume(q, offs) = SumFunctionOnSet(f, T) /\ Volume(u, offs) = SumFunctionOnSet(g, T)
      BY <2>4 DEF Volume
    <3>6. k \in T
      BY <1>4
    <3> HIDE DEF f, g, T
    <3>7. SumFunctionOnSet(f, T) - Part(f, T, k) = SumFunctionOnSet(g, T) - Part(g, T, k)
      BY <3>1, <3>2, <3>3, SumChange
    <3>8. Volume(q, offs) - f[k] = Volume(u, offs) - g[k]
      BY <3>5, <3>6, <3>7 DEF Part
    <3>9. CASE o.offset \in offs
      <4>1. /\ f[k] = q[k].volume /\ g[k] = q[k].volume - o.left
            /\ LeftShare(o, offs) = o.left
        BY <1>4, <2>2, <3>4, <3>9 DEF Share, LeftShare
      <4> QED BY <1>5, <3>1, <3>2, <3>8, <4>1
    <3>10. CASE o.offset \notin offs
      BY <1>4, <2>2, <3>1, <3>2, <3>4, <3>8, <3>10 DEF Share, LeftShare
    <3> QED BY <3>9, <3>10
  <2> QED BY <1>3, <1>4, <1>5, <1>7, <2>6, <2>7 DEF u
<1> QED BY <1>6, <1>7

-----------------------------------------------------------------------------
(* Reconciling the batch with the live orders.                             *)

LastOrder == Cardinality(Orders)
ReconcileNumber(acc, n, live) == IF n \in live THEN ReconcileOrder(acc, n) ELSE acc
Reconciles(g, live, batch, m) ==
    g = [n \in 0 .. m |-> IF n = 0 THEN [missing |-> batch, stale |-> {}]
                          ELSE ReconcileNumber(g[n - 1], n, live)]

(* The recursion over the order numbers has a solution up to every number: *)
(* there is no least number without one.                                   *)
LEMMA ReconcileExists ==
    ASSUME NEW live, NEW batch, NEW N \in Nat
    PROVE  \E g : Reconciles(g, live, batch, N)
<1> DEFINE Bad == {m \in Nat : ~ \E g : Reconciles(g, live, batch, m)}
           start == [missing |-> batch, stale |-> {}]
<1>1. SUFFICES ASSUME N \in Bad PROVE FALSE
  OBVIOUS
<1>2. PICK m \in Bad : \A k \in Bad : m <= k
  <2> HIDE DEF Bad
  <2>1. Bad \subseteq Nat
    BY DEF Bad
  <2> QED BY <1>1, <2>1, LeastNat
<1>3. m \in Nat /\ ~ \E g : Reconciles(g, live, batch, m)
  OBVIOUS
<1>4. m # 0
  <2> DEFINE g == [n \in 0 .. 0 |-> start]
  <2>1. Reconciles(g, live, batch, 0)
    BY DEF Reconciles
  <2> QED BY <1>3, <2>1
<1>5. m - 1 \in Nat /\ m - 1 \notin Bad
  <2> HIDE DEF Bad
  <2> QED BY <1>2, <1>3, <1>4
<1>6. PICK h : Reconciles(h, live, batch, m - 1)
  BY <1>5
<1> DEFINE last == ReconcileNumber(h[m - 1], m, live)
           g == [n \in 0 .. m |-> IF n = m THEN last ELSE h[n]]
<1>7. Reconciles(g, live, batch, m)
  <2>1. /\ h[0] = start
        /\ \A n \in 1 .. m - 1 : h[n] = ReconcileNumber(h[n - 1], n, live)
    <3>1. \A n \in 0 .. m - 1 :
             h[n] = IF n = 0 THEN start ELSE ReconcileNumber(h[n - 1], n, live)
      BY <1>6 DEF Reconciles
    <3>2. 0 \in 0 .. m - 1 /\ \A n \in 1 .. m - 1 : n \in 0 .. m - 1 /\ n # 0
      BY <1>5
    <3> HIDE DEF start
    <3> QED BY <3>1, <3>2
  <2> DEFINE rhs == [n \in 0 .. m |-> IF n = 0 THEN start ELSE ReconcileNumber(g[n - 1], n, live)]
  <2>2. ASSUME NEW n \in 0 .. m PROVE g[n] = rhs[n]
    <3> HIDE DEF start, last
    <3>1. CASE n = 0
      BY <1>3, <1>4, <2>1, <3>1
    <3>2. CASE n = m
      <4>1. g[n - 1] = h[m - 1] /\ g[n] = last /\ n # 0
        BY <1>3, <1>4, <3>2
      <4>2. rhs[n] = ReconcileNumber(g[n - 1], n, live)
        BY <4>1
      <4> HIDE DEF g, rhs
      <4> QED BY <3>2, <4>1, <4>2 DEF last
    <3>3. CASE n # 0 /\ n # m
      <4>1. n \in 1 .. m - 1 /\ n - 1 \in 0 .. m /\ n - 1 # m
        BY <1>3, <3>3
      <4>2. g[n] = h[n] /\ g[n - 1] = h[n - 1]
        BY <3>3, <4>1
      <4>3. rhs[n] = ReconcileNumber(g[n - 1], n, live)
        BY <3>3
      <4> HIDE DEF g, rhs
      <4> QED BY <2>1, <4>1, <4>2, <4>3
    <3> QED BY <3>1, <3>2, <3>3
  <2>3. g = rhs
    <3> HIDE DEF last, start
    <3>1. DOMAIN g = 0 .. m /\ DOMAIN rhs = 0 .. m
      OBVIOUS
    <3>2. g = [n \in 0 .. m |-> g[n]] /\ rhs = [n \in 0 .. m |-> rhs[n]]
      OBVIOUS
    <3> HIDE DEF g, rhs
    <3> QED BY <2>2, <3>2
  <2> HIDE DEF g
  <2> QED BY <2>3 DEF Reconciles
<1> HIDE DEF g
<1> QED BY <1>3, <1>7

(* Reconciling (reconcile_live_orders) takes one order number after the    *)
(* other.                                                                  *)
LEMMA ReconcileUnfolds ==
    ASSUME NEW live, NEW batch
    PROVE  \E g : /\ g[0] = [missing |-> batch, stale |-> {}]
                  /\ \A n \in 1 .. LastOrder : g[n] = ReconcileNumber(g[n - 1], n, live)
                  /\ ReconcileLiveOrders(live, batch) = g[LastOrder]
                  /\ LastOrder \in Nat
<1> DEFINE start == [missing |-> batch, stale |-> {}]
           g == CHOOSE g : Reconciles(g, live, batch, LastOrder)
<1>1. LastOrder \in Nat
  BY BoundsAssumption, FS_CardinalityType DEF LastOrder
<1>2. Reconciles(g, live, batch, LastOrder)
  BY <1>1, ReconcileExists
<1>3. ReconcileLiveOrders(live, batch) = g[LastOrder]
  BY DEF ReconcileLiveOrders, Reconciles, ReconcileNumber, LastOrder
<1> HIDE DEF g
<1>4. \A n \in 0 .. LastOrder :
         g[n] = IF n = 0 THEN start ELSE ReconcileNumber(g[n - 1], n, live)
  BY <1>2 DEF Reconciles
<1>5. 0 \in 0 .. LastOrder /\ \A n \in 1 .. LastOrder : n \in 0 .. LastOrder /\ n # 0
  BY <1>1
<1>6. g[0] = start /\ \A n \in 1 .. LastOrder : g[n] = ReconcileNumber(g[n - 1], n, live)
  <2> HIDE DEF start
  <2> QED BY <1>4, <1>5
<1> QED BY <1>1, <1>3, <1>6

(* After the orders up to n: the matched ones stand for what is gone from  *)
(* the batch.                                                              *)
Matched(acc, live, n, offs) ==
    {o \in (live \cap (1 .. n)) \ acc.stale : seenOrders[o].offset \in offs}
HalfReconciled(acc, live, batch, d, n) ==
    /\ acc = [missing |-> acc.missing, stale |-> acc.stale]
    /\ IsBatch(acc.missing, d) /\ acc.stale \subseteq 1 .. n
    /\ \A o \in (live \cap (1 .. n)) \ acc.stale : seenOrders[o].direction = d
    /\ \A offs : Volume(batch, offs) = Volume(acc.missing, offs)
                     + SumFunctionOnSet(SeenLefts, Matched(acc, live, n, offs))

(* The next live order is stale or stands for the entry it consumes.       *)
LEMMA ReconcileOne ==
    ASSUME NEW acc, NEW live, NEW batch, NEW d, NEW n \in Nat \ {0},
           live \subseteq Orders, \A o \in live : seenOrders[o].left \in Nat,
           HalfReconciled(acc, live, batch, d, n - 1)
    PROVE  HalfReconciled(ReconcileNumber(acc, n, live), live, batch, d, n)
<1> DEFINE o == seenOrders[n]
           next == ReconcileNumber(acc, n, live)
<1>1. 1 .. n = (1 .. n - 1) \cup {n} /\ n \notin 1 .. n - 1
  OBVIOUS
<1>2. /\ acc = [missing |-> acc.missing, stale |-> acc.stale]
      /\ IsBatch(acc.missing, d) /\ acc.stale \subseteq 1 .. n - 1 /\ n \notin acc.stale
      /\ \A x \in (live \cap (1 .. n - 1)) \ acc.stale : seenOrders[x].direction = d
      /\ \A offs : Volume(batch, offs) = Volume(acc.missing, offs)
                       + SumFunctionOnSet(SeenLefts, Matched(acc, live, n - 1, offs))
  BY <1>1 DEF HalfReconciled
<1>3. CASE n \notin live
  <2>1. next = acc
    BY <1>3 DEF ReconcileNumber
  <2>2. \A offs : Matched(acc, live, n, offs) = Matched(acc, live, n - 1, offs)
    BY <1>1, <1>3 DEF Matched
  <2>3. acc.stale \subseteq 1 .. n
    BY <1>1, <1>2
  <2>4. \A x \in (live \cap (1 .. n)) \ acc.stale : seenOrders[x].direction = d
    BY <1>1, <1>2, <1>3
  <2> QED BY <1>2, <2>1, <2>2, <2>3, <2>4 DEF HalfReconciled
<1>4. CASE n \in live /\ \E i \in DOMAIN acc.missing : CanSatisfy(o, acc.missing[i])
  <2> DEFINE q == Consume(acc.missing, o)
  <2>1. next = [missing |-> q, stale |-> acc.stale]
    <3>1. next = [acc EXCEPT !.missing = q]
      BY <1>4 DEF ReconcileNumber, ReconcileOrder
    <3> HIDE DEF next, q
    <3> QED BY <1>2, <3>1
  <2>2. /\ IsBatch(q, d) /\ o.direction = d
        /\ \A offs : Volume(acc.missing, offs) = Volume(q, offs) + LeftShare(o, offs)
    <3>1. o.left \in Nat
      BY <1>4
    <3> DEFINE p == acc.missing
    <3>2. IsBatch(p, d) /\ \E i \in DOMAIN p : CanSatisfy(o, p[i])
      BY <1>2, <1>4
    <3> HIDE DEF o, p
    <3>3. /\ IsBatch(Consume(p, o), d) /\ o.direction = d
          /\ \A offs : Volume(p, offs) = Volume(Consume(p, o), offs) + LeftShare(o, offs)
      BY <3>1, <3>2, ConsumeFacts
    <3> QED BY <3>3 DEF p
  <2> HIDE DEF q, next, o
  <2>3. next.missing = q /\ next.stale = acc.stale
    BY <2>1
  <2>4. \A x \in (live \cap (1 .. n)) \ next.stale : seenOrders[x].direction = d
    BY <1>1, <1>2, <2>2, <2>3 DEF o
  <2>5. ASSUME NEW offs
        PROVE  Volume(batch, offs) = Volume(q, offs)
                  + SumFunctionOnSet(SeenLefts, Matched(next, live, n, offs))
    <3> DEFINE A == Matched(acc, live, n - 1, offs)
               B == Matched(next, live, n, offs)
    <3>1. /\ A \subseteq live /\ B \subseteq live /\ n \notin A
          /\ B = IF o.offset \in offs THEN A \cup {n} ELSE A
      BY <1>1, <1>2, <1>4, <2>3 DEF Matched, o
    <3>2. IsFiniteSet(A) /\ \A x \in live : SeenLefts[x] \in Nat
      BY <3>1, BoundsAssumption, FS_Subset DEF SeenLefts
    <3>3. SeenLefts[n] = o.left /\ o.left \in Nat
      BY <1>4 DEF SeenLefts, o
    <3>4. SumFunctionOnSet(SeenLefts, A) \in Nat /\ Volume(q, offs) \in Nat
      BY <2>2, <3>1, <3>2, SumIsNat, VolumesNat DEF IsBatch
    <3>5. /\ Volume(batch, offs) = Volume(acc.missing, offs) + SumFunctionOnSet(SeenLefts, A)
          /\ Volume(acc.missing, offs) = Volume(q, offs) + LeftShare(o, offs)
      BY <1>2, <2>2
    <3> HIDE DEF A, B
    <3>6. CASE o.offset \in offs
      <4>1. \A x \in A : SeenLefts[x] \in Nat
        BY <3>1, <3>2
      <4>2. SumFunctionOnSet(SeenLefts, A \cup {n}) = SeenLefts[n] + SumFunctionOnSet(SeenLefts, A)
        BY <3>1, <3>2, <3>3, <4>1, SumAdd
      <4>3. LeftShare(o, offs) = o.left /\ B = A \cup {n}
        BY <3>1, <3>6 DEF LeftShare
      <4> QED BY <3>3, <3>4, <3>5, <4>2, <4>3 DEF B
    <3>7. CASE o.offset \notin offs
      <4>1. LeftShare(o, offs) = 0 /\ B = A
        BY <3>1, <3>7 DEF LeftShare
      <4> QED BY <3>4, <3>5, <4>1 DEF B
    <3> QED BY <3>6, <3>7
  <2>6. next.stale \subseteq 1 .. n
    BY <1>1, <1>2, <2>3
  <2> QED BY <2>1, <2>2, <2>3, <2>4, <2>5, <2>6 DEF HalfReconciled, next
<1>5. CASE n \in live /\ ~ \E i \in DOMAIN acc.missing : CanSatisfy(o, acc.missing[i])
  <2>1. next = [missing |-> acc.missing, stale |-> acc.stale \cup {n}]
    <3>1. next = [acc EXCEPT !.stale = acc.stale \cup {n}]
      BY <1>5 DEF ReconcileNumber, ReconcileOrder
    <3> HIDE DEF next
    <3> QED BY <1>2, <3>1
  <2> HIDE DEF next
  <2>2. next.missing = acc.missing /\ next.stale = acc.stale \cup {n}
    BY <2>1
  <2>3. (live \cap (1 .. n)) \ next.stale = (live \cap (1 .. n - 1)) \ acc.stale
    BY <1>1, <1>2, <2>2
  <2>4. \A offs : Matched(next, live, n, offs) = Matched(acc, live, n - 1, offs)
    BY <2>3 DEF Matched
  <2>5. next.stale \subseteq 1 .. n
    BY <1>1, <1>2, <2>2
  <2> QED BY <1>2, <2>1, <2>2, <2>3, <2>4, <2>5 DEF HalfReconciled, next
<1> QED BY <1>3, <1>4, <1>5

(* With no live order stale, the batch is what is missing of it and what   *)
(* the live orders have left, for every kind of order.                     *)
LEMMA ReconcileFacts ==
    ASSUME NEW live, NEW batch, NEW d, IsBatch(batch, d),
           live \subseteq Orders, \A o \in live : seenOrders[o].left \in Nat,
           ReconcileLiveOrders(live, batch).stale = {}
    PROVE  LET missing == ReconcileLiveOrders(live, batch).missing
           IN  /\ IsBatch(missing, d) /\ \A o \in live : seenOrders[o].direction = d
               /\ \A offs : Volume(batch, offs) = Volume(missing, offs)
                     + SumFunctionOnSet(SeenLefts, {o \in live : seenOrders[o].offset \in offs})
<1>1. PICK g : /\ g[0] = [missing |-> batch, stale |-> {}]
               /\ \A n \in 1 .. LastOrder : g[n] = ReconcileNumber(g[n - 1], n, live)
               /\ ReconcileLiveOrders(live, batch) = g[LastOrder]
               /\ LastOrder \in Nat
  BY ReconcileUnfolds
<1> DEFINE Holds(n) == HalfReconciled(g[n], live, batch, d, n)
           Bad == {n \in 0 .. LastOrder : ~ Holds(n)}
<1>2. Holds(0)
  <2>1. g[0].missing = batch /\ g[0].stale = {} /\ 1 .. 0 = {}
        /\ g[0] = [missing |-> g[0].missing, stale |-> g[0].stale]
    BY <1>1
  <2>2. \A offs : Matched(g[0], live, 0, offs) = {}
    BY <2>1 DEF Matched
  <2>3. \A offs : Volume(batch, offs) \in Nat
    BY VolumesNat DEF IsBatch
  <2>4. \A offs : Volume(batch, offs) = Volume(g[0].missing, offs)
                     + SumFunctionOnSet(SeenLefts, Matched(g[0], live, 0, offs))
    BY <2>1, <2>2, <2>3, SumEmpty
  <2> QED BY <2>1, <2>4 DEF HalfReconciled
<1>3. Bad = {}
  <2> SUFFICES ASSUME Bad # {} PROVE FALSE
    OBVIOUS
  <2>1. PICK n \in Bad : \A m \in Bad : n <= m
    <3> HIDE DEF Bad
    <3>1. Bad \subseteq Nat
      BY <1>1 DEF Bad
    <3> QED BY <3>1, LeastNat
  <2> HIDE DEF Holds
  <2>2. n \in 0 .. LastOrder /\ ~ Holds(n)
    OBVIOUS
  <2>3. n # 0
    BY <1>2, <2>2
  <2>4. n - 1 \in 0 .. LastOrder /\ n \in Nat \ {0} /\ n \in 1 .. LastOrder /\ ~(n <= n - 1)
    BY <1>1, <2>2, <2>3
  <2>5. Holds(n - 1)
    BY <2>1, <2>4
  <2>6. Holds(n)
    BY <1>1, <2>4, <2>5, ReconcileOne DEF Holds
  <2> QED BY <2>2, <2>6
<1>4. Holds(LastOrder)
  <2> HIDE DEF Holds
  <2>1. LastOrder \in 0 .. LastOrder
    BY <1>1
  <2> QED BY <1>3, <2>1
<1> DEFINE acc == ReconcileLiveOrders(live, batch)
<1>5. /\ IsBatch(acc.missing, d) /\ acc.stale = {}
      /\ \A o \in (live \cap (1 .. LastOrder)) \ acc.stale : seenOrders[o].direction = d
      /\ \A offs : Volume(batch, offs) = Volume(acc.missing, offs)
                     + SumFunctionOnSet(SeenLefts, Matched(acc, live, LastOrder, offs))
  BY <1>1, <1>4 DEF HalfReconciled
<1> HIDE DEF acc
<1>6. live \cap (1 .. LastOrder) = live
  BY BoundsAssumption DEF LastOrder
<1>7. \A offs : Matched(acc, live, LastOrder, offs) = {o \in live : seenOrders[o].offset \in offs}
  BY <1>5, <1>6 DEF Matched
<1>8. \A o \in live : seenOrders[o].direction = d
  BY <1>5, <1>6
<1> QED BY <1>5, <1>7, <1>8 DEF acc

-----------------------------------------------------------------------------
(* Planning.                                                               *)

SnapshotOk(s) ==
    /\ s.volume \in PositionType
    /\ \A d \in Directions : s.frozenToday[d] \in Nat /\ s.frozenHis[d] \in Nat
Frozen(s, d, offs) ==
    CASE offs = {"closeToday"} -> s.frozenToday[d]
      [] offs = {"close"} -> s.frozenHis[d]
      [] offs = {"close", "closeToday"} -> s.frozenToday[d] + s.frozenHis[d]
Closable(s, d, offs) == Greatest(0, Stock(s.volume, d, offs) - Frozen(s, d, offs))

Actions == {"today", "yesterday", "open"}
ShareOf(action, v, offs) == IF OffsetOf(action) \in offs THEN v ELSE 0

LEMMA BucketFacts ==
    ASSUME NEW p \in PositionType, NEW d \in Directions
    PROVE  p[Today(d)] \in Nat /\ p[History(d)] \in Nat
<1>1. /\ Today(d) \in {"longToday", "longHis", "shortToday", "shortHis"}
      /\ History(d) \in {"longToday", "longHis", "shortToday", "shortHis"}
  BY DEF Today, History
<1> QED BY <1>1 DEF PositionType

(* What an action may take (planned_order_for_action): of the exchanges    *)
(* that close today's positions apart, its own bucket less what is frozen  *)
(* there; of the others no more than both buckets less all that is frozen  *)
(* and what the plan closes already.                                       *)
LEMMA AvailableFacts ==
    ASSUME setup \in Setups, NEW s, SnapshotOk(s), NEW d \in Directions,
           NEW action \in Actions, NEW r \in Nat, NEW pending \in Nat
    PROVE  /\ Available(action, d, r, pending, s) \in Int
           /\ setup.shfe /\ action = "today" =>
                 Available(action, d, r, pending, s) = s.volume[Today(d)] - s.frozenToday[d]
           /\ setup.shfe /\ action = "yesterday" =>
                 Available(action, d, r, pending, s) = s.volume[History(d)] - s.frozenHis[d]
           /\ ~setup.shfe /\ action # "open" =>
                 \/ Available(action, d, r, pending, s) = 0
                 \/ Available(action, d, r, pending, s)
                      <= (s.volume[Today(d)] + s.volume[History(d)])
                           - (s.frozenToday[d] + s.frozenHis[d]) - pending
<1>1. s.volume[Today(d)] \in Nat /\ s.volume[History(d)] \in Nat
  BY BucketFacts DEF SnapshotOk
<1>2. s.frozenToday[d] \in Nat /\ s.frozenHis[d] \in Nat
  BY DEF SnapshotOk
<1>3. setup.shfe \in BOOLEAN
  BY SetupsAssumption
<1>4. CASE action = "open"
  BY <1>4 DEF Available
<1>5. CASE action = "today" /\ setup.shfe
  <2>1. Available(action, d, r, pending, s) = s.volume[Today(d)] - s.frozenToday[d]
    BY <1>5 DEF Available
  <2> QED BY <1>1, <1>2, <1>5, <2>1
<1>6. CASE action = "yesterday" /\ setup.shfe
  <2>1. Available(action, d, r, pending, s) = s.volume[History(d)] - s.frozenHis[d]
    BY <1>6 DEF Available
  <2> QED BY <1>1, <1>2, <1>6, <2>1
<1>7. CASE action = "today" /\ ~setup.shfe
  <2>1. Available(action, d, r, pending, s)
           = s.volume[Today(d)] - (pending + (s.frozenToday[d] + s.frozenHis[d]))
    BY <1>7 DEF Available, TotalFrozen
  <2> QED BY <1>1, <1>2, <1>7, <2>1
<1>8. CASE action = "yesterday" /\ ~setup.shfe
  <2> DEFINE F == pending + (s.frozenToday[d] + s.frozenHis[d])
  <2>1. \/ Available(action, d, r, pending, s) = 0
        \/ Available(action, d, r, pending, s) = s.volume[Today(d)] + s.volume[History(d)] - F
    BY <1>8 DEF Available, TotalFrozen
  <2> QED BY <1>1, <1>2, <1>8, <2>1
<1> QED BY <1>3, <1>4, <1>5, <1>6, <1>7, <1>8 DEF Actions

(* planned_order_for_action.                                               *)
LEMMA PlanActionFacts ==
    ASSUME setup \in Setups, NEW s, SnapshotOk(s), NEW d \in Directions,
           NEW action \in Actions, NEW acc, acc.remaining \in Int, acc.pending \in Nat,
           IsPlan(acc.batch, d), Toward(d, acc.remaining) \in Nat
    PROVE  \E v \in Nat : LET next == PlanAction(acc, action, s)
              IN  /\ next.remaining \in Int
                  /\ Toward(d, next.remaining) = Toward(d, acc.remaining) - v
                  /\ v <= Toward(d, acc.remaining)
                  /\ next.pending = acc.pending + (IF action = "open" THEN 0 ELSE v)
                  /\ IsPlan(next.batch, d)
                  /\ \A offs : Volume(next.batch, offs)
                                  = Volume(acc.batch, offs) + ShareOf(action, v, offs)
                  /\ v = 0 \/ v <= Available(action, d, Toward(d, acc.remaining), acc.pending, s)
<1> DEFINE dir == IF acc.remaining > 0 THEN "buy" ELSE "sell"
           req == Greatest(acc.remaining, -acc.remaining)
           avail == Available(action, dir, req, acc.pending, s)
           v == Least(req, Greatest(avail, 0))
           x == [direction |-> dir, offset |-> OffsetOf(action), volume |-> v]
           next == PlanAction(acc, action, s)
<1>1. /\ req \in Nat /\ req = Toward(d, acc.remaining) /\ dir \in Directions
      /\ req # 0 => dir = d
  BY DEF Greatest, Toward, Directions
<1> HIDE DEF dir, req
<1>2. avail \in Int
  BY <1>1, AvailableFacts
<1> HIDE DEF avail
<1>3. v \in Nat /\ v <= req /\ (v = 0 \/ v <= avail)
  BY <1>1, <1>2 DEF Least, Greatest
<1>4. next = IF v = 0 THEN acc
             ELSE [remaining |-> acc.remaining - Signed(dir, v),
                   pending |-> acc.pending + (IF OffsetOf(action) = "open" THEN 0 ELSE v),
                   batch |-> Append(acc.batch, x)]
  BY DEF PlanAction, dir, req, avail
<1>5. /\ OffsetOf(action) \in Offsets /\ (OffsetOf(action) = "open" <=> action = "open")
  BY DEF OffsetOf, Offsets, Actions
<1> HIDE DEF v, next
<1>6. CASE v = 0
  <2>1. next = acc /\ \A offs : ShareOf(action, v, offs) = 0 /\ Volume(acc.batch, offs) \in Nat
    BY <1>4, <1>6, VolumesNat DEF ShareOf
  <2>2. Toward(d, acc.remaining) - v = Toward(d, acc.remaining) /\ v <= Toward(d, acc.remaining)
        /\ acc.pending = acc.pending + (IF action = "open" THEN 0 ELSE v)
    BY <1>6
  <2>3. \A offs : Volume(next.batch, offs) = Volume(acc.batch, offs) + ShareOf(action, v, offs)
    BY <2>1
  <2> QED BY <1>3, <1>6, <2>1, <2>2, <2>3 DEF next
<1>7. CASE v # 0
  <2>1. dir = d /\ req # 0
    BY <1>1, <1>3, <1>7
  <2>2. next.remaining = acc.remaining - Signed(d, v)
        /\ next.pending = acc.pending + (IF OffsetOf(action) = "open" THEN 0 ELSE v)
        /\ next.batch = Append(acc.batch, x)
    BY <1>4, <1>7, <2>1
  <2>3. x.direction = d /\ x.offset = OffsetOf(action) /\ x.volume = v
    BY <2>1
  <2> HIDE DEF x
  <2>4. /\ IsPlan(next.batch, d)
        /\ \A offs : Volume(next.batch, offs) = Volume(acc.batch, offs) + Share(x, offs)
    BY <1>3, <1>5, <1>7, <2>2, <2>3, PlanAppend
  <2>5. \A offs : Share(x, offs) = ShareOf(action, v, offs)
    BY <2>3 DEF Share, ShareOf
  <2>6. next.remaining \in Int /\ Toward(d, next.remaining) = Toward(d, acc.remaining) - v
    BY <1>3, <2>2 DEF Signed, Toward, Directions
  <2>7. next.pending = acc.pending + (IF action = "open" THEN 0 ELSE v)
    BY <1>5, <2>2
  <2>8. v <= Available(action, d, Toward(d, acc.remaining), acc.pending, s)
    BY <1>1, <1>3, <1>7, <2>1 DEF avail
  <2> QED BY <1>1, <1>3, <2>4, <2>5, <2>6, <2>7, <2>8 DEF next
<1> QED BY <1>6, <1>7

(* What a group has planned after the actions in done: with what remains   *)
(* it is what was asked for, and what it closes can be closed.             *)
HalfPlanned(acc, s, d, r, done) ==
    /\ acc.remaining \in Int /\ acc.pending \in Nat /\ IsPlan(acc.batch, d)
    /\ Toward(d, acc.remaining) \in Nat
    /\ Volume(acc.batch, Offsets) + Toward(d, acc.remaining) = Toward(d, r)
    /\ setup.shfe =>
          /\ Volume(acc.batch, {"closeToday"}) <= Closable(s, d, {"closeToday"})
          /\ "today" \notin done => Volume(acc.batch, {"closeToday"}) = 0
          /\ Volume(acc.batch, {"close"}) <= Closable(s, d, {"close"})
          /\ "yesterday" \notin done => Volume(acc.batch, {"close"}) = 0
    /\ ~setup.shfe =>
          /\ Volume(acc.batch, {"close", "closeToday"}) = acc.pending
          /\ acc.pending <= Closable(s, d, {"close", "closeToday"})
          /\ Volume(acc.batch, {"closeToday"}) = 0

LEMMA ClosableFacts ==
    ASSUME NEW s, SnapshotOk(s), NEW d \in Directions
    PROVE  /\ Closable(s, d, {"closeToday"})
                = Greatest(0, s.volume[Today(d)] - s.frozenToday[d])
           /\ Closable(s, d, {"close"}) = Greatest(0, s.volume[History(d)] - s.frozenHis[d])
           /\ Closable(s, d, {"close", "closeToday"})
                = Greatest(0, (s.volume[Today(d)] + s.volume[History(d)])
                                - (s.frozenToday[d] + s.frozenHis[d]))
           /\ s.volume[Today(d)] \in Nat /\ s.volume[History(d)] \in Nat
           /\ s.frozenToday[d] \in Nat /\ s.frozenHis[d] \in Nat
<1>1. /\ {"closeToday"} # Offsets /\ {"close"} # Offsets /\ {"close", "closeToday"} # Offsets
      /\ {"close"} # {"closeToday"} /\ {"close", "closeToday"} # {"closeToday"}
      /\ {"close", "closeToday"} # {"close"}
  <2>1. "open" \in Offsets /\ "open" \notin {"closeToday"} /\ "open" \notin {"close"}
        /\ "open" \notin {"close", "closeToday"}
    BY DEF Offsets
  <2>2. "close" \notin {"closeToday"} /\ "closeToday" \notin {"close"}
        /\ "close" \in {"close", "closeToday"} /\ "closeToday" \in {"close", "closeToday"}
    OBVIOUS
  <2> QED BY <2>1, <2>2
<1>2. /\ Stock(s.volume, d, {"closeToday"}) = s.volume[Today(d)]
      /\ Stock(s.volume, d, {"close"}) = s.volume[History(d)]
      /\ Stock(s.volume, d, {"close", "closeToday"}) = s.volume[Today(d)] + s.volume[History(d)]
  BY <1>1 DEF Stock
<1>3. /\ Frozen(s, d, {"closeToday"}) = s.frozenToday[d]
      /\ Frozen(s, d, {"close"}) = s.frozenHis[d]
      /\ Frozen(s, d, {"close", "closeToday"}) = s.frozenToday[d] + s.frozenHis[d]
  BY <1>1 DEF Frozen
<1>4. s.volume[Today(d)] \in Nat /\ s.volume[History(d)] \in Nat
  BY BucketFacts DEF SnapshotOk
<1>5. s.frozenToday[d] \in Nat /\ s.frozenHis[d] \in Nat
  BY DEF SnapshotOk
<1> QED BY <1>2, <1>3, <1>4, <1>5 DEF Closable

(* The next action of a group plans no more than it may take.              *)
LEMMA PlanOne ==
    ASSUME setup \in Setups, NEW s, SnapshotOk(s), NEW d \in Directions, NEW r \in Int,
           NEW done, NEW action \in Actions, action \notin done,
           NEW acc, HalfPlanned(acc, s, d, r, done)
    PROVE  HalfPlanned(PlanAction(acc, action, s), s, d, r, done \cup {action})
<1> DEFINE next == PlanAction(acc, action, s)
           rem == Toward(d, acc.remaining)
           avail == Available(action, d, rem, acc.pending, s)
           T == {"closeToday"}
           H == {"close"}
           C == {"close", "closeToday"}
<1>1. acc.remaining \in Int /\ acc.pending \in Nat /\ IsPlan(acc.batch, d) /\ rem \in Nat
  BY DEF HalfPlanned
<1>2. PICK v \in Nat : /\ next.remaining \in Int /\ Toward(d, next.remaining) = rem - v
                       /\ v <= rem
                       /\ next.pending = acc.pending + (IF action = "open" THEN 0 ELSE v)
                       /\ IsPlan(next.batch, d)
                       /\ \A offs : Volume(next.batch, offs)
                                       = Volume(acc.batch, offs) + ShareOf(action, v, offs)
                       /\ v = 0 \/ v <= avail
  BY <1>1, PlanActionFacts
<1>3. \A offs : Volume(acc.batch, offs) \in Nat /\ Volume(next.batch, offs) \in Nat
  BY <1>1, <1>2, VolumesNat
<1>4. setup.shfe \in BOOLEAN
  BY SetupsAssumption
<1>5. /\ ShareOf(action, v, Offsets) = v
      /\ setup.shfe => /\ ShareOf(action, v, T) = IF action = "today" THEN v ELSE 0
                       /\ ShareOf(action, v, H) = IF action = "yesterday" THEN v ELSE 0
      /\ ~setup.shfe => /\ ShareOf(action, v, C) = IF action = "open" THEN 0 ELSE v
                        /\ ShareOf(action, v, T) = 0
  BY <1>4 DEF ShareOf, OffsetOf, Offsets, Actions
<1>6. /\ avail \in Int
      /\ setup.shfe /\ action = "today" => avail = s.volume[Today(d)] - s.frozenToday[d]
      /\ setup.shfe /\ action = "yesterday" => avail = s.volume[History(d)] - s.frozenHis[d]
      /\ ~setup.shfe /\ action # "open" =>
            avail = 0 \/ avail <= (s.volume[Today(d)] + s.volume[History(d)])
                                    - (s.frozenToday[d] + s.frozenHis[d]) - acc.pending
  BY <1>1, AvailableFacts
<1>7. /\ Closable(s, d, T) = Greatest(0, s.volume[Today(d)] - s.frozenToday[d])
      /\ Closable(s, d, H) = Greatest(0, s.volume[History(d)] - s.frozenHis[d])
      /\ Closable(s, d, C) = Greatest(0, (s.volume[Today(d)] + s.volume[History(d)])
                                - (s.frozenToday[d] + s.frozenHis[d]))
      /\ s.volume[Today(d)] \in Nat /\ s.volume[History(d)] \in Nat
      /\ s.frozenToday[d] \in Nat /\ s.frozenHis[d] \in Nat
  BY ClosableFacts
<1>8. /\ Volume(acc.batch, Offsets) + rem = Toward(d, r)
      /\ setup.shfe =>
            /\ Volume(acc.batch, T) <= Closable(s, d, T)
            /\ "today" \notin done => Volume(acc.batch, T) = 0
            /\ Volume(acc.batch, H) <= Closable(s, d, H)
            /\ "yesterday" \notin done => Volume(acc.batch, H) = 0
      /\ ~setup.shfe =>
            /\ Volume(acc.batch, C) = acc.pending
            /\ acc.pending <= Closable(s, d, C)
            /\ Volume(acc.batch, T) = 0
  BY DEF HalfPlanned
<1> HIDE DEF next, rem, avail, T, H, C
<1>9. next.pending \in Nat /\ rem - v \in Nat
  BY <1>1, <1>2
<1>10. Volume(next.batch, Offsets) + (rem - v) = Toward(d, r)
  <2>1. Volume(next.batch, Offsets) = Volume(acc.batch, Offsets) + v
    BY <1>2, <1>5
  <2> QED BY <1>1, <1>3, <1>8, <2>1
<1>11. ASSUME setup.shfe
       PROVE  /\ Volume(next.batch, T) <= Closable(s, d, T)
              /\ "today" \notin done \cup {action} => Volume(next.batch, T) = 0
              /\ Volume(next.batch, H) <= Closable(s, d, H)
              /\ "yesterday" \notin done \cup {action} => Volume(next.batch, H) = 0
  <2>1. /\ Volume(next.batch, T) = Volume(acc.batch, T) + ShareOf(action, v, T)
        /\ Volume(next.batch, H) = Volume(acc.batch, H) + ShareOf(action, v, H)
    BY <1>2
  <2>2. CASE action = "today"
    <3>1. ShareOf(action, v, T) = v /\ ShareOf(action, v, H) = 0 /\ Volume(acc.batch, T) = 0
      BY <1>5, <1>8, <1>11, <2>2
    <3>2. v <= Closable(s, d, T)
      BY <1>2, <1>6, <1>7, <1>11, <2>2 DEF Greatest
    <3>3. Volume(next.batch, T) = v /\ Volume(next.batch, H) = Volume(acc.batch, H)
      BY <1>3, <2>1, <3>1
    <3> QED BY <1>8, <1>11, <2>2, <3>2, <3>3
  <2>3. CASE action = "yesterday"
    <3>1. ShareOf(action, v, H) = v /\ ShareOf(action, v, T) = 0 /\ Volume(acc.batch, H) = 0
      BY <1>5, <1>8, <1>11, <2>3
    <3>2. v <= Closable(s, d, H)
      BY <1>2, <1>6, <1>7, <1>11, <2>3 DEF Greatest
    <3>3. Volume(next.batch, H) = v /\ Volume(next.batch, T) = Volume(acc.batch, T)
      BY <1>3, <2>1, <3>1
    <3> QED BY <1>8, <1>11, <2>3, <3>2, <3>3
  <2>4. CASE action = "open"
    <3>1. ShareOf(action, v, H) = 0 /\ ShareOf(action, v, T) = 0
      BY <1>5, <1>11, <2>4
    <3>2. Volume(next.batch, H) = Volume(acc.batch, H) /\ Volume(next.batch, T) = Volume(acc.batch, T)
      BY <1>3, <2>1, <3>1
    <3> QED BY <1>8, <1>11, <3>2
  <2> QED BY <2>2, <2>3, <2>4 DEF Actions
<1>12. ASSUME ~setup.shfe
       PROVE  /\ Volume(next.batch, C) = next.pending /\ next.pending <= Closable(s, d, C)
              /\ Volume(next.batch, T) = 0
  <2>1. Volume(next.batch, C) = Volume(acc.batch, C) + ShareOf(action, v, C)
    BY <1>2
  <2>2. Volume(acc.batch, C) = acc.pending /\ acc.pending <= Closable(s, d, C)
    BY <1>8, <1>12
  <2>3. Volume(next.batch, T) = 0
    <3>1. Volume(next.batch, T) = Volume(acc.batch, T) + ShareOf(action, v, T)
      BY <1>2
    <3>2. Volume(acc.batch, T) = 0 /\ ShareOf(action, v, T) = 0
      BY <1>5, <1>8, <1>12
    <3> QED BY <3>1, <3>2
  <2>4. CASE action = "open"
    <3>1. next.pending = acc.pending /\ Volume(next.batch, C) = acc.pending
      BY <1>1, <1>2, <1>5, <1>12, <2>1, <2>2, <2>4
    <3> QED BY <2>2, <2>3, <3>1
  <2>5. CASE action # "open"
    <3>1. next.pending = acc.pending + v /\ Volume(next.batch, C) = acc.pending + v
      BY <1>2, <1>5, <1>12, <2>1, <2>2, <2>5
    <3>2. acc.pending + v <= Closable(s, d, C)
      BY <1>1, <1>2, <1>6, <1>7, <1>12, <2>2, <2>5 DEF Greatest
    <3> QED BY <2>3, <3>1, <3>2
  <2> QED BY <2>4, <2>5
<1> QED BY <1>2, <1>9, <1>10, <1>11, <1>12 DEF HalfPlanned, next, T, H, C

PlanStart(r) == [remaining |-> r, pending |-> 0, batch |-> <<>>]
Plans(p, group, n, r, s) ==
    p = [i \in 0 .. n |-> IF i = 0 THEN PlanStart(r)
                                   ELSE PlanAction(p[i - 1], group[i], s)]
PlanRun(p, group, n, r, s) ==
    /\ p[0] = PlanStart(r) /\ \A i \in 1 .. n : p[i] = PlanAction(p[i - 1], group[i], s)
    /\ PlanGroup(group, r, s) = p[n].batch

(* A group's plan takes its actions one after the other.                   *)
LEMMA PlanGroupUnfolds ==
    ASSUME NEW group, NEW r, NEW s, NEW n \in 1 .. 3, Len(group) = n
    PROVE  \E p : PlanRun(p, group, n, r, s)
<1> DEFINE a0 == PlanStart(r)
           a1 == PlanAction(a0, group[1], s)
           a2 == PlanAction(a1, group[2], s)
           a3 == PlanAction(a2, group[3], s)
           f == [i \in 0 .. n |-> IF i = 0 THEN a0 ELSE IF i = 1 THEN a1
                                  ELSE IF i = 2 THEN a2 ELSE a3]
           g == [i \in 0 .. n |-> IF i = 0 THEN PlanStart(r)
                                  ELSE PlanAction(f[i - 1], group[i], s)]
           p == CHOOSE p : Plans(p, group, n, r, s)
<1>1. Plans(f, group, n, r, s)
  <2>1. ASSUME NEW i \in 0 .. n PROVE f[i] = g[i]
    <3>1. n \in 1 .. 3 /\ i \in Int /\ 0 <= i /\ i <= 3 /\ i \in 0 .. n
      OBVIOUS
    <3>2. CASE i = 0
      <4> HIDE DEF a1, a2, a3, f
      <4>1. f[i] = a0
        BY <3>2 DEF f
      <4>2. g[i] = PlanStart(r)
        BY <3>2
      <4> QED BY <4>1, <4>2
    <3>3. CASE i # 0
      <4>1. i - 1 \in 0 .. n /\ g[i] = PlanAction(f[i - 1], group[i], s)
        <5> HIDE DEF f
        <5> QED BY <3>1, <3>3
      <4>2. f[i] = (IF i = 1 THEN a1 ELSE IF i = 2 THEN a2 ELSE a3)
            /\ f[i - 1] = (IF i - 1 = 0 THEN a0 ELSE IF i - 1 = 1 THEN a1
                           ELSE IF i - 1 = 2 THEN a2 ELSE a3)
        <5> HIDE DEF a0, a1, a2, a3, g
        <5> QED BY <3>3, <4>1 DEF f
      <4> HIDE DEF f, g
      <4>3. CASE i = 1
        <5>1. f[i] = a1 /\ f[i - 1] = a0
          <6> HIDE DEF a0, a1, a2, a3
          <6> QED BY <4>2, <4>3
        <5> QED BY <4>1, <4>3, <5>1
      <4>4. CASE i = 2
        <5>1. f[i] = a2 /\ f[i - 1] = a1
          <6> HIDE DEF a0, a1, a2, a3
          <6> QED BY <4>2, <4>4
        <5> HIDE DEF a1
        <5> QED BY <4>1, <4>4, <5>1
      <4>5. CASE i = 3
        <5>1. f[i] = a3 /\ f[i - 1] = a2
          <6> HIDE DEF a0, a1, a2, a3
          <6> QED BY <4>2, <4>5
        <5> HIDE DEF a2
        <5> QED BY <4>1, <4>5, <5>1
      <4> QED BY <3>1, <3>3, <4>3, <4>4, <4>5
    <3> QED BY <3>2, <3>3
  <2>2. f = [i \in 0 .. n |-> f[i]] /\ g = [i \in 0 .. n |-> g[i]]
    <3> HIDE DEF a0, a1, a2, a3
    <3> QED OBVIOUS
  <2>3. f = g
    <3> HIDE DEF f, g
    <3> QED BY <2>1, <2>2
  <2> HIDE DEF f
  <2> QED BY <2>3 DEF Plans
<1> HIDE DEF f
<1>2. Plans(p, group, n, r, s)
  BY <1>1
<1>3. PlanGroup(group, r, s) = p[n].batch
  BY DEF PlanGroup, Plans, PlanStart
<1> HIDE DEF p
<1>4. \A i \in 0 .. n : p[i] = IF i = 0 THEN PlanStart(r)
                               ELSE PlanAction(p[i - 1], group[i], s)
  BY <1>2 DEF Plans
<1>5. 0 \in 0 .. n /\ \A i \in 1 .. n : i \in 0 .. n /\ i # 0
  OBVIOUS
<1>6. p[0] = PlanStart(r) /\ \A i \in 1 .. n : p[i] = PlanAction(p[i - 1], group[i], s)
  BY <1>4, <1>5
<1>7. PlanRun(p, group, n, r, s)
  BY <1>3, <1>6 DEF PlanRun
<1> QED BY <1>7

PlanFits(q, s, d, r) ==
    /\ IsPlan(q, d) /\ Volume(q, Offsets) <= Toward(d, r)
    /\ \A offs \in ClosingKinds : Volume(q, offs) <= Closable(s, d, offs)
    /\ ~setup.shfe => Volume(q, {"closeToday"}) = 0

LEMMA PlannedFits ==
    ASSUME setup \in Setups, NEW acc, NEW s, NEW d, NEW r \in Int, NEW done,
           HalfPlanned(acc, s, d, r, done)
    PROVE  PlanFits(acc.batch, s, d, r)
<1>1. IsPlan(acc.batch, d) /\ Volume(acc.batch, Offsets) \in Nat
  BY VolumesNat DEF HalfPlanned
<1>2. Volume(acc.batch, Offsets) <= Toward(d, r)
  BY <1>1 DEF HalfPlanned
<1>3. setup.shfe \in BOOLEAN
  BY SetupsAssumption
<1>4. \A offs \in ClosingKinds : Volume(acc.batch, offs) <= Closable(s, d, offs)
  BY <1>3 DEF ClosingKinds, HalfPlanned
<1>5. ~setup.shfe => Volume(acc.batch, {"closeToday"}) = 0
  BY DEF HalfPlanned
<1> QED BY <1>1, <1>2, <1>4, <1>5 DEF PlanFits

LEMMA StartPlanned ==
    ASSUME setup \in Setups, NEW s, SnapshotOk(s), NEW d \in Directions,
           NEW r \in Int, Toward(d, r) \in Nat
    PROVE  HalfPlanned(PlanStart(r), s, d, r, {})
<1> DEFINE acc == PlanStart(r)
<1>1. acc.remaining = r /\ acc.pending = 0 /\ acc.batch = <<>>
  BY DEF PlanStart
<1> HIDE DEF acc
<1>2. IsPlan(acc.batch, d) /\ \A offs : Volume(acc.batch, offs) = 0
  BY <1>1, EmptyPlan
<1>3. /\ Closable(s, d, {"closeToday"}) >= 0 /\ Closable(s, d, {"close"}) >= 0
      /\ Closable(s, d, {"close", "closeToday"}) >= 0
  BY ClosableFacts DEF Greatest
<1> QED BY <1>1, <1>2, <1>3 DEF HalfPlanned, acc

PlanGroups == {<<"today", "yesterday">>, <<"open">>, <<"today", "yesterday", "open">>,
               <<"yesterday", "open">>}

(* The plan of a group covers no more than the distance to the target and  *)
(* closes no more than can be closed.                                      *)
LEMMA PlanGroupFits ==
    ASSUME setup \in Setups, NEW s, SnapshotOk(s), NEW d \in Directions,
           NEW r \in Int, Toward(d, r) \in Nat, NEW group \in PlanGroups
    PROVE  PlanFits(PlanGroup(group, r, s), s, d, r)
<1>1. PICK n \in 1 .. 3 : Len(group) = n
  BY DEF PlanGroups
<1>2. PICK p : PlanRun(p, group, n, r, s)
  BY <1>1, PlanGroupUnfolds
<1>3. HalfPlanned(p[0], s, d, r, {})
  BY <1>2, StartPlanned DEF PlanRun
<1>4. "today" \in Actions /\ "yesterday" \in Actions /\ "open" \in Actions
  BY DEF Actions
<1>5. CASE group = <<"today", "yesterday">>
  <2>1. n = 2 /\ group[1] = "today" /\ group[2] = "yesterday"
    BY <1>1, <1>5
  <2>2. p[1] = PlanAction(p[0], "today", s) /\ p[2] = PlanAction(p[1], "yesterday", s)
    BY <1>2, <2>1 DEF PlanRun
  <2>3. HalfPlanned(p[1], s, d, r, {} \cup {"today"})
    BY <1>3, <1>4, <2>2, PlanOne
  <2>4. HalfPlanned(p[2], s, d, r, ({} \cup {"today"}) \cup {"yesterday"})
    <3>1. "yesterday" \notin {} \cup {"today"}
      OBVIOUS
    <3> QED BY <1>4, <2>2, <2>3, <3>1, PlanOne
  <2> QED BY <1>2, <2>1, <2>4, PlannedFits DEF PlanRun
<1>6. CASE group = <<"open">>
  <2>1. n = 1 /\ group[1] = "open"
    BY <1>1, <1>6
  <2>2. p[1] = PlanAction(p[0], "open", s)
    BY <1>2, <2>1 DEF PlanRun
  <2>3. HalfPlanned(p[1], s, d, r, {} \cup {"open"})
    BY <1>3, <1>4, <2>2, PlanOne
  <2> QED BY <1>2, <2>1, <2>3, PlannedFits DEF PlanRun
<1>7. CASE group = <<"today", "yesterday", "open">>
  <2>1. n = 3 /\ group[1] = "today" /\ group[2] = "yesterday" /\ group[3] = "open"
    BY <1>1, <1>7
  <2>2. p[1] = PlanAction(p[0], "today", s) /\ p[2] = PlanAction(p[1], "yesterday", s)
        /\ p[3] = PlanAction(p[2], "open", s)
    BY <1>2, <2>1 DEF PlanRun
  <2>3. HalfPlanned(p[1], s, d, r, {} \cup {"today"})
    BY <1>3, <1>4, <2>2, PlanOne
  <2>4. HalfPlanned(p[2], s, d, r, ({} \cup {"today"}) \cup {"yesterday"})
    <3>1. "yesterday" \notin {} \cup {"today"}
      OBVIOUS
    <3> QED BY <1>4, <2>2, <2>3, <3>1, PlanOne
  <2>5. HalfPlanned(p[3], s, d, r, (({} \cup {"today"}) \cup {"yesterday"}) \cup {"open"})
    <3>1. "open" \notin ({} \cup {"today"}) \cup {"yesterday"}
      OBVIOUS
    <3> QED BY <1>4, <2>2, <2>4, <3>1, PlanOne
  <2> QED BY <1>2, <2>1, <2>5, PlannedFits DEF PlanRun
<1>8. CASE group = <<"yesterday", "open">>
  <2>1. n = 2 /\ group[1] = "yesterday" /\ group[2] = "open"
    BY <1>1, <1>8
  <2>2. p[1] = PlanAction(p[0], "yesterday", s) /\ p[2] = PlanAction(p[1], "open", s)
    BY <1>2, <2>1 DEF PlanRun
  <2>3. HalfPlanned(p[1], s, d, r, {} \cup {"yesterday"})
    BY <1>3, <1>4, <2>2, PlanOne
  <2>4. HalfPlanned(p[2], s, d, r, ({} \cup {"yesterday"}) \cup {"open"})
    <3>1. "open" \notin {} \cup {"yesterday"}
      OBVIOUS
    <3> QED BY <1>4, <2>2, <2>3, <3>1, PlanOne
  <2> QED BY <1>2, <2>1, <2>4, PlannedFits DEF PlanRun
<1> QED BY <1>5, <1>6, <1>7, <1>8 DEF PlanGroups

LEMMA GroupsFacts ==
    ASSUME setup \in Setups
    PROVE  /\ DOMAIN PriorityGroups \subseteq Nat
           /\ \A i \in DOMAIN PriorityGroups : PriorityGroups[i] \in PlanGroups
<1>1. setup.priority \in OffsetPriorities
  BY SetupsAssumption
<1>2. CASE setup.priority = "TodayYesterdayThenOpenWait"
  <2>1. PriorityGroups = <<<<"today", "yesterday">>, <<"open">>>>
    BY <1>2 DEF PriorityGroups
  <2>2. DOMAIN PriorityGroups = {1, 2} /\ PriorityGroups[1] = <<"today", "yesterday">>
        /\ PriorityGroups[2] = <<"open">>
    BY <2>1
  <2> QED BY <2>2 DEF PlanGroups
<1>3. CASE setup.priority = "TodayYesterdayThenOpen"
  <2>1. PriorityGroups = <<<<"today", "yesterday", "open">>>>
    BY <1>3 DEF PriorityGroups
  <2>2. DOMAIN PriorityGroups = {1} /\ PriorityGroups[1] = <<"today", "yesterday", "open">>
    BY <2>1
  <2> QED BY <2>2 DEF PlanGroups
<1>4. CASE setup.priority = "YesterdayThenOpen"
  <2>1. PriorityGroups = <<<<"yesterday", "open">>>>
    BY <1>4 DEF PriorityGroups
  <2>2. DOMAIN PriorityGroups = {1} /\ PriorityGroups[1] = <<"yesterday", "open">>
    BY <2>1
  <2> QED BY <2>2 DEF PlanGroups
<1>5. CASE setup.priority = "OpenOnly"
  <2>1. PriorityGroups = <<<<"open">>>>
    BY <1>5 DEF PriorityGroups
  <2>2. DOMAIN PriorityGroups = {1} /\ PriorityGroups[1] = <<"open">>
    BY <2>1
  <2> QED BY <2>2 DEF PlanGroups
<1> QED BY <1>1, <1>2, <1>3, <1>4, <1>5 DEF OffsetPriorities

(* So does the plan of the first group with an order (compute_plan), or of *)
(* none.                                                                   *)
LEMMA ComputePlanFits ==
    ASSUME setup \in Setups, NEW s, SnapshotOk(s), NEW d \in Directions, NEW target,
           NEW r \in Int, r = target - NetPosition(s.volume), Toward(d, r) \in Nat
    PROVE  PlanFits(ComputePlan(s, target), s, d, r)
<1> DEFINE batch(i) == PlanGroup(PriorityGroups[i], r, s)
           filled == {i \in DOMAIN PriorityGroups : batch(i) # <<>>}
<1>1. ComputePlan(s, target) = IF filled = {} THEN <<>> ELSE batch(Min(filled))
  BY DEF ComputePlan
<1>2. CASE filled = {}
  <2>1. HalfPlanned(PlanStart(r), s, d, r, {})
    BY StartPlanned
  <2>2. PlanStart(r).batch = <<>>
    BY DEF PlanStart
  <2> QED BY <1>1, <1>2, <2>1, <2>2, PlannedFits
<1>3. CASE filled # {}
  <2>1. filled \subseteq DOMAIN PriorityGroups /\ filled \subseteq Nat
    BY GroupsFacts
  <2> HIDE DEF filled
  <2>2. Min(filled) \in filled
    <3>1. \E x \in filled : \A y \in filled : x <= y
      BY <1>3, <2>1, LeastNat
    <3> QED BY <3>1 DEF Min
  <2>3. PriorityGroups[Min(filled)] \in PlanGroups
    BY <2>1, <2>2, GroupsFacts
  <2> QED BY <1>1, <1>3, <2>3, PlanGroupFits
<1> QED BY <1>2, <1>3

(* A split order is not empty and not larger than the order.               *)
LEMMA SplitFacts ==
    ASSUME setup \in Setups, NEW v \in Nat \ {0}
    PROVE  SplitOrderVolume(v) \in Nat \ {0} /\ SplitOrderVolume(v) <= v
<1>1. setup.splitMin \in Nat /\ setup.splitMax \in Nat /\ setup.splitMin <= setup.splitMax
  BY SetupsAssumption
<1> QED BY <1>1 DEF SplitOrderVolume

BatchFits(q, s, d, r) == IsBatch(q, d) /\ PlanFits(q, s, d, r)

(* So does the batch with prices and split volumes.                        *)
LEMMA DesiredBatchFits ==
    ASSUME setup \in Setups, NEW s, SnapshotOk(s), NEW d \in Directions, NEW target,
           NEW r \in Int, r = target - NetPosition(s.volume), Toward(d, r) \in Nat
    PROVE  BatchFits(DesiredBatch(s, target), s, d, r)
<1> DEFINE plan == IF quote = None THEN <<>> ELSE ComputePlan(s, target)
           x(i) == [direction |-> plan[i].direction, offset |-> plan[i].offset,
                    volume |-> SplitOrderVolume(plan[i].volume), price |-> quote]
           u == DesiredBatch(s, target)
           n == Len(plan)
<1>1. u = [i \in DOMAIN plan |-> x(i)]
  BY DEF DesiredBatch
<1>2. PlanFits(plan, s, d, r)
  <2>1. PlanFits(<<>>, s, d, r)
    <3>1. HalfPlanned(PlanStart(r), s, d, r, {}) /\ PlanStart(r).batch = <<>>
      BY StartPlanned DEF PlanStart
    <3> QED BY <3>1, PlannedFits
  <2> QED BY <2>1, ComputePlanFits
<1> HIDE DEF plan, u
<1>3. IsPlan(plan, d)
  BY <1>2 DEF PlanFits
<1>4. n \in Nat /\ DOMAIN plan = 1 .. n
  BY <1>3 DEF IsPlan, IsList
<1>5. DOMAIN u = 1 .. n /\ u = [i \in 1 .. n |-> u[i]] /\ \A i \in 1 .. n : u[i] = x(i)
  BY <1>1, <1>4
<1>6. Len(u) = n
  <2> HIDE DEF n
  <2> QED BY <1>4, <1>5
<1>7. IsList(u)
  BY <1>4, <1>5, <1>6 DEF IsList
<1>8. ASSUME NEW i \in 1 .. n
      PROVE  /\ u[i].direction = d /\ u[i].offset = plan[i].offset /\ u[i].offset \in Offsets
             /\ u[i].volume \in Nat \ {0} /\ u[i].volume <= plan[i].volume
             /\ plan[i].volume \in Nat /\ DOMAIN u[i] = PricedFields
  <2>1. /\ plan[i].direction = d /\ plan[i].offset \in Offsets /\ plan[i].volume \in Nat \ {0}
    BY <1>3 DEF IsPlan
  <2>2. u[i] = x(i)
    BY <1>5
  <2>3. /\ x(i).direction = plan[i].direction /\ x(i).offset = plan[i].offset
        /\ x(i).volume = SplitOrderVolume(plan[i].volume) /\ DOMAIN x(i) = PricedFields
    BY DEF PricedFields
  <2> HIDE DEF x
  <2> QED BY <2>1, <2>2, <2>3, SplitFacts
<1> HIDE DEF x
<1>9. IsBatch(u, d) /\ IsPlan(u, d)
  BY <1>6, <1>7, <1>8 DEF IsBatch, IsPlan
<1>10. ASSUME NEW offs PROVE Volume(u, offs) <= Volume(plan, offs)
  <2> DEFINE f == Volumes(u, offs)
             g == Volumes(plan, offs)
             S == 1 .. n
  <2>1. IsFiniteSet(S) /\ \A i \in S : f[i] \in Nat /\ g[i] \in Nat
    BY <1>3, <1>6, <1>9, VolumesNat
  <2>2. \A i \in S : f[i] <= g[i]
    <3> SUFFICES ASSUME NEW i \in S PROVE f[i] <= g[i]
      OBVIOUS
    <3>1. f[i] = Share(u[i], offs) /\ g[i] = Share(plan[i], offs)
      BY <1>6 DEF Volumes
    <3>2. u[i].offset = plan[i].offset /\ u[i].volume <= plan[i].volume
      BY <1>8
    <3> HIDE DEF f, g
    <3> QED BY <3>1, <3>2 DEF Share
  <2>3. Volume(u, offs) = SumFunctionOnSet(f, S) /\ Volume(plan, offs) = SumFunctionOnSet(g, S)
    BY <1>6 DEF Volume
  <2> HIDE DEF f, g, S
  <2>4. SumFunctionOnSet(f, S) <= SumFunctionOnSet(g, S)
    BY <2>1, <2>2, SumAtMost
  <2> QED BY <2>3, <2>4
<1>11. \A offs : Volume(u, offs) \in Nat /\ Volume(plan, offs) \in Nat
  BY <1>3, <1>9, VolumesNat
<1>12. Volume(u, Offsets) <= Toward(d, r)
  BY <1>2, <1>10, <1>11 DEF PlanFits
<1>13. ASSUME NEW offs \in ClosingKinds PROVE Volume(u, offs) <= Closable(s, d, offs)
  <2>1. Volume(plan, offs) <= Closable(s, d, offs)
    BY <1>2 DEF PlanFits
  <2>2. Closable(s, d, offs) \in Int
    <3>1. /\ Closable(s, d, {"closeToday"}) \in Int /\ Closable(s, d, {"close"}) \in Int
          /\ Closable(s, d, {"close", "closeToday"}) \in Int
      BY ClosableFacts DEF Greatest
    <3>2. offs \in {{"closeToday"}, {"close"}, {"close", "closeToday"}}
      BY DEF ClosingKinds
    <3> QED BY <3>1, <3>2
  <2> QED BY <1>10, <1>11, <2>1, <2>2
<1>14. ASSUME ~setup.shfe PROVE Volume(u, {"closeToday"}) = 0
  <2>1. Volume(plan, {"closeToday"}) = 0
    BY <1>2, <1>14 DEF PlanFits
  <2> QED BY <1>10, <1>11, <2>1
<1> QED BY <1>9, <1>12, <1>13, <1>14 DEF BatchFits, PlanFits, u

-----------------------------------------------------------------------------
(* What is planned fits what is spare.                                     *)

(* The kinds of orders are different.                                      *)
LEMMA OffsetSetsDiffer ==
    /\ {"closeToday"} # Offsets /\ {"close"} # Offsets /\ {"close", "closeToday"} # Offsets
    /\ {"close"} # {"closeToday"} /\ {"close", "closeToday"} # {"closeToday"}
    /\ {"close", "closeToday"} # {"close"}
<1>1. "open" \in Offsets /\ "open" \notin {"closeToday"} /\ "open" \notin {"close"}
      /\ "open" \notin {"close", "closeToday"}
  BY DEF Offsets
<1>2. "close" \notin {"closeToday"} /\ "closeToday" \notin {"close"}
      /\ "close" \in {"close", "closeToday"} /\ "closeToday" \in {"close", "closeToday"}
  OBVIOUS
<1> QED BY <1>1, <1>2

(* The stocks of a position.                                               *)
LEMMA StockFacts ==
    ASSUME NEW p \in PositionType, NEW d \in Directions
    PROVE  /\ NetPosition(p) \in Int
           /\ Stock(p, d, Offsets) = IF d = "buy" THEN -NetPosition(p) ELSE NetPosition(p)
           /\ Stock(p, d, {"closeToday"}) = p[Today(d)]
           /\ Stock(p, d, {"close"}) = p[History(d)]
           /\ Stock(p, d, {"close", "closeToday"}) = p[Today(d)] + p[History(d)]
           /\ p[Today(d)] \in Nat /\ p[History(d)] \in Nat
           /\ \A offs \in ClosingKinds \cup {Offsets} : Stock(p, d, offs) \in Int
<1>1. p[Today(d)] \in Nat /\ p[History(d)] \in Nat
  BY BucketFacts
<1>2. NetPosition(p) \in Int
  BY DEF PositionType, NetPosition
<1>3. Stock(p, d, Offsets) = IF d = "buy" THEN -NetPosition(p) ELSE NetPosition(p)
  BY OffsetSetsDiffer DEF Stock
<1>4. /\ Stock(p, d, {"closeToday"}) = p[Today(d)]
      /\ Stock(p, d, {"close"}) = p[History(d)]
      /\ Stock(p, d, {"close", "closeToday"}) = p[Today(d)] + p[History(d)]
  BY OffsetSetsDiffer DEF Stock
<1>5. /\ Stock(p, d, Offsets) \in Int /\ Stock(p, d, {"closeToday"}) \in Int
      /\ Stock(p, d, {"close"}) \in Int /\ Stock(p, d, {"close", "closeToday"}) \in Int
  BY <1>1, <1>2, <1>3, <1>4
<1>6. \A offs \in ClosingKinds \cup {Offsets} : Stock(p, d, offs) \in Int
  BY <1>5 DEF ClosingKinds
<1> QED BY <1>1, <1>2, <1>3, <1>4, <1>6

(* The distance to a target, seen from a direction.                        *)
LEMMA TowardStock ==
    ASSUME NEW p \in PositionType, NEW d \in Directions, NEW v \in Int
    PROVE  /\ Toward(d, v - NetPosition(p)) = Toward(d, v) + Stock(p, d, Offsets)
           /\ Toward(d, v) \in Int
  BY StockFacts DEF Toward

Lefts == [o \in Orders |-> orders[o].left]

(* The orders alive, and those seen live, as sums.                         *)
LEMMA AliveSums ==
    ASSUME OrderTypes, NEW d \in Directions, NEW offs
    PROVE  /\ IsFiniteSet(AliveOf(d, offs)) /\ AliveOf(d, offs) \subseteq Orders
           /\ \A o \in Orders : Lefts[o] = orders[o].left /\ Lefts[o] \in Nat
           /\ Unfilled(AliveOf(d, offs)) = SumFunctionOnSet(Lefts, AliveOf(d, offs))
           /\ Unfilled(AliveOf(d, offs)) \in Nat
           /\ offs \in ClosingKinds \cup {Offsets} => Spare(d, offs) \in Int
<1>1. /\ IsFiniteSet(AliveOf(d, offs)) /\ AliveOf(d, offs) \subseteq Orders
  BY BoundsAssumption, FS_Subset DEF AliveOf
<1>2. \A o \in Orders : Lefts[o] = orders[o].left /\ Lefts[o] \in Nat
  BY DEF OrderTypes, Lefts
<1>3. Unfilled(AliveOf(d, offs)) = SumFunctionOnSet(Lefts, AliveOf(d, offs))
  BY DEF Unfilled, Lefts
<1>4. SumFunctionOnSet(Lefts, AliveOf(d, offs)) \in Nat
  BY <1>1, <1>2, SumIsNat
<1>5. pos \in PositionType
  BY DEF OrderTypes
<1>6. offs \in ClosingKinds \cup {Offsets} => Stock(pos, d, offs) \in Int
  BY <1>5, StockFacts
<1> QED BY <1>1, <1>2, <1>3, <1>4, <1>6 DEF Spare

LEMMA SeenSums ==
    ASSUME SeenTypes, NEW d \in Directions, NEW offs
    PROVE  /\ IsFiniteSet(SeenLiveOf(d, offs)) /\ SeenLiveOf(d, offs) \subseteq Orders
           /\ \A o \in Orders : SeenLefts[o] = seenOrders[o].left /\ SeenLefts[o] \in Nat
           /\ SeenOut(d, offs) \in Nat
<1>1. /\ IsFiniteSet(SeenLiveOf(d, offs)) /\ SeenLiveOf(d, offs) \subseteq Orders
  BY BoundsAssumption, FS_Subset DEF SeenLiveOf
<1>2. \A o \in Orders : SeenLefts[o] = seenOrders[o].left /\ SeenLefts[o] \in Nat
  BY DEF SeenTypes, SeenLefts, NoOrder
<1>3. SeenOut(d, offs) \in Nat
  BY <1>1, <1>2, SumIsNat DEF SeenOut
<1> QED BY <1>1, <1>2, <1>3

(* What is seen frozen is frozen for one of the two kinds of closing.      *)
LEMMA SeenOutSplits ==
    ASSUME SeenTypes, NEW d \in Directions
    PROVE  SeenOut(d, {"close", "closeToday"}) = SeenOut(d, {"closeToday"}) + SeenOut(d, {"close"})
<1> DEFINE A == SeenLiveOf(d, {"closeToday"})
           B == SeenLiveOf(d, {"close"})
<1>1. SeenLiveOf(d, {"close", "closeToday"}) = A \cup B /\ A \cap B = {}
  BY DEF SeenLiveOf
<1>2. /\ IsFiniteSet(A) /\ IsFiniteSet(B) /\ A \subseteq Orders /\ B \subseteq Orders
      /\ \A o \in Orders : SeenLefts[o] \in Nat
  BY SeenSums
<1> HIDE DEF A, B
<1>3. \A o \in A \cup B : SeenLefts[o] \in Nat
  BY <1>2
<1>4. SumFunctionOnSet(SeenLefts, A \cup B) = SumFunctionOnSet(SeenLefts, A)
                                                + SumFunctionOnSet(SeenLefts, B)
  BY <1>1, <1>2, <1>3, SumUnion
<1> QED BY <1>1, <1>4 DEF SeenOut, A, B

(* With the orders of the batch that are not yet sent, what the state      *)
(* shows alive makes up the batch that was planned.                        *)
Completes(q, batch, live, d) ==
    /\ IsBatch(q, d) /\ \A o \in live : seenOrders[o].direction = d
    /\ \A offs : Volume(batch, offs) = Volume(q, offs)
                    + SumFunctionOnSet(SeenLefts, {o \in live : seenOrders[o].offset \in offs})

(* The orders missing of a planned batch fit into what is spare in truth:  *)
(* together with the live orders they fit into what is spare in the state, *)
(* and every order is seen.                                                *)
LEMMA SubmissionFits ==
    ASSUME OrderInv, KnownInv, OrderTypes, SeenTypes, SpareInv, RoomInv, asked \subseteq Int,
           wanted.target \in asked, NEW live, live = {o \in task.tracked : ~Terminal(o)},
           \A o \in live : ~Unmaterialized(o), NEW d \in Directions,
           NEW r \in Int, r = wanted.target - NetPosition(seenPos.volume), Toward(d, r) \in Nat,
           NEW batch, BatchFits(batch, seenPos, d, r),
           NEW q, Completes(q, batch, live, d)
    PROVE  IsBatch(q, d) /\ Fits(q, d)
<1> DEFINE v == wanted.target
           p == seenPos.volume
<1>1. v \in Int /\ p \in PositionType /\ IsBatch(q, d) /\ IsPlan(q, d) /\ IsPlan(batch, d)
  BY DEF OrderTypes, Completes, BatchFits, IsBatch
<1>2. AllSeen
  <2> SUFFICES ASSUME NEW o \in Used, seenOrders[o] = NoOrder PROVE FALSE
    BY DEF AllSeen
  <2>1. ~SeenDone(o)
    BY DEF SeenDone, NoOrder
  <2>2. o \in live
    BY <2>1 DEF KnownInv, Terminal, SeenDone
  <2> QED BY <2>2 DEF Unmaterialized
<1>3. ASSUME NEW offs
      PROVE  SeenLiveOf(d, offs) = {o \in live : seenOrders[o].offset \in offs}
  <2>1. ASSUME NEW o \in SeenLiveOf(d, offs) PROVE o \in live /\ seenOrders[o].offset \in offs
    <3>1. o \in Orders /\ seenOrders[o].state = "live" /\ seenOrders[o].offset \in offs
      BY DEF SeenLiveOf
    <3>2. orders[o].state # "none"
      BY <3>1 DEF SeenTypes, NoOrder
    <3>3. o \in Used /\ ~SeenDone(o)
      BY <3>1, <3>2 DEF Used, SeenDone
    <3> QED BY <3>1, <3>3 DEF KnownInv, Terminal, SeenDone
  <2>2. ASSUME NEW o \in live, seenOrders[o].offset \in offs PROVE o \in SeenLiveOf(d, offs)
    <3>1. o \in Orders /\ seenOrders[o].state # "done" /\ seenOrders[o] # NoOrder
      BY DEF KnownInv, Used, Terminal, Unmaterialized
    <3>2. seenOrders[o].state = "live"
      BY <3>1 DEF SeenTypes
    <3> QED BY <2>2, <3>1, <3>2 DEF SeenLiveOf, Completes
  <2> QED BY <2>1, <2>2
<1>4. \A offs : Volume(batch, offs) = Volume(q, offs) + SeenOut(d, offs)
  BY <1>3 DEF Completes, SeenOut
<1>5. \A offs : Volume(batch, offs) \in Nat /\ Volume(q, offs) \in Nat /\ SeenOut(d, offs) \in Nat
  BY <1>1, VolumesNat, SeenSums
<1>6. \A offs \in ClosingKinds \cup {Offsets} :
         SeenSpare(d, offs) <= Spare(d, offs) /\ Spare(d, offs) \in Int
  BY <1>2, AliveSums DEF SpareInv
<1>7. Volume(q, Offsets) <= Toward(d, v) + Spare(d, Offsets)
  <2>1. Volume(batch, Offsets) <= Toward(d, r)
    BY DEF BatchFits, PlanFits
  <2>2. Toward(d, r) = Toward(d, v) + Stock(p, d, Offsets) /\ Toward(d, v) \in Int
    BY <1>1, TowardStock
  <2>3. Stock(p, d, Offsets) \in Int
    BY <1>1, StockFacts
  <2>4. Stock(p, d, Offsets) - SeenOut(d, Offsets) <= Spare(d, Offsets) /\ Spare(d, Offsets) \in Int
    BY <1>6 DEF SeenSpare
  <2>5. Volume(batch, Offsets) = Volume(q, Offsets) + SeenOut(d, Offsets)
    BY <1>4
  <2>6. /\ Volume(batch, Offsets) \in Nat /\ Volume(q, Offsets) \in Nat
        /\ SeenOut(d, Offsets) \in Nat
    BY <1>5
  <2> HIDE DEF v, p
  <2> QED BY <2>1, <2>2, <2>3, <2>4, <2>5, <2>6
<1>8. ASSUME NEW offs \in ClosingKinds PROVE Volume(q, offs) <= Spare(d, offs)
  <2>1. /\ Volume(batch, offs) <= Closable(seenPos, d, offs)
        /\ Volume(batch, offs) = Volume(q, offs) + SeenOut(d, offs)
        /\ Volume(batch, offs) \in Nat /\ Volume(q, offs) \in Nat /\ SeenOut(d, offs) \in Nat
    BY <1>4, <1>5 DEF BatchFits, PlanFits
  <2>2. Frozen(seenPos, d, offs) = SeenOut(d, offs)
    <3>1. /\ Frozen(seenPos, d, {"closeToday"}) = seenPos.frozenToday[d]
          /\ Frozen(seenPos, d, {"close"}) = seenPos.frozenHis[d]
          /\ Frozen(seenPos, d, {"close", "closeToday"})
                = seenPos.frozenToday[d] + seenPos.frozenHis[d]
      BY OffsetSetsDiffer DEF Frozen
    <3>2. /\ seenPos.frozenToday[d] = SeenOut(d, {"closeToday"})
          /\ seenPos.frozenHis[d] = SeenOut(d, {"close"})
      BY DEF SeenTypes
    <3>3. offs \in {{"closeToday"}, {"close"}, {"close", "closeToday"}}
      BY DEF ClosingKinds
    <3> QED BY <3>1, <3>2, <3>3, SeenOutSplits
  <2>3. Stock(p, d, offs) \in Int
    BY <1>1, StockFacts
  <2>4. Stock(p, d, offs) - SeenOut(d, offs) <= Spare(d, offs) /\ Spare(d, offs) \in Int
    BY <1>6 DEF SeenSpare
  <2>5. 0 <= Spare(d, offs)
    BY DEF RoomInv
  <2>6. Closable(seenPos, d, offs) = Greatest(0, Stock(p, d, offs) - SeenOut(d, offs))
    BY <2>2 DEF Closable
  <2> HIDE DEF p
  <2> QED BY <2>1, <2>3, <2>4, <2>5, <2>6 DEF Greatest
<1>9. ASSUME ~setup.shfe PROVE Volume(q, {"closeToday"}) = 0
  <2>1. Volume(batch, {"closeToday"}) = 0
    BY <1>9 DEF BatchFits, PlanFits
  <2> QED BY <1>4, <1>5, <2>1
<1>10. \E x \in asked : Volume(q, Offsets) <= Toward(d, x) + Spare(d, Offsets)
  BY <1>7
<1> QED BY <1>1, <1>8, <1>9, <1>10 DEF Fits

-----------------------------------------------------------------------------
(* The steps of the exchange and of the runtime.                           *)

(* The part about the exchange and the runtime state.                      *)
MarketInv == OrderTypes /\ SeenTypes /\ SpareInv
SparesKept == \A d \in Directions, offs \in ClosingKinds \cup {Offsets} :
                 Spare(d, offs) <= Spare(d, offs)'

(* What is spare depends on the orders alive and the position.             *)
LEMMA SparesSame ==
    ASSUME OrderTypes, UNCHANGED <<setup, pos>>,
           \A o \in Orders : /\ orders'[o].left = orders[o].left
                             /\ orders'[o].direction = orders[o].direction
                             /\ orders'[o].offset = orders[o].offset
                             /\ orders'[o].state \in {"sent", "live"}
                                   <=> orders[o].state \in {"sent", "live"}
    PROVE  \A d \in Directions : \A offs : Spare(d, offs)' = Spare(d, offs)
<1> SUFFICES ASSUME NEW d \in Directions, NEW offs PROVE Spare(d, offs)' = Spare(d, offs)
  OBVIOUS
<1>1. AliveOf(d, offs)' = AliveOf(d, offs)
  BY DEF AliveOf, Alive
<1>2. Lefts' = Lefts
  BY DEF Lefts
<1>3. Unfilled(AliveOf(d, offs))' = SumFunctionOnSet(Lefts', AliveOf(d, offs)')
  BY DEF Unfilled, Lefts
<1>4. Unfilled(AliveOf(d, offs)) = SumFunctionOnSet(Lefts, AliveOf(d, offs))
  BY DEF Unfilled, Lefts
<1>5. Unfilled(AliveOf(d, offs))' = Unfilled(AliveOf(d, offs))
  BY <1>1, <1>2, <1>3, <1>4
<1> HIDE DEF Spare
<1>6. Spare(d, offs)' = Stock(pos', d, offs) - Unfilled(AliveOf(d, offs))'
  BY DEF Spare, Stock, NetPosition
<1> QED BY <1>5, <1>6 DEF Spare

(* What is seen spare depends on the state only.                           *)
LEMMA SeenSame ==
    ASSUME SeenTypes, UNCHANGED <<seenOrders, seenPos>>,
           \A o \in Orders : \/ seenOrders[o] = NoOrder
                             \/ /\ orders'[o].direction = orders[o].direction
                                /\ orders'[o].offset = orders[o].offset
                                /\ orders'[o].state # "none"
    PROVE  /\ SeenTypes'
           /\ \A d, offs : SeenOut(d, offs)' = SeenOut(d, offs)
                           /\ SeenSpare(d, offs)' = SeenSpare(d, offs)
<1>1. \A d, offs : SeenOut(d, offs)' = SeenOut(d, offs)
  BY DEF SeenOut, SeenLefts, SeenLiveOf
<1>2. \A d, offs : SeenSpare(d, offs)' = SeenSpare(d, offs)
  BY <1>1 DEF SeenSpare, Stock, NetPosition
<1>3. \A o \in Orders : orders'[o].state = "none" => seenOrders[o] = NoOrder
  OBVIOUS
<1>4. SeenTypes'
  BY <1>1, <1>3 DEF SeenTypes
<1> QED BY <1>1, <1>2, <1>4

(* A step that fills nothing and ends nothing changes no spare.            *)
LEMMA MarketQuiet ==
    ASSUME MarketInv, UNCHANGED <<setup, pos, seenOrders, seenPos>>, Used' = Used,
           \A o \in Orders : /\ orders'[o].left = orders[o].left
                             /\ orders'[o].direction = orders[o].direction
                             /\ orders'[o].offset = orders[o].offset
                             /\ orders'[o].state = "none" => orders'[o] = NoOrder
                             /\ orders'[o].state \in {"sent", "live"}
                                   <=> orders[o].state \in {"sent", "live"}
    PROVE  MarketInv' /\ SparesKept
<1>1. \A d \in Directions : \A offs : Spare(d, offs)' = Spare(d, offs)
  BY SparesSame DEF MarketInv
<1>2. OrderTypes'
  BY DEF MarketInv, OrderTypes, PositionType
<1>3. \A o \in Orders : orders'[o].state = "none" <=> orders[o].state = "none"
  BY DEF Used
<1>4. /\ SeenTypes'
      /\ \A d, offs : SeenSpare(d, offs)' = SeenSpare(d, offs)
  <2>1. \A o \in Orders : \/ seenOrders[o] = NoOrder
                          \/ /\ orders'[o].direction = orders[o].direction
                             /\ orders'[o].offset = orders[o].offset
                             /\ orders'[o].state # "none"
    BY <1>3 DEF MarketInv, SeenTypes
  <2> QED BY <2>1, SeenSame DEF MarketInv
<1>5. AllSeen' => AllSeen
  BY DEF AllSeen
<1>6. ClosingKinds' = ClosingKinds
  BY DEF ClosingKinds
<1>7. SpareInv'
  BY <1>1, <1>4, <1>5, <1>6 DEF MarketInv, SpareInv
<1>8. SparesKept
  <2> SUFFICES ASSUME NEW d \in Directions, NEW offs \in ClosingKinds \cup {Offsets}
               PROVE  Spare(d, offs) <= Spare(d, offs)'
    BY DEF SparesKept
  <2>1. Spare(d, offs) \in Int
    BY AliveSums DEF MarketInv
  <2> QED BY <1>1, <2>1
<1> QED BY <1>2, <1>4, <1>7, <1>8 DEF MarketInv

(* What an order contributes to the volume alive.                          *)
Portion(o, d, offs) == IF o \in AliveOf(d, offs) THEN orders[o].left ELSE 0

(* A step on one order changes the volume alive by that order's part.      *)
LEMMA OutChanges ==
    ASSUME OrderTypes, OrderTypes', NEW o \in Orders,
           \A q \in Orders \ {o} : orders'[q] = orders[q],
           NEW d \in Directions, NEW offs
    PROVE  /\ Unfilled(AliveOf(d, offs))' - Portion(o, d, offs)'
                = Unfilled(AliveOf(d, offs)) - Portion(o, d, offs)
           /\ Unfilled(AliveOf(d, offs))' \in Nat /\ Unfilled(AliveOf(d, offs)) \in Nat
           /\ Portion(o, d, offs) <= Unfilled(AliveOf(d, offs))
           /\ Portion(o, d, offs) \in Nat /\ Portion(o, d, offs)' \in Nat
<1> DEFINE S == AliveOf(d, offs)
           T == AliveOf(d, offs)'
           f == Lefts
           g == Lefts'
<1>1. S \subseteq Orders /\ T \subseteq Orders /\ S \ {o} = T \ {o}
  BY DEF AliveOf, Alive
<1>2. \A q \in Orders : f[q] = orders[q].left /\ f[q] \in Nat
  BY DEF OrderTypes, Lefts
<1>3. \A q \in Orders : g[q] = orders'[q].left /\ g[q] \in Nat
  BY DEF OrderTypes, Lefts
<1>4. \A q \in S \ {o} : f[q] = g[q]
  BY <1>1, <1>2, <1>3
<1>5. IsFiniteSet(S) /\ IsFiniteSet(T)
  BY <1>1, BoundsAssumption, FS_Subset
<1>6. /\ Unfilled(AliveOf(d, offs)) = SumFunctionOnSet(f, S)
      /\ Unfilled(AliveOf(d, offs))' = SumFunctionOnSet(g, T)
  BY DEF Unfilled, Lefts
<1>7. Portion(o, d, offs) = Part(f, S, o) /\ Portion(o, d, offs)' = Part(g, T, o)
  BY <1>2, <1>3 DEF Portion, Part
<1> HIDE DEF S, T, f, g
<1>8. SumFunctionOnSet(f, S) - Part(f, S, o) = SumFunctionOnSet(g, T) - Part(g, T, o)
  BY <1>1, <1>2, <1>3, <1>4, <1>5, SumChange
<1>9. SumFunctionOnSet(f, S) \in Nat /\ SumFunctionOnSet(g, T) \in Nat
  BY <1>1, <1>2, <1>3, <1>5, SumIsNat
<1>10. Part(f, S, o) <= SumFunctionOnSet(f, S)
  <2>1. CASE o \in S
    <3>1. SumFunctionOnSet(f, S) = f[o] + SumFunctionOnSet(f, S \ {o})
      BY <1>1, <1>2, <1>5, <2>1, SumRemove
    <3>2. SumFunctionOnSet(f, S \ {o}) \in Nat
      BY <1>1, <1>2, <1>5, SumIsNat, FS_Subset
    <3> QED BY <1>2, <2>1, <3>1, <3>2 DEF Part
  <2>2. CASE o \notin S
    BY <1>9, <2>2 DEF Part
  <2> QED BY <2>1, <2>2
<1>11. Part(f, S, o) \in Nat /\ Part(g, T, o) \in Nat
  BY <1>2, <1>3 DEF Part
<1> QED BY <1>6, <1>7, <1>8, <1>9, <1>10, <1>11

Opposite(d) == IF d = "buy" THEN "sell" ELSE "buy"

(* From p to u an order in direction d opens e lots and closes a of        *)
(* today's and b of older ones.                                            *)
Moves(p, u, d, e, a, b) ==
    /\ u[Today(Opposite(d))] = p[Today(Opposite(d))] + e
    /\ u[History(Opposite(d))] = p[History(Opposite(d))]
    /\ u[Today(d)] = p[Today(d)] - a
    /\ u[History(d)] = p[History(d)] - b

(* What a fill of e opened, a of today's and b of earlier positions closed *)
(* does to the stocks of both directions.                                  *)
LEMMA MovedStock ==
    ASSUME NEW p \in PositionType, NEW u \in PositionType, NEW c \in Directions,
           NEW e \in Nat, NEW a \in Nat, NEW b \in Nat, Moves(p, u, c, e, a, b),
           NEW d \in Directions
    PROVE  /\ Stock(u, d, Offsets) = Stock(p, d, Offsets)
                                       + (IF d = c THEN -(e + a + b) ELSE e + a + b)
           /\ Stock(u, d, {"closeToday"}) = Stock(p, d, {"closeToday"})
                                             + (IF d = c THEN -a ELSE e)
           /\ Stock(u, d, {"close"}) = Stock(p, d, {"close"}) + (IF d = c THEN -b ELSE 0)
           /\ Stock(u, d, {"close", "closeToday"}) = Stock(p, d, {"close", "closeToday"})
                                             + (IF d = c THEN -(a + b) ELSE e)
<1>1. /\ p.longToday \in Nat /\ p.longHis \in Nat /\ p.shortToday \in Nat /\ p.shortHis \in Nat
      /\ u.longToday \in Nat /\ u.longHis \in Nat /\ u.shortToday \in Nat /\ u.shortHis \in Nat
  BY DEF PositionType
<1>2. \A q \in PositionType :
        /\ Stock(q, d, Offsets) = IF d = "buy" THEN -NetPosition(q) ELSE NetPosition(q)
        /\ Stock(q, d, {"closeToday"}) = q[Today(d)]
        /\ Stock(q, d, {"close"}) = q[History(d)]
        /\ Stock(q, d, {"close", "closeToday"}) = q[Today(d)] + q[History(d)]
  BY StockFacts
<1>3. CASE c = "buy"
  <2>1. /\ u.longToday = p.longToday + e /\ u.longHis = p.longHis
        /\ u.shortToday = p.shortToday - a /\ u.shortHis = p.shortHis - b
    BY <1>3 DEF Moves, Opposite, Today, History
  <2>2. NetPosition(u) = NetPosition(p) + (e + a + b) /\ NetPosition(p) \in Int
    BY <1>1, <2>1 DEF NetPosition
  <2>3. CASE d = "buy"
    BY <1>1, <1>2, <1>3, <2>1, <2>2, <2>3 DEF Today, History
  <2>4. CASE d = "sell"
    BY <1>1, <1>2, <1>3, <2>1, <2>2, <2>4 DEF Today, History
  <2> QED BY <2>3, <2>4 DEF Directions
<1>4. CASE c = "sell"
  <2>1. /\ u.shortToday = p.shortToday + e /\ u.shortHis = p.shortHis
        /\ u.longToday = p.longToday - a /\ u.longHis = p.longHis - b
    BY <1>4 DEF Moves, Opposite, Today, History
  <2>2. NetPosition(u) = NetPosition(p) - (e + a + b) /\ NetPosition(p) \in Int
    BY <1>1, <2>1 DEF NetPosition
  <2>3. CASE d = "buy"
    BY <1>1, <1>2, <1>4, <2>1, <2>2, <2>3 DEF Today, History
  <2>4. CASE d = "sell"
    BY <1>1, <1>2, <1>4, <2>1, <2>2, <2>4 DEF Today, History
  <2> QED BY <2>3, <2>4 DEF Directions
<1> QED BY <1>3, <1>4 DEF Directions

(* An order alive is part of what is outstanding.                          *)
LEMMA AlivePart ==
    ASSUME OrderTypes, NEW o \in Orders, NEW d \in Directions, NEW offs,
           Alive(o), orders[o].direction = d, orders[o].offset \in offs
    PROVE  orders[o].left <= Unfilled(AliveOf(d, offs))
<1> DEFINE S == AliveOf(d, offs)
<1>1. /\ IsFiniteSet(S) /\ S \subseteq Orders
      /\ \A q \in Orders : Lefts[q] = orders[q].left /\ Lefts[q] \in Nat
      /\ Unfilled(S) = SumFunctionOnSet(Lefts, S)
  BY AliveSums
<1>2. o \in S
  BY DEF AliveOf
<1> HIDE DEF S
<1>3. SumFunctionOnSet(Lefts, S) = Lefts[o] + SumFunctionOnSet(Lefts, S \ {o})
  BY <1>1, <1>2, SumRemove
<1>4. SumFunctionOnSet(Lefts, S \ {o}) \in Nat
  BY <1>1, SumIsNat, FS_Subset
<1> QED BY <1>1, <1>3, <1>4 DEF S

(* How a fill of v lots divides, by the offset of the order.               *)
FillDivides(offset, e, a, b) ==
    /\ offset = "open" => a = 0 /\ b = 0
    /\ offset = "closeToday" => e = 0 /\ b = 0 /\ setup.shfe
    /\ offset = "close" => e = 0 /\ (setup.shfe => a = 0)

(* A fill (Taken) takes nothing below zero, since the closing orders alive *)
(* fit into the position.                                                  *)
LEMMA FillPosition ==
    ASSUME OrderTypes, RoomInv, NEW o \in Orders, Alive(o), NEW v \in Nat, v <= orders[o].left
    PROVE  \E e, a, b \in Nat :
              /\ Taken(o, v) \in PositionType
              /\ Moves(pos, Taken(o, v), orders[o].direction, e, a, b)
              /\ e + a + b = v /\ FillDivides(orders[o].offset, e, a, b)
<1> DEFINE d == orders[o].direction
           F == orders[o].offset
           u == Taken(o, v)
           B == {"longToday", "longHis", "shortToday", "shortHis"}
<1>1. d \in Directions /\ F \in Offsets /\ orders[o].left \in Nat /\ setup \in Setups
      /\ (F = "closeToday" => setup.shfe) /\ pos \in [B -> Nat] /\ setup.shfe \in BOOLEAN
  BY SetupsAssumption DEF OrderTypes, PositionType
<1>2. /\ Today(d) \in B /\ History(d) \in B /\ Today(Opposite(d)) \in B
      /\ History(Opposite(d)) \in B /\ Today(d) # History(d)
      /\ Today(d) # Today(Opposite(d)) /\ Today(d) # History(Opposite(d))
      /\ History(d) # Today(Opposite(d)) /\ History(d) # History(Opposite(d))
      /\ Today(Opposite(d)) # History(Opposite(d))
      /\ (IF d = "buy" THEN "longToday" ELSE "shortToday") = Today(Opposite(d))
  BY <1>1 DEF Directions, Today, History, Opposite
<1>3. ASSUME NEW offs \in ClosingKinds, F \in offs PROVE v <= Stock(pos, d, offs)
  <2>1. orders[o].left <= Unfilled(AliveOf(d, offs)) /\ Unfilled(AliveOf(d, offs)) \in Nat
    BY <1>1, <1>3, AlivePart, AliveSums
  <2>2. 0 <= Spare(d, offs)
    BY <1>1 DEF RoomInv
  <2>3. Stock(pos, d, offs) \in Int
    BY <1>1, StockFacts DEF OrderTypes
  <2> QED BY <1>1, <2>1, <2>2, <2>3 DEF Spare
<1>4. /\ Stock(pos, d, {"closeToday"}) = pos[Today(d)]
      /\ Stock(pos, d, {"close"}) = pos[History(d)]
      /\ Stock(pos, d, {"close", "closeToday"}) = pos[Today(d)] + pos[History(d)]
  BY <1>1, StockFacts DEF PositionType
<1>5. pos[Today(d)] \in Nat /\ pos[History(d)] \in Nat /\ pos[Today(Opposite(d))] \in Nat
  BY <1>1, <1>2
<1> HIDE DEF B, d, F
<1>6. CASE F = "open"
  <2>1. u = [pos EXCEPT ![Today(Opposite(d))] = pos[Today(Opposite(d))] + v]
    BY <1>2, <1>6 DEF Taken, F, d
  <2>2. u \in [B -> Nat] /\ Moves(pos, u, d, v, 0, 0)
    BY <1>1, <1>2, <1>5, <2>1 DEF Moves
  <2>3. FillDivides(F, v, 0, 0) /\ v + 0 + 0 = v
    BY <1>6 DEF FillDivides
  <2> HIDE DEF u
  <2> QED BY <2>2, <2>3 DEF PositionType, B, u, d, F
<1>7. CASE F = "closeToday"
  <2>1. u = [pos EXCEPT ![Today(d)] = pos[Today(d)] - v]
    BY <1>7 DEF Taken, F, d
  <2>2. {"closeToday"} \in ClosingKinds /\ F \in {"closeToday"}
    BY <1>1, <1>7 DEF ClosingKinds
  <2>3. v <= pos[Today(d)]
    BY <1>3, <1>4, <2>2
  <2>4. u \in [B -> Nat] /\ Moves(pos, u, d, 0, v, 0)
    BY <1>1, <1>2, <1>5, <2>1, <2>3 DEF Moves
  <2>5. FillDivides(F, 0, v, 0) /\ 0 + v + 0 = v
    BY <1>1, <1>7 DEF FillDivides
  <2> HIDE DEF u
  <2> QED BY <2>4, <2>5 DEF PositionType, B, u, d, F
<1>8. CASE F = "close" /\ setup.shfe
  <2>1. u = [pos EXCEPT ![History(d)] = pos[History(d)] - v]
    BY <1>8 DEF Taken, F, d
  <2>2. {"close"} \in ClosingKinds /\ F \in {"close"}
    BY <1>8 DEF ClosingKinds
  <2>3. v <= pos[History(d)]
    BY <1>3, <1>4, <2>2
  <2>4. u \in [B -> Nat] /\ Moves(pos, u, d, 0, 0, v)
    BY <1>1, <1>2, <1>5, <2>1, <2>3 DEF Moves
  <2>5. FillDivides(F, 0, 0, v) /\ 0 + 0 + v = v
    BY <1>8 DEF FillDivides
  <2> HIDE DEF u
  <2> QED BY <2>4, <2>5 DEF PositionType, B, u, d, F
<1>9. CASE F = "close" /\ ~setup.shfe
  <2> DEFINE a == Least(v, pos[Today(d)])
             b == v - a
  <2>1. u = [pos EXCEPT ![Today(d)] = pos[Today(d)] - a, ![History(d)] = pos[History(d)] - b]
    <3>1. u = [pos EXCEPT ![Today(d)] = @ - Least(v, @),
                          ![History(d)] = @ - (v - Least(v, pos[Today(d)]))]
      BY <1>9 DEF Taken, F, d
    <3> QED BY <1>1, <1>2, <3>1
  <2>2. {"close", "closeToday"} \in ClosingKinds /\ F \in {"close", "closeToday"}
    BY <1>9 DEF ClosingKinds
  <2>3. v <= pos[Today(d)] + pos[History(d)]
    BY <1>3, <1>4, <2>2
  <2>4. /\ a \in Nat /\ b \in Nat /\ a <= pos[Today(d)] /\ b <= pos[History(d)]
        /\ 0 + a + b = v
    BY <1>5, <2>3 DEF Least
  <2> HIDE DEF a, b
  <2>5. u \in [B -> Nat] /\ Moves(pos, u, d, 0, a, b)
    BY <1>1, <1>2, <1>5, <2>1, <2>4 DEF Moves
  <2>6. FillDivides(F, 0, a, b)
    BY <1>9 DEF FillDivides
  <2> HIDE DEF u
  <2> QED BY <2>4, <2>5, <2>6 DEF PositionType, B, u, d, F
<1> QED BY <1>1, <1>6, <1>7, <1>8, <1>9 DEF Offsets

(* A stock loses at most the lots filled, and only to an order that takes  *)
(* from it.                                                                *)
LEMMA FillStock ==
    ASSUME setup \in Setups, NEW p \in PositionType, NEW u \in PositionType, NEW c \in Directions,
           NEW F \in Offsets, NEW e \in Nat, NEW a \in Nat, NEW b \in Nat,
           Moves(p, u, c, e, a, b), FillDivides(F, e, a, b),
           NEW d \in Directions, NEW offs \in ClosingKinds \cup {Offsets}
    PROVE  Stock(u, d, offs) >= Stock(p, d, offs)
                                  - (IF c = d /\ F \in offs THEN e + a + b ELSE 0)
<1> DEFINE v == e + a + b
           T == {"closeToday"}
           H == {"close"}
           C == {"close", "closeToday"}
<1>1. /\ Stock(u, d, Offsets) = Stock(p, d, Offsets) + (IF d = c THEN -(e + a + b) ELSE e + a + b)
      /\ Stock(u, d, T) = Stock(p, d, T) + (IF d = c THEN -a ELSE e)
      /\ Stock(u, d, H) = Stock(p, d, H) + (IF d = c THEN -b ELSE 0)
      /\ Stock(u, d, C) = Stock(p, d, C) + (IF d = c THEN -(a + b) ELSE e)
  BY MovedStock
<1>2. /\ Stock(p, d, Offsets) \in Int /\ Stock(p, d, T) \in Int /\ Stock(p, d, H) \in Int
      /\ Stock(p, d, C) \in Int
  BY StockFacts
<1>3. setup.shfe \in BOOLEAN
  BY SetupsAssumption
<1>4. /\ F \in T => F = "closeToday"
      /\ F \in H <=> F = "close"
      /\ F \in T <=> F = "closeToday"
      /\ F \in C <=> F # "open"
      /\ F \in {"open", "close", "closeToday"}
  BY DEF Offsets
<1>5. CASE offs = Offsets
  <2> HIDE DEF v, T, H, C
  <2> QED BY <1>1, <1>2, <1>5
<1>6. CASE setup.shfe /\ offs = T
  <2>1. F # "closeToday" => a = 0
    BY <1>4, <1>6 DEF FillDivides
  <2>2. Stock(u, d, offs) = Stock(p, d, offs) + (IF d = c THEN -a ELSE e) /\ Stock(p, d, offs) \in Int
        /\ (F \in offs <=> F = "closeToday")
    BY <1>1, <1>2, <1>4, <1>6
  <2> HIDE DEF T, H, C
  <2> QED BY <2>1, <2>2
<1>7. CASE setup.shfe /\ offs = H
  <2>1. F # "close" => b = 0
    BY <1>4, <1>7 DEF FillDivides
  <2>2. Stock(u, d, offs) = Stock(p, d, offs) + (IF d = c THEN -b ELSE 0) /\ Stock(p, d, offs) \in Int
        /\ (F \in offs <=> F = "close")
    BY <1>1, <1>2, <1>4, <1>7
  <2> HIDE DEF T, H, C
  <2> QED BY <2>1, <2>2
<1>8. CASE ~setup.shfe /\ offs = C
  <2>1. F = "open" => a = 0 /\ b = 0
    BY DEF FillDivides
  <2>2. Stock(u, d, offs) = Stock(p, d, offs) + (IF d = c THEN -(a + b) ELSE e)
        /\ Stock(p, d, offs) \in Int /\ (F \in offs <=> F # "open")
    BY <1>1, <1>2, <1>4, <1>8
  <2> HIDE DEF T, H, C
  <2> QED BY <2>1, <2>2
<1>9. offs = Offsets \/ (setup.shfe /\ offs = T) \/ (setup.shfe /\ offs = H)
      \/ (~setup.shfe /\ offs = C)
  BY <1>3 DEF ClosingKinds
<1> QED BY <1>5, <1>6, <1>7, <1>8, <1>9

(* When the state stays and the spares grow.                               *)
LEMMA SparesGrow ==
    ASSUME MarketInv, OrderTypes', SparesKept, UNCHANGED <<setup, seenOrders, seenPos>>,
           Used' = Used,
           \A o \in Orders : /\ orders'[o].direction = orders[o].direction
                             /\ orders'[o].offset = orders[o].offset,
           \A d \in Directions, offs \in ClosingKinds \cup {Offsets} : Spare(d, offs)' \in Int
    PROVE  MarketInv'
<1>1. \A o \in Orders : orders'[o].state = "none" <=> orders[o].state = "none"
  BY DEF Used
<1>2. /\ SeenTypes'
      /\ \A d, offs : SeenOut(d, offs)' = SeenOut(d, offs)
                      /\ SeenSpare(d, offs)' = SeenSpare(d, offs)
  <2>1. \A o \in Orders : \/ seenOrders[o] = NoOrder
                          \/ /\ orders'[o].direction = orders[o].direction
                             /\ orders'[o].offset = orders[o].offset
                             /\ orders'[o].state # "none"
    BY <1>1 DEF MarketInv, SeenTypes
  <2> QED BY <2>1, SeenSame DEF MarketInv
<1>3. AllSeen' => AllSeen
  BY DEF AllSeen
<1>4. ClosingKinds' = ClosingKinds
  BY DEF ClosingKinds
<1>5. SpareInv'
  <2> SUFFICES ASSUME AllSeen', NEW d \in Directions, NEW offs \in ClosingKinds \cup {Offsets}
               PROVE  SeenSpare(d, offs)' <= Spare(d, offs)'
    BY <1>4 DEF SpareInv
  <2>1. SeenSpare(d, offs) <= Spare(d, offs)
    BY <1>3 DEF MarketInv, SpareInv
  <2>2. Spare(d, offs) <= Spare(d, offs)' /\ SeenSpare(d, offs)' = SeenSpare(d, offs)
    BY <1>2 DEF SparesKept
  <2>3. Spare(d, offs) \in Int /\ Spare(d, offs)' \in Int /\ SeenSpare(d, offs) \in Int
    <3>1. Stock(seenPos.volume, d, offs) \in Int
      BY StockFacts DEF MarketInv, OrderTypes
    <3>2. SeenOut(d, offs) \in Nat
      BY SeenSums DEF MarketInv
    <3> QED BY <3>1, <3>2, AliveSums DEF MarketInv, SeenSpare
  <2> QED BY <2>1, <2>2, <2>3
<1> QED BY <1>2, <1>5 DEF MarketInv

(* An order that ends gives back what it had left.                         *)
LEMMA EndMoves ==
    ASSUME ExchangeInv, MarketInv, NEW o \in Orders, End(o)
    PROVE  MarketInv' /\ SparesKept
<1>1. /\ orders' = [orders EXCEPT ![o].state = "done"] /\ Alive(o)
      /\ UNCHANGED <<setup, pos, seenOrders, seenPos>>
  BY DEF End, runtime
<1>2. DOMAIN orders[o] = OrderFields /\ orders = [q \in Orders |-> orders[q]]
  BY DEF ExchangeInv, OrderInv
<1>3. /\ orders'[o].state = "done" /\ orders'[o].left = orders[o].left
      /\ orders'[o].direction = orders[o].direction /\ orders'[o].offset = orders[o].offset
      /\ \A q \in Orders \ {o} : orders'[q] = orders[q]
  BY <1>1, <1>2 DEF OrderFields
<1>4. OrderTypes
  BY DEF MarketInv
<1>5. OrderTypes'
  BY <1>1, <1>3, <1>4 DEF OrderTypes, PositionType
<1>6. Used' = Used
  BY <1>1, <1>3 DEF Used, Alive
<1>7. ASSUME NEW d \in Directions, NEW offs \in ClosingKinds \cup {Offsets}
      PROVE  Spare(d, offs) <= Spare(d, offs)' /\ Spare(d, offs)' \in Int
  <2>1. /\ Unfilled(AliveOf(d, offs))' - Portion(o, d, offs)'
               = Unfilled(AliveOf(d, offs)) - Portion(o, d, offs)
        /\ Unfilled(AliveOf(d, offs))' \in Nat /\ Unfilled(AliveOf(d, offs)) \in Nat
        /\ Portion(o, d, offs) \in Nat /\ Portion(o, d, offs)' \in Nat
    BY <1>3, <1>4, <1>5, OutChanges
  <2>2. Portion(o, d, offs)' = 0
    BY <1>3 DEF Portion, AliveOf, Alive
  <2>3. Unfilled(AliveOf(d, offs))' <= Unfilled(AliveOf(d, offs))
    BY <2>1, <2>2
  <2>4. Stock(pos, d, offs) \in Int
    BY <1>4, StockFacts DEF OrderTypes
  <2>5. Spare(d, offs)' = Stock(pos, d, offs) - Unfilled(AliveOf(d, offs))'
    <3>1. Spare(d, offs)' = Stock(pos', d, offs) - Unfilled(AliveOf(d, offs))'
      BY DEF Spare, Stock, NetPosition
    <3> QED BY <1>1, <3>1
  <2>6. Spare(d, offs) = Stock(pos, d, offs) - Unfilled(AliveOf(d, offs))
    BY DEF Spare
  <2> QED BY <2>1, <2>3, <2>4, <2>5, <2>6
<1>8. SparesKept
  BY <1>7 DEF SparesKept
<1>9. \A q \in Orders : /\ orders'[q].direction = orders[q].direction
                        /\ orders'[q].offset = orders[q].offset
  BY <1>3
<1>10. \A d \in Directions, offs \in ClosingKinds \cup {Offsets} : Spare(d, offs)' \in Int
  BY <1>7
<1> QED BY <1>1, <1>5, <1>6, <1>8, <1>9, <1>10, SparesGrow

(* A fill takes from the order what it takes from the stock.               *)
LEMMA FillMoves ==
    ASSUME ExchangeInv, MarketInv, RoomInv, NEW o \in Orders, NEW v \in 1 .. orders[o].left,
           Fill(o, v)
    PROVE  MarketInv' /\ SparesKept
<1> DEFINE L == orders[o].left
           c == orders[o].direction
           F == orders[o].offset
<1>1. /\ orders' = [orders EXCEPT ![o].left = L - v,
                                  ![o].state = IF L - v = 0 THEN "done" ELSE "live"]
      /\ orders[o].state = "live" /\ pos' = Taken(o, v)
      /\ UNCHANGED <<setup, seenOrders, seenPos>>
  BY DEF Fill, runtime
<1>2. DOMAIN orders[o] = OrderFields /\ orders = [q \in Orders |-> orders[q]]
  BY DEF ExchangeInv, OrderInv
<1>3. /\ orders'[o].state = (IF L - v = 0 THEN "done" ELSE "live") /\ orders'[o].left = L - v
      /\ orders'[o].direction = c /\ orders'[o].offset = F
      /\ \A q \in Orders \ {o} : orders'[q] = orders[q]
  BY <1>1, <1>2 DEF OrderFields
<1>4. OrderTypes /\ L \in Nat /\ c \in Directions /\ F \in Offsets /\ pos \in PositionType
      /\ setup \in Setups
  BY DEF MarketInv, OrderTypes
<1>5. v \in Nat /\ v <= L /\ v # 0 /\ L - v \in Nat
  BY <1>4
<1>6. Alive(o)
  BY <1>1 DEF Alive
<1>7. PICK e \in Nat, a \in Nat, b \in Nat :
          /\ Taken(o, v) \in PositionType
          /\ Moves(pos, Taken(o, v), c, e, a, b)
          /\ e + a + b = v /\ FillDivides(F, e, a, b)
  BY <1>4, <1>5, <1>6, FillPosition
<1>8. OrderTypes'
  <2>1. pos' \in PositionType /\ seenPos'.volume \in PositionType' /\ PositionType' = PositionType
    BY <1>1, <1>4, <1>7 DEF OrderTypes, PositionType
  <2>2. orders'[o].state # "none"
    BY <1>3
  <2> HIDE DEF L, c, F
  <2>3. \A q \in Orders :
          /\ orders'[q].left \in Nat /\ orders'[q].direction \in Directions
          /\ orders'[q].offset \in Offsets
          /\ orders'[q].offset = "closeToday" => setup'.shfe
          /\ orders'[q].state = "none" => orders'[q] = NoOrder
    BY <1>1, <1>3, <1>4, <1>5, <2>2 DEF OrderTypes, F
  <2> QED BY <1>1, <1>4, <2>1, <2>3 DEF OrderTypes
<1>9. Used' = Used
  <2>1. orders'[o].state # "none" /\ orders[o].state # "none"
    BY <1>1, <1>3
  <2>2. \A q \in Orders : orders'[q].state = "none" <=> orders[q].state = "none"
    BY <1>3, <2>1
  <2> QED BY <2>2 DEF Used
<1>10. ASSUME NEW d \in Directions, NEW offs \in ClosingKinds \cup {Offsets}
       PROVE  Spare(d, offs) <= Spare(d, offs)' /\ Spare(d, offs)' \in Int
  <2> DEFINE w == IF c = d /\ F \in offs THEN v ELSE 0
             W == Unfilled(AliveOf(d, offs))
             X == Unfilled(AliveOf(d, offs))'
  <2>1. /\ X - Portion(o, d, offs)' = W - Portion(o, d, offs)
        /\ X \in Nat /\ W \in Nat
        /\ Portion(o, d, offs) \in Nat /\ Portion(o, d, offs)' \in Nat
    BY <1>3, <1>4, <1>8, OutChanges
  <2>2. Portion(o, d, offs) = IF c = d /\ F \in offs THEN L ELSE 0
    BY <1>1 DEF Portion, AliveOf, Alive
  <2>3. Portion(o, d, offs)' = IF c = d /\ F \in offs THEN L - v ELSE 0
    <3>1. CASE L - v = 0
      <4>1. orders'[o].state = "done"
        BY <1>3, <3>1
      <4>2. Portion(o, d, offs)' = 0
        BY <4>1 DEF Portion, AliveOf, Alive
      <4> QED BY <3>1, <4>2
    <3>2. CASE L - v # 0
      <4>1. orders'[o].state = "live" /\ orders'[o].left = L - v
            /\ orders'[o].direction = c /\ orders'[o].offset = F
        BY <1>3, <3>2
      <4>2. o \in AliveOf(d, offs)' <=> c = d /\ F \in offs
        BY <4>1 DEF AliveOf, Alive
      <4> HIDE DEF L, c, F
      <4> QED BY <4>1, <4>2 DEF Portion
    <3> QED BY <3>1, <3>2
  <2>4. X = W - w
    <3> HIDE DEF L, c, F, W, X
    <3> QED BY <1>4, <1>5, <2>1, <2>2, <2>3
  <2>5. Stock(pos', d, offs) >= Stock(pos, d, offs) - w
    <3>1. Stock(Taken(o, v), d, offs) >= Stock(pos, d, offs)
                          - (IF c = d /\ F \in offs THEN e + a + b ELSE 0)
      BY <1>4, <1>7, FillStock
    <3> QED BY <1>1, <1>7, <3>1
  <2>6. Stock(pos, d, offs) \in Int /\ Stock(pos', d, offs) \in Int
    BY <1>1, <1>4, <1>7, StockFacts
  <2>7. Spare(d, offs)' = Stock(pos', d, offs) - X
    BY DEF Spare, Stock, NetPosition
  <2>8. Spare(d, offs) = Stock(pos, d, offs) - W
    BY DEF Spare
  <2>9. w \in Nat
    BY <1>5
  <2> HIDE DEF w, W, X
  <2> QED BY <2>1, <2>4, <2>5, <2>6, <2>7, <2>8, <2>9
<1>11. SparesKept
  BY <1>10 DEF SparesKept
<1>12. \A q \in Orders : /\ orders'[q].direction = orders[q].direction
                         /\ orders'[q].offset = orders[q].offset
  BY <1>3
<1>13. \A d \in Directions, offs \in ClosingKinds \cup {Offsets} : Spare(d, offs)' \in Int
  BY <1>10
<1> QED BY <1>1, <1>8, <1>9, <1>11, <1>12, <1>13, SparesGrow

LEMMA AcceptMoves ==
    ASSUME ExchangeInv, MarketInv, NEW o \in Orders, Accept(o)
    PROVE  MarketInv' /\ SparesKept
<1>1. /\ orders' = [orders EXCEPT ![o].state = "live"] /\ orders[o].state = "sent"
      /\ UNCHANGED <<setup, pos, seenOrders, seenPos>>
  BY DEF Accept, runtime
<1>2. DOMAIN orders[o] = OrderFields /\ orders = [q \in Orders |-> orders[q]]
  BY DEF ExchangeInv, OrderInv
<1>3. /\ orders'[o].state = "live" /\ orders'[o].left = orders[o].left
      /\ orders'[o].direction = orders[o].direction /\ orders'[o].offset = orders[o].offset
      /\ \A q \in Orders \ {o} : orders'[q] = orders[q]
  BY <1>1, <1>2 DEF OrderFields
<1>4. Used' = Used
  BY <1>1, <1>3 DEF Used
<1>5. \A q \in Orders : /\ orders'[q].left = orders[q].left
                        /\ orders'[q].direction = orders[q].direction
                        /\ orders'[q].offset = orders[q].offset
                        /\ orders'[q].state = "none" => orders'[q] = NoOrder
                        /\ orders'[q].state \in {"sent", "live"}
                              <=> orders[q].state \in {"sent", "live"}
  BY <1>1, <1>3 DEF MarketInv, OrderTypes
<1> QED BY <1>1, <1>4, <1>5, MarketQuiet

LEMMA UncancelledNoOrder == [NoOrder EXCEPT !.cancel = FALSE] = NoOrder
<1>1. NoOrder = [f \in OrderFields |-> NoOrder[f]] /\ NoOrder.cancel = FALSE
      /\ "cancel" \in OrderFields
  <2>1. DOMAIN NoOrder = OrderFields /\ NoOrder.cancel = FALSE /\ "cancel" \in OrderFields
    BY DEF NoOrder, OrderFields
  <2>2. NoOrder = [f \in DOMAIN NoOrder |-> NoOrder[f]]
    BY DEF NoOrder
  <2> QED BY <2>1, <2>2
<1>2. ASSUME NEW g, g = [f \in OrderFields |-> g[f]], g.cancel = FALSE
      PROVE  [g EXCEPT !.cancel = FALSE] = g
  BY <1>2
<1> QED BY <1>1, <1>2

(* A commit shows every order the exchange has taken as it is.             *)
LEMMA DeliverShows ==
    ASSUME ExchangeInv, MarketInv, Deliver
    PROVE  MarketInv' /\ SparesKept
<1>1. /\ UNCHANGED <<setup, orders, pos>> /\ seenOrders' = Reported /\ seenPos' = Snapshot
  BY DEF Deliver, exchange
<1>2. OrderTypes /\ SeenTypes
  BY DEF MarketInv
<1>3. OrderTypes'
  BY <1>1, <1>2 DEF OrderTypes, Snapshot, PositionType
<1>4. ASSUME NEW o \in Orders
      PROVE  \/ seenOrders'[o] = NoOrder /\ orders[o].state \in {"sent", "none"}
             \/ /\ orders[o].state \in {"live", "done"}
                /\ seenOrders'[o].state = orders[o].state /\ seenOrders'[o].left = orders[o].left
                /\ seenOrders'[o].direction = orders[o].direction
                /\ seenOrders'[o].offset = orders[o].offset
  <2>1. DOMAIN orders[o] = OrderFields /\ orders[o].state \in {"none", "sent", "live", "done"}
    BY DEF ExchangeInv, OrderInv
  <2>2. CASE orders[o].state = "sent"
    BY <1>1, <2>2 DEF Reported
  <2>3. CASE orders[o].state # "sent"
    <3>1. seenOrders'[o] = [orders[o] EXCEPT !.cancel = FALSE]
      BY <1>1, <2>3 DEF Reported
    <3>2. CASE orders[o].state = "none"
      <4>1. orders[o] = NoOrder
        BY <1>2, <3>2 DEF OrderTypes
      <4>2. [NoOrder EXCEPT !.cancel = FALSE] = NoOrder
        BY UncancelledNoOrder
      <4> QED BY <3>1, <3>2, <4>1, <4>2
    <3>3. CASE orders[o].state # "none"
      BY <2>1, <2>3, <3>1, <3>3 DEF OrderFields
    <3> QED BY <3>2, <3>3
  <2> QED BY <2>2, <2>3
<1>5. NoOrder.state = "none"
  BY DEF NoOrder
<1> DEFINE shown(d, offs) == {o \in Orders : /\ orders[o].state = "live"
                                             /\ orders[o].direction = d
                                             /\ orders[o].offset \in offs}
<1>6. ASSUME NEW d, NEW offs
      PROVE  SeenOut(d, offs)' = SumFunctionOnSet(Lefts, shown(d, offs))
  <2>1. SeenLiveOf(d, offs)' = shown(d, offs)
    BY <1>4, <1>5 DEF SeenLiveOf
  <2>2. \A o \in shown(d, offs) : SeenLefts'[o] = Lefts[o]
    BY <1>4, <1>5 DEF SeenLefts, Lefts
  <2>3. IsFiniteSet(shown(d, offs))
    BY BoundsAssumption, FS_Subset
  <2>4. SeenOut(d, offs)' = SumFunctionOnSet(SeenLefts', SeenLiveOf(d, offs)')
    BY DEF SeenOut
  <2> HIDE DEF shown
  <2>5. SumFunctionOnSet(SeenLefts', shown(d, offs)) = SumFunctionOnSet(Lefts, shown(d, offs))
    BY <2>2, <2>3, SumSame
  <2> QED BY <2>1, <2>4, <2>5
<1>7. \A d, offs : FrozenBy(d, offs) = SumFunctionOnSet(Lefts, shown(d, offs))
  BY DEF FrozenBy, Unfilled, Lefts
<1>8. SeenTypes'
  <2>1. \A o \in Orders : orders'[o].state = "none" => seenOrders'[o] = NoOrder
    BY <1>1, <1>4
  <2>2. \A o \in Orders :
          \/ seenOrders'[o] = NoOrder
          \/ /\ seenOrders'[o].state \in {"live", "done"} /\ seenOrders'[o].left \in Nat
             /\ seenOrders'[o].direction = orders'[o].direction
             /\ seenOrders'[o].offset = orders'[o].offset
    BY <1>1, <1>2, <1>4 DEF OrderTypes
  <2>3. \A d \in Directions : /\ seenPos'.frozenToday[d] = FrozenBy(d, {"closeToday"})
                              /\ seenPos'.frozenHis[d] = FrozenBy(d, {"close"})
    BY <1>1 DEF Snapshot, Directions
  <2> HIDE DEF shown
  <2>4. \A d \in Directions : /\ seenPos'.frozenToday[d] = SeenOut(d, {"closeToday"})'
                              /\ seenPos'.frozenHis[d] = SeenOut(d, {"close"})'
    BY <1>6, <1>7, <2>3
  <2> QED BY <2>1, <2>2, <2>4 DEF SeenTypes
<1>9. \A d \in Directions : \A offs : Spare(d, offs)' = Spare(d, offs)
  BY <1>1, <1>2, SparesSame
<1>10. SpareInv'
  <2> SUFFICES ASSUME AllSeen', NEW d \in Directions, NEW offs \in ClosingKinds' \cup {Offsets}
               PROVE  SeenSpare(d, offs)' <= Spare(d, offs)'
    BY DEF SpareInv
  <2>1. ClosingKinds' = ClosingKinds
    BY <1>1 DEF ClosingKinds
  <2>2. \A o \in Orders : orders[o].state # "sent"
    <3> SUFFICES ASSUME NEW o \in Orders, orders[o].state = "sent" PROVE FALSE
      OBVIOUS
    <3>1. o \in Used'
      BY <1>1 DEF Used
    <3>2. seenOrders'[o] = NoOrder
      BY <1>4
    <3> QED BY <3>1, <3>2 DEF AllSeen
  <2>3. AliveOf(d, offs) = shown(d, offs)
    BY <2>2 DEF AliveOf, Alive
  <2>4. Unfilled(AliveOf(d, offs)) = SumFunctionOnSet(Lefts, AliveOf(d, offs))
        /\ Spare(d, offs) \in Int
    BY <1>2, <2>1, AliveSums
  <2>5. SeenOut(d, offs)' = Unfilled(AliveOf(d, offs))
    BY <1>6, <2>3, <2>4
  <2>6. SeenSpare(d, offs)' = Stock(pos, d, offs) - SeenOut(d, offs)'
    <3>1. SeenSpare(d, offs)' = Stock(seenPos'.volume, d, offs) - SeenOut(d, offs)'
      BY DEF SeenSpare, Stock, NetPosition
    <3>2. seenPos'.volume = pos
      BY <1>1 DEF Snapshot
    <3> QED BY <3>1, <3>2
  <2>7. SeenSpare(d, offs)' = Spare(d, offs)
    BY <2>5, <2>6 DEF Spare
  <2> QED BY <1>9, <2>4, <2>7
<1>11. SparesKept
  <2> SUFFICES ASSUME NEW d \in Directions, NEW offs \in ClosingKinds \cup {Offsets}
               PROVE  Spare(d, offs) <= Spare(d, offs)'
    BY DEF SparesKept
  <2>1. Spare(d, offs) \in Int
    BY <1>2, AliveSums
  <2> QED BY <1>9, <2>1
<1> QED BY <1>3, <1>8, <1>10, <1>11 DEF MarketInv

(* Steps that touch neither the exchange nor what the state shows of it.   *)
LEMMA MarketUnmoved ==
    ASSUME MarketInv, UNCHANGED <<setup, orders, pos, seenOrders, seenPos>>
    PROVE  MarketInv' /\ SparesKept
<1>1. Used' = Used
  BY DEF Used
<1>2. \A q \in Orders : orders'[q].state = "none" => orders'[q] = NoOrder
  BY DEF MarketInv, OrderTypes
<1> QED BY <1>1, <1>2, MarketQuiet

(* No step of the exchange or of the runtime takes away what is spare.     *)
LEMMA EnvironmentMarket ==
    ASSUME ExchangeInv, MarketInv, RoomInv, Environment
    PROVE  MarketInv' /\ SparesKept /\ UNCHANGED <<setup, task, pc, todo, wanted, asked>>
<1>1. UNCHANGED <<setup, task, pc, todo, wanted, asked>>
  BY DEF Environment, Exchange, Accept, End, Fill, Deliver, Tick, exchange, host
<1>2. CASE Exchange
  <2>1. PICK o \in Orders : Accept(o) \/ End(o) \/ \E v \in 1 .. orders[o].left : Fill(o, v)
    BY <1>2 DEF Exchange
  <2> QED BY <1>1, <2>1, AcceptMoves, EndMoves, FillMoves
<1>3. CASE Deliver
  BY <1>1, <1>3, DeliverShows
<1>4. CASE \E p \in Prices : Tick(p)
  BY <1>1, <1>4, MarketUnmoved DEF Tick, exchange
<1> QED BY <1>2, <1>3, <1>4 DEF Environment

(* The room that is left, and the batch in hand, when spares only grow.    *)
LEMMA RoomKept ==
    ASSUME OrderTypes, OrderTypes', SparesKept, RoomInv, setup' = setup,
           asked \subseteq asked', asked' \subseteq Int,
           \A d \in Directions, offs \in ClosingKinds \cup {Offsets} : Spare(d, offs)' \in Int
    PROVE  /\ RoomInv'
           /\ \A d \in Directions : \A q : IsPlan(q, d) /\ Fits(q, d) => Fits(q, d)'
<1>1. ClosingKinds' = ClosingKinds /\ Requested \subseteq Requested' /\ Requested \subseteq Int
  <2>1. NetPosition(setup.position) \in Int
    <3>1. setup.position \in PositionType
      BY SetupsAssumption DEF OrderTypes, PositionType
    <3> QED BY <3>1 DEF PositionType, NetPosition
  <2> QED BY <2>1 DEF ClosingKinds, Requested, NetPosition
<1>2. \A d \in Directions, offs \in ClosingKinds \cup {Offsets} :
         Spare(d, offs) <= Spare(d, offs)' /\ Spare(d, offs) \in Int /\ Spare(d, offs)' \in Int
  BY AliveSums DEF SparesKept
<1>3. \A d \in Directions, v \in Int : Toward(d, v) \in Int
  BY DEF Toward
<1>4. RoomInv'
  <2> SUFFICES ASSUME NEW d \in Directions
               PROVE  /\ \E v \in Requested' : 0 <= Toward(d, v) + Spare(d, Offsets)'
                      /\ \A offs \in ClosingKinds : 0 <= Spare(d, offs)'
    BY <1>1 DEF RoomInv
  <2>1. PICK v \in Requested : 0 <= Toward(d, v) + Spare(d, Offsets)
    BY DEF RoomInv
  <2>2. 0 <= Toward(d, v) + Spare(d, Offsets)'
    BY <1>1, <1>2, <1>3, <2>1
  <2>3. \A offs \in ClosingKinds : 0 <= Spare(d, offs)'
    BY <1>2 DEF RoomInv
  <2> QED BY <1>1, <2>2, <2>3
<1>5. ASSUME NEW d \in Directions, NEW q, IsPlan(q, d), Fits(q, d) PROVE Fits(q, d)'
  <2>1. PICK v \in asked : Volume(q, Offsets) <= Toward(d, v) + Spare(d, Offsets)
    BY <1>5 DEF Fits
  <2>2. \A offs : Volume(q, offs) \in Nat
    BY <1>5, VolumesNat
  <2>3. v \in asked' /\ Volume(q, Offsets) <= Toward(d, v) + Spare(d, Offsets)'
    BY <1>2, <1>3, <2>1, <2>2
  <2>4. \A offs \in ClosingKinds : Volume(q, offs) <= Spare(d, offs)'
    BY <1>2, <1>5, <2>2 DEF Fits
  <2>5. ~setup'.shfe => Volume(q, {"closeToday"}) = 0
    BY <1>5 DEF Fits
  <2> QED BY <1>1, <2>3, <2>4, <2>5 DEF Fits
<1> QED BY <1>4, <1>5

-----------------------------------------------------------------------------
(* Orders sent and cancelled.                                              *)

LEMMA SparesNextInt ==
    ASSUME OrderTypes', setup' = setup
    PROVE  \A d \in Directions, offs \in ClosingKinds \cup {Offsets} : Spare(d, offs)' \in Int
<1> SUFFICES ASSUME NEW d \in Directions, NEW offs \in ClosingKinds \cup {Offsets}
             PROVE  Spare(d, offs)' \in Int
  OBVIOUS
<1>1. Spare(d, offs)' = Stock(pos', d, offs) - Unfilled(AliveOf(d, offs))'
  BY DEF Spare, Stock, NetPosition
<1>2. pos' \in PositionType
  BY DEF OrderTypes, PositionType
<1>3. Stock(pos', d, offs) \in Int
  BY <1>2, StockFacts
<1> DEFINE S == AliveOf(d, offs)'
           g == Lefts'
<1>4. IsFiniteSet(S) /\ S \subseteq Orders
  BY BoundsAssumption, FS_Subset DEF AliveOf
<1>5. \A q \in Orders : g[q] \in Nat
  BY DEF OrderTypes, Lefts
<1>6. Unfilled(AliveOf(d, offs))' = SumFunctionOnSet(g, S)
  BY DEF Unfilled, Lefts
<1> HIDE DEF S, g
<1>7. SumFunctionOnSet(g, S) \in Nat
  BY <1>4, <1>5, SumIsNat
<1> QED BY <1>1, <1>3, <1>6, <1>7

(* A cancel command only marks the order.                                  *)
LEMMA CancelMarket ==
    ASSUME ExchangeInv, MarketInv, NEW id,
           CommandOk(id, [orders[id] EXCEPT !.cancel = @ \/ Alive(id)]),
           UNCHANGED <<seenOrders, seenPos>>
    PROVE  MarketInv' /\ SparesKept /\ setup' = setup
<1> DEFINE x == [orders[id] EXCEPT !.cancel = @ \/ Alive(id)]
<1>1. orders' = [orders EXCEPT ![id] = x] /\ UNCHANGED <<setup, pos>>
  BY DEF CommandOk
<1>2. orders = [q \in Orders |-> orders[q]]
  BY DEF ExchangeInv, OrderInv
<1>3. CASE id \notin Orders
  <2>1. orders' = orders
    BY <1>1, <1>2, <1>3
  <2> QED BY <1>1, <2>1, MarketUnmoved
<1>4. CASE id \in Orders
  <2>1. DOMAIN orders[id] = OrderFields
    BY <1>4 DEF ExchangeInv, OrderInv
  <2>2. /\ x.state = orders[id].state /\ x.left = orders[id].left
        /\ x.direction = orders[id].direction /\ x.offset = orders[id].offset
    BY <2>1 DEF OrderFields
  <2>3. orders[id].state = "none" => x = NoOrder
    <3> SUFFICES ASSUME orders[id].state = "none" PROVE x = NoOrder
      OBVIOUS
    <3>1. orders[id] = NoOrder
      BY <1>4 DEF MarketInv, OrderTypes
    <3>2. ~Alive(id) /\ NoOrder.cancel = FALSE
      BY DEF Alive, NoOrder
    <3>3. x = [NoOrder EXCEPT !.cancel = NoOrder.cancel \/ Alive(id)]
      BY <3>1
    <3>4. (NoOrder.cancel \/ Alive(id)) = FALSE
      BY <3>2
    <3>5. x = [NoOrder EXCEPT !.cancel = FALSE]
      BY <3>3, <3>4
    <3> QED BY <3>5, UncancelledNoOrder
  <2> HIDE DEF x
  <2>4. orders'[id] = x /\ \A q \in Orders \ {id} : orders'[q] = orders[q]
    BY <1>1, <1>2, <1>4
  <2>5. Used' = Used
    BY <2>2, <2>4 DEF Used
  <2>6. \A q \in Orders : /\ orders'[q].left = orders[q].left
                          /\ orders'[q].direction = orders[q].direction
                          /\ orders'[q].offset = orders[q].offset
                          /\ orders'[q].state = "none" => orders'[q] = NoOrder
                          /\ orders'[q].state \in {"sent", "live"}
                                <=> orders[q].state \in {"sent", "live"}
    BY <2>2, <2>3, <2>4 DEF MarketInv, OrderTypes
  <2> QED BY <1>1, <2>5, <2>6, MarketQuiet
<1> QED BY <1>3, <1>4

(* An insert command moves the first order of the batch to the exchange.   *)
LEMMA InsertMarket ==
    ASSUME ExchangeInv, MarketInv, RoomInv, asked \subseteq Int,
           NEW d \in Directions, NEW q, IsBatch(q, d), q # <<>>, Fits(q, d),
           NEW id \in Orders \ Used, NEW x, x.state = "sent", x.left = Head(q).volume,
           x.direction = Head(q).direction, x.offset = Head(q).offset,
           orders' = [orders EXCEPT ![id] = x],
           UNCHANGED <<setup, pos, seenOrders, seenPos, asked>>
    PROVE  MarketInv' /\ RoomInv' /\ Fits(Tail(q), d)' /\ IsBatch(Tail(q), d)
<1> DEFINE h == Head(q)
           t == Tail(q)
<1>1. /\ IsBatch(t, d) /\ h.direction = d /\ h.offset \in Offsets /\ h.volume \in Nat \ {0}
      /\ \A offs : Volume(q, offs) = Volume(t, offs) + Share(h, offs)
  BY BatchTail
<1> HIDE DEF h, t
<1>2. \A offs : Volume(t, offs) \in Nat /\ Volume(q, offs) \in Nat /\ Share(h, offs) \in Nat
  BY <1>1, VolumesNat DEF IsBatch, Share
<1>3. orders[id].state = "none" /\ orders[id] = NoOrder /\ seenOrders[id] = NoOrder
  BY DEF Used, MarketInv, OrderTypes, SeenTypes
<1>4. orders'[id] = x /\ \A o \in Orders \ {id} : orders'[o] = orders[o]
  BY DEF ExchangeInv, OrderInv
<1>5. x.left = h.volume /\ x.direction = d /\ x.offset = h.offset
  BY <1>1 DEF h
<1>6. h.offset = "closeToday" => setup.shfe
  <2> SUFFICES ASSUME h.offset = "closeToday", ~setup.shfe PROVE FALSE
    OBVIOUS
  <2>1. Volume(q, {"closeToday"}) = 0
    BY DEF Fits
  <2>2. Share(h, {"closeToday"}) = h.volume
    BY DEF Share
  <2>3. Volume(q, {"closeToday"}) = Volume(t, {"closeToday"}) + h.volume
        /\ Volume(t, {"closeToday"}) \in Nat
    BY <1>1, <1>2, <2>2
  <2> QED BY <1>1, <2>1, <2>3
<1>7. OrderTypes'
  <2>1. \A o \in Orders :
          /\ orders'[o].left \in Nat /\ orders'[o].direction \in Directions
          /\ orders'[o].offset \in Offsets
          /\ orders'[o].offset = "closeToday" => setup'.shfe
          /\ orders'[o].state = "none" => orders'[o] = NoOrder
    <3> SUFFICES ASSUME NEW o \in Orders
                 PROVE  /\ orders'[o].left \in Nat /\ orders'[o].direction \in Directions
                        /\ orders'[o].offset \in Offsets
                        /\ orders'[o].offset = "closeToday" => setup'.shfe
                        /\ orders'[o].state = "none" => orders'[o] = NoOrder
      OBVIOUS
    <3>1. CASE o = id
      BY <1>1, <1>4, <1>5, <1>6, <3>1
    <3>2. CASE o # id
      BY <1>4, <3>2 DEF MarketInv, OrderTypes
    <3> QED BY <3>1, <3>2
  <2> QED BY <2>1 DEF MarketInv, OrderTypes, PositionType
<1>8. SeenTypes'
  <2>1. \A o \in Orders : \/ seenOrders[o] = NoOrder
                          \/ /\ orders'[o].direction = orders[o].direction
                             /\ orders'[o].offset = orders[o].offset
                             /\ orders'[o].state # "none"
    BY <1>3, <1>4 DEF MarketInv, SeenTypes
  <2> QED BY <2>1, SeenSame DEF MarketInv
<1>9. SpareInv'
  <2>1. id \in Used'
    BY <1>4 DEF Used
  <2>2. ~AllSeen'
    BY <1>3, <2>1 DEF AllSeen
  <2> QED BY <2>2 DEF SpareInv
<1>10. ClosingKinds' = ClosingKinds /\ Requested' = Requested
  BY DEF ClosingKinds, Requested, NetPosition
<1>11. \A c \in Directions, offs \in ClosingKinds \cup {Offsets} :
          Spare(c, offs)' \in Int /\ Spare(c, offs) \in Int
  BY <1>7, SparesNextInt, AliveSums DEF MarketInv
<1>12. ASSUME NEW c \in Directions, NEW offs \in ClosingKinds \cup {Offsets}
       PROVE  Spare(c, offs)' = Spare(c, offs) - (IF c = d THEN Share(h, offs) ELSE 0)
  <2> DEFINE W == Unfilled(AliveOf(c, offs))
             X == Unfilled(AliveOf(c, offs))'
  <2>1. /\ X - Portion(id, c, offs)' = W - Portion(id, c, offs)
        /\ X \in Nat /\ W \in Nat
    BY <1>4, <1>7, OutChanges DEF MarketInv
  <2>2. Portion(id, c, offs) = 0
    BY <1>3 DEF Portion, AliveOf, Alive
  <2>3. Portion(id, c, offs)' = IF c = d THEN Share(h, offs) ELSE 0
    <3>1. id \in AliveOf(c, offs)' <=> d = c /\ h.offset \in offs
      BY <1>4, <1>5 DEF AliveOf, Alive
    <3> QED BY <1>4, <1>5, <3>1 DEF Portion, Share
  <2>4. Spare(c, offs)' = Stock(pos, c, offs) - X
    <3>1. Spare(c, offs)' = Stock(pos', c, offs) - X
      BY DEF Spare, Stock, NetPosition
    <3> QED BY <3>1
  <2>5. Spare(c, offs) = Stock(pos, c, offs) - W
    BY DEF Spare
  <2>6. Stock(pos, c, offs) \in Int
    BY StockFacts DEF MarketInv, OrderTypes
  <2> HIDE DEF W, X
  <2> QED BY <1>2, <2>1, <2>2, <2>3, <2>4, <2>5, <2>6
<1>13. \A c \in Directions, v \in Int : Toward(c, v) \in Int
  BY DEF Toward
<1>14. PICK w \in asked : Volume(q, Offsets) <= Toward(d, w) + Spare(d, Offsets)
  BY DEF Fits
<1>15. Volume(t, Offsets) <= Toward(d, w) + Spare(d, Offsets)'
  <2>1. Spare(d, Offsets)' = Spare(d, Offsets) - Share(h, Offsets)
    BY <1>12
  <2>2. Volume(q, Offsets) = Volume(t, Offsets) + Share(h, Offsets)
    BY <1>1
  <2> QED BY <1>2, <1>11, <1>13, <1>14, <2>1, <2>2
<1>16. ASSUME NEW offs \in ClosingKinds PROVE Volume(t, offs) <= Spare(d, offs)'
  <2>1. Spare(d, offs)' = Spare(d, offs) - Share(h, offs)
    BY <1>12
  <2>2. Volume(q, offs) = Volume(t, offs) + Share(h, offs) /\ Volume(q, offs) <= Spare(d, offs)
    BY <1>1 DEF Fits
  <2> QED BY <1>2, <1>11, <2>1, <2>2
<1>17. Fits(t, d)'
  <2>1. ~setup'.shfe => Volume(t, {"closeToday"}) = 0
    <3> SUFFICES ASSUME ~setup.shfe PROVE Volume(t, {"closeToday"}) = 0
      OBVIOUS
    <3>1. Volume(q, {"closeToday"}) = 0
      BY DEF Fits
    <3> QED BY <1>1, <1>2, <3>1
  <2>2. \E v \in asked' : Volume(t, Offsets) <= Toward(d, v) + Spare(d, Offsets)'
    BY <1>15
  <2>3. \A offs \in ClosingKinds' : Volume(t, offs) <= Spare(d, offs)'
    BY <1>10, <1>16
  <2>4. t' = t
    BY DEF t
  <2> QED BY <2>1, <2>2, <2>3, <2>4 DEF Fits
<1>18. RoomInv'
  <2> SUFFICES ASSUME NEW c \in Directions
               PROVE  /\ \E v \in Requested : 0 <= Toward(c, v) + Spare(c, Offsets)'
                      /\ \A offs \in ClosingKinds : 0 <= Spare(c, offs)'
    BY <1>10 DEF RoomInv
  <2>1. CASE c = d
    <3>1. 0 <= Toward(d, w) + Spare(d, Offsets)'
      <4>1. Spare(d, Offsets)' \in Int /\ Toward(d, w) \in Int /\ Volume(t, Offsets) \in Nat
        BY <1>2, <1>11, <1>13
      <4> HIDE DEF t
      <4> QED BY <4>1, <1>15
    <3>2. w \in Requested
      BY DEF Requested
    <3>3. \A offs \in ClosingKinds : 0 <= Spare(d, offs)'
      BY <1>2, <1>11, <1>16
    <3> QED BY <2>1, <3>1, <3>2, <3>3
  <2>2. CASE c # d
    <3>1. \A offs \in ClosingKinds \cup {Offsets} : Spare(c, offs)' = Spare(c, offs)
      BY <1>11, <1>12, <2>2
    <3> QED BY <3>1 DEF RoomInv
  <2> QED BY <2>1, <2>2
<1> QED BY <1>1, <1>7, <1>8, <1>9, <1>17, <1>18 DEF MarketInv, t

-----------------------------------------------------------------------------
(* The steps of the task.                                                  *)

LEMMA SnapshotTypes ==
    ASSUME OrderTypes, SeenTypes
    PROVE  SnapshotOk(seenPos)
<1>1. \A d \in Directions : seenPos.frozenToday[d] \in Nat /\ seenPos.frozenHis[d] \in Nat
  BY SeenSums DEF SeenTypes
<1> QED BY <1>1 DEF SnapshotOk, OrderTypes

(* What the task decides to send fits into what is spare, whatever has     *)
(* happened at the exchange since the state was written.                   *)
LEMMA PlannedBatchFits ==
    ASSUME ExchangeInv, KnownInv, MarketInv, RoomInv, WantedInv, Plan, pc' = "inserting"
    PROVE  \E d \in Directions : IsBatch(todo', d) /\ todo' # <<>> /\ Fits(todo', d)
<1> DEFINE t     == Prune(task)
           live  == {o \in task.tracked : ~Terminal(o)}
           net   == NetPosition(seenPos.volume)
           v     == wanted.target
           batch == DesiredBatch(seenPos, v)
           missing == ReconcileLiveOrders(t.tracked, batch).missing
           stale   == ReconcileLiveOrders(t.tracked, batch).stale
           blank   == {id \in t.tracked : Unmaterialized(id)}
           d == IF v > net THEN "buy" ELSE "sell"
           r == v - net
<1>1. t.tracked = live
  <2>1. DOMAIN task = TaskFields
    BY DEF KnownInv
  <2> QED BY <2>1 DEF Prune, TaskFields
<1>2. pc = "plan" /\ ((t.tracked = {} /\ ReachOrSubmit(t, net, batch))
                      \/ (t.tracked # {} /\ HandleLiveOrders(t, net, batch)))
  BY DEF Plan
<1> HIDE DEF t, net, v, batch
<1>3. ASSUME NEW q, ReachOrSubmit(t, net, q) PROVE todo' = q /\ q # <<>>
  BY <1>3 DEF ReachOrSubmit, SubmitBatch, Return, Goto
<1>4. ASSUME NEW ids, CancelOrders(t, ids, "returned") PROVE FALSE
  BY <1>4 DEF CancelOrders, Goto
<1>5. ~Return
  BY DEF Return, Goto
<1>6. /\ todo' # <<>>
      /\ \/ t.tracked = {} /\ todo' = batch
         \/ blank = {} /\ stale = {} /\ todo' = missing
  <2>1. CASE t.tracked = {} /\ ReachOrSubmit(t, net, batch)
    BY <1>3, <2>1
  <2>2. CASE HandleLiveOrders(t, net, batch)
    <3>1. \/ CancelOrders(t, t.tracked, "returned")
          \/ Return \/ CancelOrders(t, blank, "returned")
          \/ CancelOrders(t, stale, "returned")
          \/ blank = {} /\ stale = {} /\ ReachOrSubmit(t, net, missing)
      BY <2>2 DEF HandleLiveOrders
    <3> HIDE DEF missing, stale, blank
    <3>2. blank = {} /\ stale = {} /\ ReachOrSubmit(t, net, missing)
      BY <1>4, <1>5, <3>1
    <3> QED BY <1>3, <3>2
  <2> QED BY <1>2, <2>1, <2>2
<1>7. /\ v \in Int /\ wanted.target \in asked /\ asked \subseteq Int
      /\ OrderTypes /\ SeenTypes /\ SpareInv /\ setup \in Setups
  BY <1>2 DEF WantedInv, MarketInv, OrderTypes, v
<1>8. net \in Int
  BY <1>7, StockFacts DEF OrderTypes, net, Directions
<1>9. d \in Directions /\ r \in Int /\ Toward(d, r) \in Nat
  BY <1>7, <1>8 DEF Directions, Toward
<1>10. SnapshotOk(seenPos)
  BY <1>7, SnapshotTypes
<1>11. r = v - NetPosition(seenPos.volume)
  BY DEF net
<1> HIDE DEF d, r
<1>12. BatchFits(batch, seenPos, d, r)
  BY <1>7, <1>9, <1>10, <1>11, DesiredBatchFits DEF batch
<1>13. live \subseteq Orders
  BY DEF KnownInv, Used
<1>14. \A o \in live : seenOrders[o].left \in Nat
  BY <1>7, <1>13 DEF SeenTypes, NoOrder
<1>15. (\A o \in live : ~Unmaterialized(o)) /\ Completes(todo', batch, live, d)
  <2>1. IsBatch(batch, d)
    BY <1>12 DEF BatchFits
  <2> HIDE DEF live
  <2>2. CASE t.tracked = {} /\ todo' = batch
    <3>1. live = {}
      BY <1>1, <2>2
    <3>2. \A offs : {o \in live : seenOrders[o].offset \in offs} = {}
      BY <3>1
    <3>3. SumFunctionOnSet(SeenLefts, {}) = 0
      BY SumEmpty
    <3>4. \A offs : Volume(batch, offs) \in Nat
      BY <2>1, VolumesNat DEF IsBatch
    <3>5. \A offs : Volume(batch, offs) = Volume(batch, offs)
                       + SumFunctionOnSet(SeenLefts, {o \in live : seenOrders[o].offset \in offs})
      BY <3>2, <3>3, <3>4
    <3> QED BY <2>1, <2>2, <3>1, <3>5 DEF Completes
  <2>3. CASE blank = {} /\ stale = {} /\ todo' = missing
    <3>1. stale = {} /\ todo' = ReconcileLiveOrders(live, batch).missing
          /\ ReconcileLiveOrders(live, batch).stale = {}
      BY <1>1, <2>3
    <3>2. /\ IsBatch(todo', d) /\ \A o \in live : seenOrders[o].direction = d
          /\ \A offs : Volume(batch, offs) = Volume(todo', offs)
                + SumFunctionOnSet(SeenLefts, {o \in live : seenOrders[o].offset \in offs})
      BY <1>13, <1>14, <2>1, <3>1, ReconcileFacts
    <3>3. \A o \in live : ~Unmaterialized(o)
      BY <1>1, <2>3
    <3> QED BY <3>2, <3>3 DEF Completes
  <2> QED BY <1>6, <2>2, <2>3
<1> DEFINE q == todo'
<1>16. IsBatch(q, d) /\ Fits(q, d)
  <2>1. r = wanted.target - NetPosition(seenPos.volume)
    BY <1>11 DEF v
  <2> HIDE DEF q
  <2>2. Completes(q, batch, live, d)
    BY <1>15 DEF q
  <2> QED BY <1>7, <1>9, <1>12, <1>15, <2>1, <2>2, SubmissionFits DEF ExchangeInv
<1> QED BY <1>6, <1>9, <1>16

(* The batch in hand after a step that only lets spares grow.              *)
TodoFits == pc' = "inserting" =>
               \E d \in Directions : IsBatch(todo', d) /\ todo' # <<>> /\ Fits(todo', d)

(* A step keeps the invariant when it takes nothing that is spare and the  *)
(* batch in hand, if any, fits.                                            *)
LEMMA ExposureKept ==
    ASSUME ExposureInv, MarketInv', SparesKept, setup' = setup, WantedInv',
           asked \subseteq asked', TodoFits
    PROVE  ExposureInv'
<1>1. OrderTypes /\ OrderTypes' /\ RoomInv /\ asked' \subseteq Int
  BY DEF ExposureInv, MarketInv, WantedInv
<1>2. \A d \in Directions, offs \in ClosingKinds \cup {Offsets} : Spare(d, offs)' \in Int
  BY <1>1, SparesNextInt
<1>3. RoomInv' /\ \A d \in Directions : \A q : IsPlan(q, d) /\ Fits(q, d) => Fits(q, d)'
  BY <1>1, <1>2, RoomKept
<1>4. TodoInv'
  <2> SUFFICES ASSUME pc' = "inserting"
               PROVE  \E d \in Directions : IsBatch(todo, d)' /\ todo' # <<>> /\ Fits(todo, d)'
    BY DEF TodoInv
  <2>1. PICK d \in Directions : IsBatch(todo', d) /\ todo' # <<>> /\ Fits(todo', d)
    BY DEF TodoFits
  <2>2. PICK q : q = todo'
    OBVIOUS
  <2>3. Fits(q, d)' /\ IsBatch(q, d)
    BY <1>3, <2>1, <2>2 DEF IsBatch
  <2>4. IsBatch(todo, d)'
    BY <2>2, <2>3 DEF IsBatch, IsPlan, IsList
  <2>5. \A offs : Volume(todo, offs)' = Volume(q, offs)
    BY <2>2 DEF Volume, Volumes, Share
  <2>6. Fits(todo, d)'
    BY <2>3, <2>5 DEF Fits
  <2> QED BY <2>1, <2>4, <2>6
<1> QED BY <1>3, <1>4 DEF ExposureInv, MarketInv

LEMMA TodoStays ==
    ASSUME TodoInv, UNCHANGED <<pc, todo>>
    PROVE  TodoFits
BY DEF TodoInv, TodoFits

(* The steps, one group of actions after the other.                        *)
LEMMA CallerExposure ==
    ASSUME TaskInv, ExposureInv,
           \/ CheckOpen \/ (\E v \in setup.targets : SetTarget(v)) \/ PublishTarget
           \/ CancelTask \/ DropTask
    PROVE  ExposureInv'
<1>1. UNCHANGED <<exchange, runtime, host>>
  BY DEF CheckOpen, SetTarget, PublishTarget, CancelTask, DropTask
<1>2. UNCHANGED <<setup, orders, pos, seenOrders, seenPos, pc, todo, wanted>>
  BY <1>1 DEF exchange, runtime, host
<1>3. MarketInv' /\ SparesKept
  BY <1>2, MarketUnmoved DEF ExposureInv, MarketInv
<1>4. TodoFits
  BY <1>2, TodoStays DEF ExposureInv
<1>5. DOMAIN task = TaskFields
  BY DEF TaskInv, KnownInv
<1>6. WantedInv' /\ asked \subseteq asked'
  <2>1. CASE \E v \in setup.targets : SetTarget(v)
    <3>1. PICK v \in setup.targets : SetTarget(v)
      BY <2>1
    <3>2. v \in Int
      BY SetupsAssumption DEF ExposureInv, OrderTypes
    <3>3. \/ task'.target = v /\ asked' = asked \cup {v}
          \/ task' = task /\ asked' = asked
      BY <1>5, <3>1 DEF SetTarget, TaskFields
    <3> QED BY <1>2, <3>2, <3>3 DEF ExposureInv, WantedInv
  <2>2. CASE CheckOpen \/ PublishTarget \/ CancelTask \/ DropTask
    <3>1. task'.target = task.target /\ asked' = asked
      BY <1>5, <2>2 DEF CheckOpen, PublishTarget, CancelTask, DropTask, Finish, TaskFields
    <3> QED BY <1>2, <3>1 DEF ExposureInv, WantedInv
  <2> QED BY <2>1, <2>2
<1> QED BY <1>2, <1>3, <1>4, <1>6, ExposureKept

LEMMA EnvironmentExposure ==
    ASSUME TaskInv, ExposureInv, Environment \/ WaitUpdate \/ HostReturn
    PROVE  ExposureInv'
<1>1. CASE Environment
  <2>1. MarketInv' /\ SparesKept /\ UNCHANGED <<setup, task, pc, todo, wanted, asked>>
    BY <1>1, EnvironmentMarket DEF TaskInv, ExposureInv, MarketInv
  <2>2. TodoFits
    BY <2>1, TodoStays DEF ExposureInv
  <2>3. WantedInv' /\ asked \subseteq asked'
    BY <2>1 DEF ExposureInv, WantedInv
  <2> QED BY <2>1, <2>2, <2>3, ExposureKept
<1>2. CASE WaitUpdate \/ HostReturn
  <2>1. /\ UNCHANGED <<setup, orders, pos, seenOrders, seenPos, task, wanted, asked>>
        /\ pc' \in {"process", "idle"}
    BY <1>2 DEF WaitUpdate, TakeCommit, HostReturn, Goto, exchange, runtime
  <2>2. MarketInv' /\ SparesKept
    BY <2>1, MarketUnmoved DEF ExposureInv, MarketInv
  <2>3. TodoFits
    BY <2>1 DEF TodoFits
  <2>4. WantedInv' /\ asked \subseteq asked'
    BY <2>1 DEF ExposureInv, WantedInv
  <2> QED BY <2>1, <2>2, <2>3, <2>4, ExposureKept
<1> QED BY <1>1, <1>2

LEMMA ProcessExposure ==
    ASSUME TaskInv, ExposureInv,
           Process \/ Plan \/ Cancelled \/ FinishWithError \/ StopAfterError
    PROVE  ExposureInv'
<1>1. UNCHANGED <<setup, orders, pos, seenOrders, seenPos, asked>>
  BY DEF Process, Plan, Cancelled, FinishWithError, StopAfterError, exchange, runtime
<1>2. MarketInv' /\ SparesKept
  BY <1>1, MarketUnmoved DEF ExposureInv, MarketInv
<1>3. /\ task'.target = task.target
      /\ \/ pc' # "plan"
         \/ task.target # None /\ wanted'.target = task.target
  <2>1. CASE Process
    BY <2>1, ProcessStep DEF TaskInv, SameTask, SameOrders
  <2>2. CASE Plan
    BY <2>2, PlanStep DEF TaskInv, SameTask, SameOrders
  <2>3. CASE Cancelled
    BY <2>3, CancelledStep DEF TaskInv, SameOrders
  <2>4. CASE FinishWithError \/ StopAfterError
    BY <2>4, ErrorStep DEF TaskInv, SameOrders
  <2> QED BY <2>1, <2>2, <2>3, <2>4
<1>4. WantedInv'
  BY <1>1, <1>3 DEF ExposureInv, WantedInv
<1>5. TodoFits
  <2>1. CASE Process \/ Cancelled \/ FinishWithError \/ StopAfterError
    <3>1. pc' # "inserting"
      BY <2>1, ProcessStep, CancelledStep, ErrorStep DEF TaskInv
    <3> QED BY <3>1 DEF TodoFits
  <2>2. CASE Plan
    BY <2>2, PlannedBatchFits DEF TodoFits, TaskInv, ExposureInv, MarketInv
  <2> QED BY <2>1, <2>2
<1>6. asked \subseteq asked'
  BY <1>1
<1> QED BY <1>1, <1>2, <1>4, <1>5, <1>6, ExposureKept

LEMMA SendCancelExposure ==
    ASSUME TaskInv, ExposureInv, SendCancel
    PROVE  ExposureInv'
<1> DEFINE id == Head(todo)
<1>1. UNCHANGED <<seenOrders, seenPos, asked>> /\ pc = "cancelling"
  BY DEF SendCancel, runtime
<1>2. CommandOk(id, [orders[id] EXCEPT !.cancel = @ \/ Alive(id)]) \/ UNCHANGED exchange
  BY DEF SendCancel, CommandFails
<1> HIDE DEF id
<1>3. MarketInv' /\ SparesKept /\ setup' = setup
  <2>1. CASE CommandOk(id, [orders[id] EXCEPT !.cancel = @ \/ Alive(id)])
    BY <1>1, <2>1, CancelMarket DEF TaskInv, ExposureInv, MarketInv
  <2>2. CASE UNCHANGED exchange
    BY <1>1, <2>2, MarketUnmoved DEF ExposureInv, MarketInv, exchange
  <2> QED BY <1>2, <2>1, <2>2
<1>4. after \in {"returned", "cancelled", "stop", "nextStep"}
  BY <1>1 DEF TaskInv, RequestInv
<1>5. pc' \notin {"plan", "inserting"} /\ task'.target = task.target
  BY <1>4, SendCancelStep DEF TaskInv, SameOrders
<1>6. WantedInv' /\ TodoFits /\ asked \subseteq asked'
  BY <1>1, <1>5 DEF ExposureInv, WantedInv, TodoFits
<1> QED BY <1>3, <1>6, ExposureKept

LEMMA SendInsertExposure ==
    ASSUME TaskInv, ExposureInv, SendInsert
    PROVE  ExposureInv'
<1> DEFINE h == Head(todo)
           id == Cardinality({o \in Orders : orders[o].state # "none"}) + 1
           x  == [NoOrder EXCEPT !.state = "sent", !.volume = h.volume, !.left = h.volume,
                                 !.direction = h.direction, !.offset = h.offset, !.price = h.price]
<1>1. UNCHANGED <<seenOrders, seenPos, asked>> /\ pc = "inserting"
  BY DEF SendInsert, runtime
<1>2. \/ /\ id \in Orders /\ CommandOk(id, x)
         /\ IF Len(todo) > 1 THEN Goto("inserting", Tail(todo), "sent") ELSE Return
      \/ CommandFails /\ pc' \in {"failing", "stopping"}
  BY DEF SendInsert, RecordError, Goto
<1>3. task'.target = task.target
  BY SendInsertStep DEF TaskInv
<1>4. id \notin Used
  <2>1. id = Cardinality(Used) + 1
    BY DEF Used
  <2> HIDE DEF id
  <2> QED BY <2>1, FreshOrder DEF TaskInv, ExchangeInv
<1>5. /\ x.state = "sent" /\ x.left = h.volume /\ x.direction = h.direction
      /\ x.offset = h.offset
  BY DEF NoOrder
<1> HIDE DEF id, x
<1>6. CASE /\ id \in Orders /\ CommandOk(id, x)
           /\ IF Len(todo) > 1 THEN Goto("inserting", Tail(todo), "sent") ELSE Return
  <2>1. orders' = [orders EXCEPT ![id] = x] /\ UNCHANGED <<setup, pos>>
    BY <1>6 DEF CommandOk
  <2>2. PICK d \in Directions : IsBatch(todo, d) /\ todo # <<>> /\ Fits(todo, d)
    BY <1>1 DEF ExposureInv, TodoInv
  <2>3. PICK q : q = todo
    OBVIOUS
  <2>4. /\ IsBatch(q, d) /\ q # <<>> /\ Fits(q, d) /\ x.left = Head(q).volume
        /\ x.direction = Head(q).direction /\ x.offset = Head(q).offset
    BY <1>5, <2>2, <2>3
  <2>5. MarketInv' /\ RoomInv' /\ Fits(Tail(q), d)' /\ IsBatch(Tail(q), d)
    <3>1. ExchangeInv /\ MarketInv /\ RoomInv /\ asked \subseteq Int /\ id \in Orders \ Used
      BY <1>4, <1>6 DEF TaskInv, ExposureInv, MarketInv, WantedInv
    <3> QED BY <1>1, <1>5, <2>1, <2>4, <3>1, InsertMarket
  <2>6. TodoInv'
    <3>1. CASE Len(todo) > 1
      <4>1. todo' = Tail(todo)
        BY <1>6, <3>1 DEF Goto
      <4>2. PICK u : u = Tail(q)
        OBVIOUS
      <4>3. Fits(u, d)' /\ IsBatch(u, d) /\ todo' = u
        BY <2>3, <2>5, <4>1, <4>2
      <4>4. u # <<>>
        <5>1. Len(u) = Len(q) - 1 /\ Len(q) \in Nat /\ Len(q) > 1
          BY <2>3, <2>4, <3>1, <4>2, BatchTail
        <5>2. Len(<<>>) = 0
          OBVIOUS
        <5> QED BY <5>1, <5>2
      <4>5. IsBatch(todo, d)'
        BY <4>3 DEF IsBatch, IsPlan, IsList
      <4>6. \A offs : Volume(todo, offs)' = Volume(u, offs)
        BY <4>3 DEF Volume, Volumes, Share
      <4>7. Fits(todo, d)'
        BY <4>3, <4>6 DEF Fits
      <4> QED BY <4>3, <4>4, <4>5, <4>7 DEF TodoInv
    <3>2. CASE ~(Len(todo) > 1)
      <4>1. pc' = "returned"
        BY <1>6, <3>2 DEF Return, Goto
      <4> QED BY <4>1 DEF TodoInv
    <3> QED BY <3>1, <3>2
  <2>7. pc' # "plan"
    BY <1>6 DEF Return, Goto
  <2>8. WantedInv'
    BY <1>1, <1>3, <2>7 DEF ExposureInv, WantedInv
  <2> QED BY <2>5, <2>6, <2>8 DEF ExposureInv, MarketInv
<1>7. CASE CommandFails /\ pc' \in {"failing", "stopping"}
  <2>1. UNCHANGED <<setup, orders, pos>> /\ pc' \notin {"plan", "inserting"}
    BY <1>7 DEF CommandFails, exchange
  <2>2. MarketInv' /\ SparesKept
    BY <1>1, <2>1, MarketUnmoved DEF ExposureInv, MarketInv
  <2>3. WantedInv' /\ TodoFits /\ asked \subseteq asked'
    BY <1>1, <1>3, <2>1 DEF ExposureInv, WantedInv, TodoFits
  <2> QED BY <2>1, <2>2, <2>3, ExposureKept
<1> QED BY <1>2, <1>6, <1>7

(* The invariant is inductive with that of the task.                       *)
LEMMA ExposureStep == TaskInv /\ ExposureInv /\ [Next]_vars => ExposureInv'
<1> SUFFICES ASSUME TaskInv, ExposureInv, [Next]_vars PROVE ExposureInv'
  OBVIOUS
<1>1. CASE UNCHANGED vars
  <2>1. UNCHANGED <<setup, orders, pos, seenOrders, seenPos, task, pc, todo, wanted, asked>>
    BY <1>1 DEF vars, exchange, runtime, host
  <2>2. MarketInv' /\ SparesKept
    BY <2>1, MarketUnmoved DEF ExposureInv, MarketInv
  <2>3. TodoFits
    BY <2>1, TodoStays DEF ExposureInv
  <2>4. WantedInv' /\ asked \subseteq asked'
    BY <2>1 DEF ExposureInv, WantedInv
  <2> QED BY <2>1, <2>2, <2>3, <2>4, ExposureKept
<1>2. CASE \/ CheckOpen \/ (\E v \in setup.targets : SetTarget(v)) \/ PublishTarget
           \/ CancelTask \/ DropTask
  BY <1>2, CallerExposure
<1>3. CASE Environment \/ WaitUpdate \/ HostReturn
  BY <1>3, EnvironmentExposure
<1>4. CASE TaskSteps
  BY <1>4, ProcessExposure, SendCancelExposure, SendInsertExposure DEF TaskSteps
<1> QED BY <1>1, <1>2, <1>3, <1>4 DEF Next

LEMMA ExposureInit == Init => ExposureInv
<1> SUFFICES ASSUME Init PROVE ExposureInv
  OBVIOUS
<1>1. /\ \A o \in Orders : orders[o] = NoOrder /\ seenOrders[o] = NoOrder
      /\ setup \in Setups /\ pos = setup.position /\ seenPos = Snapshot
      /\ asked = {} /\ pc = "idle" /\ task = IdleTask
  BY DEF Init
<1>2. pos \in PositionType /\ seenPos.volume = pos
  BY <1>1, SetupsAssumption DEF PositionType, Snapshot
<1>3. /\ NoOrder.state = "none" /\ NoOrder.left = 0 /\ NoOrder.direction = "buy"
      /\ NoOrder.offset = "open"
  BY DEF NoOrder
<1>4. OrderTypes
  BY <1>1, <1>2, <1>3 DEF OrderTypes, Directions, Offsets
<1>5. \A d, offs : SeenOut(d, offs) = 0
  <2>1. \A d, offs : SeenLiveOf(d, offs) = {}
    BY <1>1, <1>3 DEF SeenLiveOf
  <2> QED BY <2>1, SumEmpty DEF SeenOut
<1>6. \A d, offs : FrozenBy(d, offs) = 0 /\ Unfilled(AliveOf(d, offs)) = 0
  <2>1. \A d, offs : AliveOf(d, offs) = {}
    BY <1>1, <1>3 DEF AliveOf, Alive
  <2>2. \A d, offs : {o \in Orders : /\ orders[o].state = "live"
                                     /\ orders[o].direction = d
                                     /\ orders[o].offset \in offs} = {}
    BY <1>1, <1>3
  <2>3. Unfilled({}) = 0
    BY SumEmpty DEF Unfilled
  <2> QED BY <2>1, <2>2, <2>3 DEF FrozenBy
<1>7. SeenTypes
  <2>1. \A d \in Directions : seenPos.frozenToday[d] = 0 /\ seenPos.frozenHis[d] = 0
    BY <1>1, <1>6 DEF Snapshot, Directions
  <2> QED BY <1>1, <1>5, <2>1 DEF SeenTypes
<1>8. \A d \in Directions, offs \in ClosingKinds \cup {Offsets} :
         /\ Stock(pos, d, offs) \in Int
         /\ Spare(d, offs) = Stock(pos, d, offs) /\ SeenSpare(d, offs) = Stock(pos, d, offs)
  <2> SUFFICES ASSUME NEW d \in Directions, NEW offs \in ClosingKinds \cup {Offsets}
               PROVE  /\ Stock(pos, d, offs) \in Int
                      /\ Spare(d, offs) = Stock(pos, d, offs)
                      /\ SeenSpare(d, offs) = Stock(pos, d, offs)
    OBVIOUS
  <2>1. Stock(pos, d, offs) \in Int
    BY <1>2, StockFacts
  <2>2. Unfilled(AliveOf(d, offs)) = 0 /\ SeenOut(d, offs) = 0
    BY <1>5, <1>6
  <2> QED BY <1>2, <2>1, <2>2 DEF Spare, SeenSpare
<1>9. SpareInv
  BY <1>8 DEF SpareInv
<1>10. WantedInv
  BY <1>1 DEF WantedInv, IdleTask
<1>11. RoomInv
  <2> SUFFICES ASSUME NEW d \in Directions
               PROVE  /\ \E v \in Requested : 0 <= Toward(d, v) + Spare(d, Offsets)
                      /\ \A offs \in ClosingKinds : 0 <= Spare(d, offs)
    BY DEF RoomInv
  <2>1. /\ NetPosition(pos) \in Int
        /\ Stock(pos, d, Offsets) = IF d = "buy" THEN -NetPosition(pos) ELSE NetPosition(pos)
        /\ 0 <= Stock(pos, d, {"closeToday"}) /\ 0 <= Stock(pos, d, {"close"})
        /\ 0 <= Stock(pos, d, {"close", "closeToday"})
    BY <1>2, StockFacts
  <2>2. NetPosition(pos) \in Requested
    BY <1>1 DEF Requested
  <2>3. 0 <= Toward(d, NetPosition(pos)) + Spare(d, Offsets)
    BY <1>8, <2>1 DEF Toward
  <2>4. \A offs \in ClosingKinds : 0 <= Stock(pos, d, offs)
    BY <2>1 DEF ClosingKinds
  <2> QED BY <1>8, <2>2, <2>3, <2>4
<1>12. TodoInv
  BY <1>1 DEF TodoInv
<1> QED BY <1>4, <1>7, <1>9, <1>10, <1>11, <1>12 DEF ExposureInv

(* Whatever fills come, while orders are replaced and the state lags: the  *)
(* position and all orders alive in one direction never go beyond the      *)
(* volumes the caller asked for, from where the position began             *)
(* (handle_live_orders and submit_desired_batch of target_pos/machine.rs). *)
THEOREM ExposureStaysWithin == Spec => []ExposureWithinTargets
<1>1. ExposureInv => ExposureWithinTargets
  <2> SUFFICES ASSUME ExposureInv PROVE ExposureWithinTargets
    OBVIOUS
  <2>1. OrderTypes /\ RoomInv /\ pos \in PositionType
    BY DEF ExposureInv, OrderTypes
  <2>2. \A d \in Directions : Outstanding(d) = Unfilled(AliveOf(d, Offsets))
    <3> SUFFICES ASSUME NEW d \in Directions PROVE Outstanding(d) = Unfilled(AliveOf(d, Offsets))
      OBVIOUS
    <3>1. {o \in Orders : Alive(o) /\ orders[o].direction = d} = AliveOf(d, Offsets)
      BY <2>1 DEF AliveOf, OrderTypes
    <3> QED BY <3>1 DEF Outstanding
  <2>3. \A d \in Directions : Unfilled(AliveOf(d, Offsets)) \in Nat
    BY <2>1, AliveSums
  <2>4. "buy" \in Directions /\ "sell" \in Directions
    BY DEF Directions
  <2>5. /\ NetPosition(pos) \in Int
        /\ Stock(pos, "buy", Offsets) = -NetPosition(pos)
        /\ Stock(pos, "sell", Offsets) = NetPosition(pos)
    BY <2>1, <2>4, StockFacts
  <2>6. Requested \subseteq Int
    <3>1. setup.position \in PositionType
      BY <2>1, SetupsAssumption DEF OrderTypes, PositionType
    <3>2. NetPosition(setup.position) \in Int
      BY <3>1, <2>4, StockFacts
    <3> QED BY <3>2 DEF Requested, ExposureInv, WantedInv
  <2>7. PICK v \in Requested : 0 <= Toward("buy", v) + Spare("buy", Offsets)
    BY <2>1, <2>4 DEF RoomInv
  <2>8. PICK w \in Requested : 0 <= Toward("sell", w) + Spare("sell", Offsets)
    BY <2>1, <2>4 DEF RoomInv
  <2>9. NetPosition(pos) + Outstanding("buy") <= v
    BY <2>2, <2>3, <2>4, <2>5, <2>6, <2>7 DEF Toward, Spare
  <2>10. NetPosition(pos) - Outstanding("sell") >= w
    BY <2>2, <2>3, <2>4, <2>5, <2>6, <2>8 DEF Toward, Spare
  <2> QED BY <2>9, <2>10 DEF ExposureWithinTargets
<1> QED BY InitKeeps, StepKeeps, ExposureInit, ExposureStep, <1>1, PTL DEF Spec

(* The closing orders alive never exceed the positions they close, counted *)
(* apart for today's positions where the exchange does so                  *)
(* (planned_order_for_action of plan.rs).                                  *)
THEOREM ClosesAreCovered == Spec => []ClosesCovered
<1>1. ExposureInv => ClosesCovered
  <2> SUFFICES ASSUME ExposureInv, NEW d \in {"buy", "sell"}
               PROVE  IF setup.shfe
                      THEN /\ Unfilled(AliveOf(d, {"closeToday"})) <= pos[Today(d)]
                           /\ Unfilled(AliveOf(d, {"close"})) <= pos[History(d)]
                      ELSE Unfilled(AliveOf(d, {"close", "closeToday"}))
                              <= pos[Today(d)] + pos[History(d)]
    BY DEF ClosesCovered, AliveOf
  <2>1. OrderTypes /\ RoomInv /\ pos \in PositionType /\ d \in Directions
    BY DEF ExposureInv, OrderTypes, Directions
  <2>2. /\ Stock(pos, d, {"closeToday"}) = pos[Today(d)]
        /\ Stock(pos, d, {"close"}) = pos[History(d)]
        /\ Stock(pos, d, {"close", "closeToday"}) = pos[Today(d)] + pos[History(d)]
        /\ pos[Today(d)] \in Nat /\ pos[History(d)] \in Nat
    BY <2>1, StockFacts
  <2>3. \A offs : Unfilled(AliveOf(d, offs)) \in Nat
    BY <2>1, AliveSums
  <2>4. \A offs \in ClosingKinds : 0 <= Stock(pos, d, offs) - Unfilled(AliveOf(d, offs))
    BY <2>1 DEF RoomInv, Spare
  <2>5. CASE setup.shfe
    <3>1. {"closeToday"} \in ClosingKinds /\ {"close"} \in ClosingKinds
      BY <2>5 DEF ClosingKinds
    <3>2. /\ 0 <= pos[Today(d)] - Unfilled(AliveOf(d, {"closeToday"}))
          /\ 0 <= pos[History(d)] - Unfilled(AliveOf(d, {"close"}))
      BY <2>2, <2>4, <3>1
    <3> QED BY <2>2, <2>3, <2>5, <3>2
  <2>6. CASE ~setup.shfe
    <3>1. {"close", "closeToday"} \in ClosingKinds
      BY <2>6 DEF ClosingKinds
    <3>2. 0 <= (pos[Today(d)] + pos[History(d)]) - Unfilled(AliveOf(d, {"close", "closeToday"}))
      BY <2>2, <2>4, <3>1
    <3> QED BY <2>2, <2>3, <2>6, <3>2
  <2> QED BY <2>5, <2>6
<1> QED BY InitKeeps, StepKeeps, ExposureInit, ExposureStep, <1>1, PTL DEF Spec

-----------------------------------------------------------------------------
(* The scheduler: its inductive invariant.                                 *)

SchedFields == {"step", "started", "active", "phase", "quoted", "cancelRequested", "finished",
                "failed", "dropped", "outcomes"}
TaskAtWork == {"process", "plan", "cancelling", "inserting", "cancelled", "returned", "stop",
               "nextStep", "failing", "stopping"}

SchedType ==
    /\ DOMAIN sched = SchedFields
    /\ sched.step \in Nat \ {0}
    /\ sched.started \in BOOLEAN /\ sched.active \in BOOLEAN /\ sched.finished \in BOOLEAN
    /\ pc \in {"idle", "scheduler"} \cup TaskAtWork

(* A step's task works only while the step is on, and a scheduler that has *)
(* ended does nothing.                                                     *)
PhaseInv ==
    /\ sched.active => sched.started /\ Target # None
    /\ sched.started /\ ~sched.active => Target = None
    /\ sched.failed \/ sched.dropped => sched.finished
    /\ sched.finished => pc = "idle" /\ ~sched.active
    /\ pc \in TaskAtWork => sched.active
    /\ pc = "stop" \/ (pc = "cancelling" /\ after = "stop") => sched.cancelRequested
    /\ pc = "cancelling" => after \in {"returned", "cancelled", "stop", "nextStep"}

(* The step's task has one request, its target; once that is reached       *)
(* nothing is planned or sent.                                             *)
StepTaskInv ==
    /\ sched.active =>
          /\ task.seq = 1 /\ task.target = Target /\ task.reached \in {0, 1}
          /\ task.applied # None => task.reached = 1
          /\ task.reached = 1 =>
                /\ task.tracked = {} /\ NetPosition(seenPos.volume) = Target
                /\ pc \notin {"plan", "inserting"}
    /\ pc = "plan" => wanted.seq = 1 /\ wanted.target = Target

(* Between two steps there is no order left to follow.                     *)
BetweenInv == ~sched.active /\ ~sched.failed /\ ~sched.dropped => task.tracked = {}

OutcomeInv == IsList(sched.outcomes) /\ OutcomesFollowSteps

SchedInv ==
    /\ ExchangeInv /\ KnownInv
    /\ SchedType /\ PhaseInv /\ StepTaskInv /\ BetweenInv /\ OutcomeInv /\ EndsAtLastTarget

-----------------------------------------------------------------------------
(* The pieces of process_wait_update.                                      *)

LEMMA ListExcept ==
    ASSUME NEW s, NEW i, NEW e, IsList(s)
    PROVE  IsList([s EXCEPT ![i] = e]) /\ Len([s EXCEPT ![i] = e]) = Len(s)
<1> DEFINE t == [s EXCEPT ![i] = e]
           S == {t[j] : j \in 1 .. Len(s)}
<1>1. Len(s) \in Nat /\ DOMAIN s = 1 .. Len(s)
  BY DEF IsList
<1>2. t = [j \in 1 .. Len(s) |-> t[j]]
  BY <1>1
<1> HIDE DEF t
<1>3. t \in Seq(S)
  <2>1. [j \in 1 .. Len(s) |-> t[j]] \in [1 .. Len(s) -> S]
    OBVIOUS
  <2> QED BY <1>1, <1>2, <2>1
<1> HIDE DEF S
<1>4. Len(t) \in Nat /\ DOMAIN t = 1 .. Len(t)
  BY <1>3, LenProperties
<1>5. Len(t) = Len(s)
  BY <1>1, <1>2, <1>4
<1> QED BY <1>1, <1>2, <1>5 DEF IsList, t

(* Collecting the task's reports changes the step's outcome only.          *)
LEMMA CollectedFacts ==
    ASSUME SchedInv
    PROVE  LET s == Collected(sched)
           IN  /\ DOMAIN s = SchedFields /\ s.step = sched.step /\ s.started = sched.started
               /\ s.active = sched.active /\ s.finished = sched.finished /\ s.failed = sched.failed
               /\ s.dropped = sched.dropped /\ s.cancelRequested = sched.cancelRequested
               /\ IsList(s.outcomes) /\ Len(s.outcomes) = Len(sched.outcomes)
<1> DEFINE e == [orders |-> task.known, trades |-> task.seen]
           new == [sched.outcomes EXCEPT ![sched.step] = e]
<1>1. DOMAIN sched = SchedFields /\ IsList(sched.outcomes)
  BY DEF SchedInv, SchedType, OutcomeInv
<1>2. IsList(new) /\ Len(new) = Len(sched.outcomes)
  BY <1>1, ListExcept
<1>3. CASE sched.active
  <2>1. Collected(sched) = [sched EXCEPT !.outcomes = new]
    BY <1>3 DEF Collected
  <2> HIDE DEF new
  <2> QED BY <1>1, <1>2, <2>1 DEF SchedFields
<1>4. CASE ~sched.active
  BY <1>1, <1>4 DEF Collected
<1> QED BY <1>3, <1>4

(* ensure_step_started leaves a step that is on, with its task.            *)
LEMMA StartedFacts ==
    ASSUME SchedInv, pc = "scheduler"
    PROVE  LET s == Started
               t == StepTask
           IN  /\ DOMAIN s = SchedFields /\ s.step = sched.step /\ s.started = TRUE
               /\ s.active \in BOOLEAN /\ s.finished = FALSE /\ ~s.failed /\ ~s.dropped
               /\ s.cancelRequested = sched.cancelRequested
               /\ IsList(s.outcomes) /\ Len(s.outcomes) = s.step
               /\ DOMAIN t = TaskFields /\ t.tracked \subseteq t.known /\ t.known \subseteq Used
               /\ \A o \in Used \ t.tracked : SeenDone(o)
               /\ ~s.active => Target = None /\ t.tracked = {} /\ t = task
               /\ s.active =>
                     /\ Target # None /\ t.seq = 1 /\ t.target = Target /\ t.reached \in {0, 1}
                     /\ t.applied # None => t.reached = 1
                     /\ t.reached = 1 => t.tracked = {} /\ NetPosition(seenPos.volume) = Target
<1>1. /\ DOMAIN sched = SchedFields /\ sched.step \in Nat \ {0} /\ sched.finished = FALSE
      /\ sched.started \in BOOLEAN /\ sched.active \in BOOLEAN
      /\ ~sched.failed /\ ~sched.dropped /\ (sched.active => sched.started /\ Target # None)
      /\ sched.started /\ ~sched.active => Target = None
  BY DEF SchedInv, SchedType, PhaseInv
<1>2. IsList(sched.outcomes) /\ Len(sched.outcomes) = sched.step - (IF sched.started THEN 0 ELSE 1)
  BY <1>1 DEF SchedInv, OutcomeInv, OutcomesFollowSteps
<1>3. /\ DOMAIN task = TaskFields /\ task.tracked \subseteq task.known /\ task.known \subseteq Used
      /\ \A o \in Used \ task.tracked : SeenDone(o)
  BY DEF SchedInv, KnownInv
<1>4. ~sched.active => task.tracked = {}
  BY <1>1 DEF SchedInv, BetweenInv
<1>5. CASE sched.started
  <2>1. Started = sched /\ StepTask = task
    BY <1>5 DEF Started, StepTask
  <2>2. Len(sched.outcomes) = sched.step
    BY <1>1, <1>2, <1>5
  <2>3. sched.active =>
           /\ task.seq = 1 /\ task.target = Target /\ task.reached \in {0, 1}
           /\ task.applied # None => task.reached = 1
           /\ task.reached = 1 => task.tracked = {} /\ NetPosition(seenPos.volume) = Target
    BY DEF SchedInv, StepTaskInv
  <2> QED BY <1>1, <1>2, <1>3, <1>4, <1>5, <2>1, <2>2, <2>3
<1>6. CASE ~sched.started
  <2> DEFINE s == Started
             new == Append(sched.outcomes, [orders |-> {}, trades |-> {}])
  <2>1. task.tracked = {}
    BY <1>1, <1>4, <1>6
  <2>2. IsList(new) /\ Len(new) = sched.step
    <3>1. Len(sched.outcomes) = sched.step - 1
      BY <1>2, <1>6
    <3> QED BY <1>1, <1>2, <3>1, ListAppend
  <2>3. s = [sched EXCEPT !.started = TRUE, !.phase = "running", !.active = Target # None,
                          !.outcomes = new]
    BY <1>6 DEF Started
  <2> HIDE DEF new
  <2>4. /\ DOMAIN s = SchedFields /\ s.step = sched.step /\ s.started = TRUE
        /\ s.active = (Target # None) /\ s.finished = sched.finished /\ s.failed = sched.failed
        /\ s.dropped = sched.dropped /\ s.cancelRequested = sched.cancelRequested
        /\ s.outcomes = new
    BY <1>1, <2>3 DEF SchedFields
  <2> HIDE DEF s
  <2>5. CASE Target = None
    <3>1. StepTask = task
      BY <2>5 DEF StepTask
    <3> QED BY <1>1, <1>3, <2>1, <2>2, <2>4, <2>5, <3>1 DEF s
  <2>6. CASE Target # None
    <3> DEFINE t == StepTask
    <3>1. t = [IdleTask EXCEPT !.target = Target, !.seq = 1]
      BY <1>6, <2>6 DEF StepTask
    <3>2. /\ DOMAIN t = TaskFields /\ t.known = {} /\ t.tracked = {} /\ t.seq = 1
          /\ t.target = Target /\ t.reached = 0 /\ t.applied = None
      BY <3>1 DEF IdleTask, TaskFields
    <3> HIDE DEF t
    <3>3. \A o \in Used \ t.tracked : SeenDone(o)
      BY <1>3, <2>1, <3>2
    <3>4. s.active = TRUE /\ s.finished = FALSE /\ ~s.failed /\ ~s.dropped
      BY <1>1, <2>4, <2>6
    <3>5. IsList(s.outcomes) /\ Len(s.outcomes) = s.step
      BY <2>2, <2>4
    <3>6. t.tracked \subseteq t.known /\ t.known \subseteq Used
      BY <3>2
    <3> QED BY <2>4, <2>6, <3>2, <3>3, <3>4, <3>5, <3>6 DEF s, t
  <2> QED BY <2>5, <2>6
<1> QED BY <1>1, <1>5, <1>6

-----------------------------------------------------------------------------
(* The exchange, the session, and the task of the step.                    *)

LEMMA OrdersKept ==
    ASSUME ExchangeInv, UNCHANGED <<orders, pos, trades, seenOrders, seenPos, seenTrades>>,
           DOMAIN task' = TaskFields, task'.tracked \subseteq task'.known,
           task'.known \subseteq Used, \A o \in Used \ task'.tracked : SeenDone(o)
    PROVE  ExchangeInv' /\ KnownInv'
<1>1. ExchangeInv' /\ Settled
  BY ExchangeQuiet
<1>2. KnownInv'
  BY <1>1 DEF KnownInv, Settled, SeenDone
<1> QED BY <1>1, <1>2

(* Without a tracked order the environment leaves the position alone.      *)
LEMMA PositionRests ==
    ASSUME ExchangeInv, KnownInv, task.tracked = {}, Environment
    PROVE  pos' = pos /\ seenPos'.volume = seenPos.volume
<1>1. seenPos.volume = pos /\ \A o \in Orders : ~Alive(o)
  BY NothingAlive
<1>2. CASE Exchange
  <2>1. PICK o \in Orders : Accept(o) \/ End(o) \/ \E v \in 1 .. orders[o].left : Fill(o, v)
    BY <1>2 DEF Exchange
  <2>2. CASE Accept(o) \/ End(o)
    BY <2>2 DEF Accept, End, runtime
  <2>3. CASE \E v \in 1 .. orders[o].left : Fill(o, v)
    BY <1>1, <2>3 DEF Fill, Alive
  <2> QED BY <2>1, <2>2, <2>3
<1>3. CASE Deliver
  BY <1>1, <1>3 DEF Deliver, Snapshot, exchange
<1>4. CASE \E p \in Prices : Tick(p)
  BY <1>4 DEF Tick, exchange
<1> QED BY <1>2, <1>3, <1>4 DEF Environment

LEMMA EnvironmentUnderScheduler ==
    ASSUME SchedInv, Environment, UNCHANGED sched
    PROVE  SchedInv'
<1>1. ExchangeInv' /\ Settled /\ UNCHANGED <<task, host, setting>>
  BY EnvironmentMoves DEF SchedInv
<1>2. UNCHANGED <<pc, after, wanted>> /\ Target' = Target
  BY <1>1 DEF host, Target
<1>3. KnownInv'
  BY <1>1 DEF SchedInv, KnownInv, Settled, SeenDone, Used
<1>4. task.tracked = {} => pos' = pos /\ seenPos'.volume = seenPos.volume
  BY PositionRests DEF SchedInv
<1>5. SchedType' /\ PhaseInv' /\ BetweenInv' /\ OutcomeInv'
  BY <1>1, <1>2 DEF SchedInv, SchedType, PhaseInv, BetweenInv, OutcomeInv, OutcomesFollowSteps
<1>6. StepTaskInv'
  BY <1>1, <1>2, <1>4 DEF SchedInv, StepTaskInv
<1>7. EndsAtLastTarget'
  <2>1. sched.finished /\ ~sched.failed /\ ~sched.dropped => task.tracked = {}
    BY DEF SchedInv, PhaseInv, BetweenInv
  <2> QED BY <1>4, <2>1 DEF SchedInv, EndsAtLastTarget
<1> QED BY <1>1, <1>3, <1>5, <1>6, <1>7 DEF SchedInv

(* What one step of the task means to the scheduler.                       *)
LEMMA TaskStepFacts ==
    ASSUME SchedInv, TaskSteps
    PROVE  /\ pc \in TaskAtWork /\ pc' \in TaskAtWork /\ UNCHANGED seenPos
           /\ pc' = "stop" \/ (pc' = "cancelling" /\ after' = "stop") =>
                 pc = "cancelling" /\ after = "stop"
           /\ pc' = "cancelling" => after' \in {"returned", "cancelled", "stop", "nextStep"}
           /\ task'.seq = task.seq /\ task'.target = task.target
           /\ \/ /\ SameRequest(task, task')
                 /\ task'.tracked \subseteq task.tracked \/ pc = "inserting"
              \/ /\ task'.tracked = {} /\ NetPosition(seenPos.volume) = wanted.target
                 /\ task'.reached = wanted.seq /\ pc = "plan" /\ pc' = "returned"
           /\ pc' = "plan" => /\ wanted' = [seq |-> task.seq, target |-> task.target]
                              /\ ~(task.reached >= task.seq)
           /\ pc' = "inserting" => pc \in {"plan", "inserting"}
<1> USE DEF SameTask, SameOrders, TaskAtWork
<1>1. ExchangeInv /\ KnownInv
  BY DEF SchedInv
<1>2. CASE Process
  <2>1. pc = "process" /\ UNCHANGED seenPos
    BY <1>2 DEF Process, runtime
  <2> QED BY <1>1, <1>2, <2>1, ProcessStep
<1>3. CASE Plan
  <2>1. pc = "plan" /\ UNCHANGED seenPos
    BY <1>3 DEF Plan, runtime
  <2> QED BY <1>1, <1>3, <2>1, PlanStep
<1>4. CASE Cancelled
  <2>1. pc = "cancelled" /\ UNCHANGED seenPos
    BY <1>4 DEF Cancelled, runtime
  <2> QED BY <1>1, <1>4, <2>1, CancelledStep
<1>5. CASE SendCancel
  <2>1. pc = "cancelling" /\ UNCHANGED seenPos
    BY <1>5 DEF SendCancel, runtime
  <2>2. after \in {"returned", "cancelled", "stop", "nextStep"}
    BY <2>1 DEF SchedInv, PhaseInv
  <2> QED BY <1>1, <1>5, <2>1, <2>2, SendCancelStep
<1>6. CASE SendInsert
  <2>1. pc = "inserting" /\ UNCHANGED seenPos
    BY <1>6 DEF SendInsert, runtime
  <2> QED BY <1>1, <1>6, <2>1, SendInsertStep
<1>7. CASE FinishWithError \/ StopAfterError
  <2>1. UNCHANGED seenPos
    BY <1>7 DEF FinishWithError, StopAfterError, runtime
  <2> QED BY <1>1, <1>7, <2>1, ErrorStep
<1> QED BY <1>2, <1>3, <1>4, <1>5, <1>6, <1>7 DEF TaskSteps

LEMMA TaskUnderScheduler ==
    ASSUME SchedInv, TaskSteps, UNCHANGED sched
    PROVE  SchedInv'
<1>1. ExchangeInv' /\ KnownInv'
  BY TaskStepsKeep DEF SchedInv
<1>2. /\ pc \in TaskAtWork /\ pc' \in TaskAtWork /\ UNCHANGED seenPos
      /\ pc' = "stop" \/ (pc' = "cancelling" /\ after' = "stop") =>
            pc = "cancelling" /\ after = "stop"
      /\ pc' = "cancelling" => after' \in {"returned", "cancelled", "stop", "nextStep"}
      /\ task'.seq = task.seq /\ task'.target = task.target
      /\ \/ /\ SameRequest(task, task')
            /\ task'.tracked \subseteq task.tracked \/ pc = "inserting"
         \/ /\ task'.tracked = {} /\ NetPosition(seenPos.volume) = wanted.target
            /\ task'.reached = wanted.seq /\ pc = "plan" /\ pc' = "returned"
      /\ pc' = "plan" => /\ wanted' = [seq |-> task.seq, target |-> task.target]
                         /\ ~(task.reached >= task.seq)
      /\ pc' = "inserting" => pc \in {"plan", "inserting"}
  BY TaskStepFacts
<1>3. sched.active /\ ~sched.finished /\ Target' = Target /\ pc # "idle" /\ pc' # "idle"
  BY <1>2 DEF SchedInv, PhaseInv, Target, TaskAtWork
<1>4. SchedType' /\ BetweenInv' /\ OutcomeInv' /\ EndsAtLastTarget'
  BY <1>2, <1>3 DEF SchedInv, SchedType, BetweenInv, OutcomeInv, OutcomesFollowSteps,
                    EndsAtLastTarget
<1>5. PhaseInv'
  BY <1>2, <1>3 DEF SchedInv, PhaseInv
<1>6. StepTaskInv'
  <2>1. /\ task.seq = 1 /\ task.target = Target /\ task.reached \in {0, 1}
        /\ task.applied # None => task.reached = 1
        /\ task.reached = 1 =>
              /\ task.tracked = {} /\ NetPosition(seenPos.volume) = Target
              /\ pc \notin {"plan", "inserting"}
        /\ pc = "plan" => wanted.seq = 1 /\ wanted.target = Target
    BY <1>3 DEF SchedInv, StepTaskInv
  <2>2. pc' = "plan" => wanted'.seq = 1 /\ wanted'.target = Target /\ task.reached # 1
    BY <1>2, <2>1
  <2>3. CASE /\ SameRequest(task, task')
             /\ task'.tracked \subseteq task.tracked \/ pc = "inserting"
    BY <1>2, <1>3, <2>1, <2>2, <2>3 DEF StepTaskInv, SameRequest
  <2>4. CASE /\ task'.tracked = {} /\ NetPosition(seenPos.volume) = wanted.target
             /\ task'.reached = wanted.seq /\ pc = "plan" /\ pc' = "returned"
    BY <1>2, <1>3, <2>1, <2>4 DEF StepTaskInv
  <2> QED BY <1>2, <2>3, <2>4
<1> QED BY <1>1, <1>4, <1>5, <1>6 DEF SchedInv

-----------------------------------------------------------------------------
(* The steps of the scheduler itself.                                      *)

LEMMA FinishFacts ==
    ASSUME NEW t, DOMAIN t = TaskFields
    PROVE  LET u == Finish(t)
           IN  DOMAIN u = TaskFields /\ u.known = t.known /\ u.tracked = t.tracked
BY DEF Finish, TaskFields

LEMMA FinishedFacts ==
    ASSUME NEW s, NEW f, DOMAIN s = SchedFields
    PROVE  LET u == FinishedSched(s, f)
           IN  /\ DOMAIN u = SchedFields /\ u.step = s.step /\ u.finished = TRUE /\ u.failed = f
               /\ u.dropped = s.dropped /\ u.started = FALSE /\ u.active = FALSE
               /\ u.cancelRequested = s.cancelRequested /\ u.outcomes = s.outcomes
BY DEF FinishedSched, SchedFields

LEMMA AdvancedFacts ==
    ASSUME NEW s, DOMAIN s = SchedFields
    PROVE  LET u == Advanced(s)
           IN  /\ DOMAIN u = SchedFields /\ u.step = s.step + 1 /\ u.finished = s.finished
               /\ u.failed = s.failed /\ u.dropped = s.dropped /\ u.started = FALSE
               /\ u.active = FALSE /\ u.cancelRequested = s.cancelRequested
               /\ u.outcomes = s.outcomes
BY DEF Advanced, SchedFields

(* The scheduler ends.                                                     *)
LEMMA SchedulerEnds ==
    ASSUME ExchangeInv', KnownInv', DOMAIN sched' = SchedFields, sched'.step \in Nat \ {0},
           sched'.finished = TRUE, sched'.started = FALSE, sched'.active = FALSE,
           IsList(sched'.outcomes), pc' = "idle",
           \/ sched'.failed \/ sched'.dropped
           \/ /\ task'.tracked = {}
              /\ \/ sched'.cancelRequested \/ Steps[Len(Steps)] = None
                 \/ NetPosition(pos') = Steps[Len(Steps)]
    PROVE  SchedInv'
<1>1. SchedType' /\ PhaseInv'
  BY DEF SchedType, PhaseInv, TaskAtWork
<1>2. StepTaskInv' /\ BetweenInv'
  BY DEF StepTaskInv, BetweenInv
<1>3. OutcomeInv' /\ EndsAtLastTarget'
  BY DEF OutcomeInv, OutcomesFollowSteps, EndsAtLastTarget, IsList
<1> QED BY <1>1, <1>2, <1>3 DEF SchedInv

(* The scheduler goes on with a step that has no task at work.             *)
LEMMA SchedulerRests ==
    ASSUME ExchangeInv', KnownInv', DOMAIN sched' = SchedFields, sched'.step \in Nat \ {0},
           sched'.finished = FALSE, ~sched'.failed, ~sched'.dropped, sched'.active = FALSE,
           sched'.started \in BOOLEAN, sched'.started => Target' = None,
           IsList(sched'.outcomes),
           Len(sched'.outcomes) = sched'.step - (IF sched'.started THEN 0 ELSE 1),
           pc' \in {"idle", "scheduler"}, task'.tracked = {}
    PROVE  SchedInv'
<1>1. SchedType' /\ PhaseInv'
  BY DEF SchedType, PhaseInv, TaskAtWork
<1>2. StepTaskInv' /\ BetweenInv'
  BY DEF StepTaskInv, BetweenInv
<1>3. OutcomeInv' /\ EndsAtLastTarget'
  BY DEF OutcomeInv, OutcomesFollowSteps, EndsAtLastTarget, IsList
<1> QED BY <1>1, <1>2, <1>3 DEF SchedInv

(* The scheduler goes on with a step whose task is kept.                   *)
LEMMA SchedulerWorks ==
    ASSUME ExchangeInv', KnownInv', DOMAIN sched' = SchedFields, sched'.step \in Nat \ {0},
           sched'.finished = FALSE, ~sched'.failed, ~sched'.dropped, sched'.active = TRUE,
           sched'.started = TRUE, Target' # None,
           IsList(sched'.outcomes), Len(sched'.outcomes) = sched'.step,
           \/ pc' \in {"idle", "scheduler", "process", "nextStep"}
           \/ pc' = "stop" /\ sched'.cancelRequested
           \/ pc' = "cancelling" /\ after' = "nextStep"
           \/ pc' = "cancelling" /\ after' = "stop" /\ sched'.cancelRequested,
           task'.seq = 1, task'.target = Target', task'.reached \in {0, 1},
           task'.applied # None => task'.reached = 1,
           task'.reached = 1 => task'.tracked = {} /\ NetPosition(seenPos'.volume) = Target'
    PROVE  SchedInv'
<1>1. SchedType' /\ PhaseInv'
  BY DEF SchedType, PhaseInv, TaskAtWork
<1>2. StepTaskInv' /\ BetweenInv'
  BY DEF StepTaskInv, BetweenInv
<1>3. OutcomeInv' /\ EndsAtLastTarget'
  BY DEF OutcomeInv, OutcomesFollowSteps, EndsAtLastTarget, IsList
<1> QED BY <1>1, <1>2, <1>3 DEF SchedInv

LEMMA CallersOfScheduler ==
    ASSUME SchedInv, CancelScheduler \/ DropScheduler \/ SchedulerWaitUpdate
    PROVE  SchedInv'
<1> USE DEF SchedInv
<1>1. UNCHANGED <<orders, pos, trades, seenOrders, seenPos, seenTrades>>
  BY DEF CancelScheduler, DropScheduler, SchedulerWaitUpdate, TakeCommit, vars, exchange, runtime
<1>2. /\ DOMAIN task = TaskFields /\ task.tracked \subseteq task.known /\ task.known \subseteq Used
      /\ \A o \in Used \ task.tracked : SeenDone(o)
  BY DEF KnownInv
<1>3. DOMAIN sched = SchedFields /\ sched.step \in Nat \ {0}
  BY DEF SchedType
<1>4. CASE CancelScheduler
  <2>1. sched' = [sched EXCEPT !.cancelRequested = TRUE] /\ ~sched.finished
        /\ UNCHANGED <<task, pc, after, wanted>>
    BY <1>4 DEF CancelScheduler, vars, host
  <2>2. /\ DOMAIN sched' = SchedFields /\ sched'.step = sched.step /\ sched'.started = sched.started
        /\ sched'.active = sched.active /\ sched'.finished = sched.finished
        /\ sched'.failed = sched.failed /\ sched'.dropped = sched.dropped
        /\ sched'.outcomes = sched.outcomes /\ sched'.cancelRequested = TRUE
    BY <1>3, <2>1 DEF SchedFields
  <2>3. ExchangeInv' /\ KnownInv'
    BY <1>1, <1>2, <2>1, OrdersKept
  <2>4. Target' = Target
    BY <2>2 DEF Target
  <2>5. SchedType' /\ PhaseInv'
    BY <2>1, <2>2, <2>4 DEF SchedType, PhaseInv
  <2>6. StepTaskInv' /\ BetweenInv'
    BY <1>1, <2>1, <2>2, <2>4 DEF StepTaskInv, BetweenInv
  <2>7. OutcomeInv' /\ EndsAtLastTarget'
    BY <2>1, <2>2 DEF OutcomeInv, OutcomesFollowSteps, EndsAtLastTarget
  <2> QED BY <2>3, <2>5, <2>6, <2>7
<1>5. CASE DropScheduler
  <2> DEFINE s == FinishedSched(sched, FALSE)
  <2>1. sched' = [s EXCEPT !.dropped = TRUE] /\ task' = Finish(task) /\ pc' = "idle"
    BY <1>5 DEF DropScheduler, host
  <2>2. /\ DOMAIN s = SchedFields /\ s.step = sched.step /\ s.finished = TRUE
        /\ s.started = FALSE /\ s.active = FALSE /\ s.outcomes = sched.outcomes
    BY <1>3, FinishedFacts
  <2> HIDE DEF s
  <2>3. /\ DOMAIN sched' = SchedFields /\ sched'.step = sched.step /\ sched'.finished = TRUE
        /\ sched'.started = FALSE /\ sched'.active = FALSE /\ sched'.outcomes = sched.outcomes
        /\ sched'.dropped = TRUE
    BY <2>1, <2>2 DEF SchedFields
  <2>4. ExchangeInv' /\ KnownInv'
    BY <1>1, <1>2, <2>1, FinishFacts, OrdersKept
  <2> QED BY <1>3, <2>1, <2>3, <2>4, SchedulerEnds DEF OutcomeInv
<1>6. CASE SchedulerWaitUpdate
  <2>1. ~sched.finished /\ pc = "idle" /\ pc' = "scheduler" /\ UNCHANGED <<task, after, wanted, sched>>
    BY <1>6 DEF SchedulerWaitUpdate, TakeCommit
  <2>2. ExchangeInv' /\ KnownInv' /\ Target' = Target
    BY <1>1, <1>2, <2>1, OrdersKept DEF Target
  <2>3. SchedType' /\ PhaseInv'
    BY <2>1, <2>2 DEF SchedType, PhaseInv, TaskAtWork
  <2>4. StepTaskInv' /\ BetweenInv'
    BY <1>1, <2>1, <2>2 DEF StepTaskInv, BetweenInv
  <2>5. OutcomeInv' /\ EndsAtLastTarget'
    BY <2>1 DEF OutcomeInv, OutcomesFollowSteps, EndsAtLastTarget
  <2> QED BY <2>2, <2>3, <2>4, <2>5
<1> QED BY <1>4, <1>5, <1>6

(* A task without the orders that were seen finished.                      *)
LEMMA PrunedTask ==
    ASSUME NEW t, DOMAIN t = TaskFields, t.tracked \subseteq t.known, t.known \subseteq Used,
           \A o \in Used \ t.tracked : SeenDone(o)
    PROVE  LET u == Prune(t)
           IN  /\ DOMAIN u = TaskFields /\ u.tracked \subseteq u.known /\ u.known \subseteq Used
               /\ \A o \in Used \ u.tracked : SeenDone(o)
               /\ u.tracked \subseteq t.tracked /\ u.seq = t.seq /\ u.target = t.target
               /\ u.applied = t.applied /\ u.reached = t.reached
<1> DEFINE u == Prune(t)
<1>1. SameTask(t, u) /\ SameRequest(t, u)
  BY PruneFacts
<1> HIDE DEF u
<1>2. /\ DOMAIN u = TaskFields /\ u.known = t.known /\ u.tracked \subseteq t.tracked
      /\ u.seq = t.seq /\ u.target = t.target /\ u.applied = t.applied /\ u.reached = t.reached
      /\ \A o \in t.tracked \ u.tracked : SeenDone(o)
  BY <1>1 DEF SameTask, SameOrders, SameRequest
<1>3. \A o \in Used \ u.tracked : SeenDone(o)
  BY <1>2
<1> QED BY <1>2, <1>3 DEF u

(* The scheduler starts to cancel the orders of the step's task.           *)
LEMMA CancellingStarts ==
    ASSUME ExchangeInv, NEW t, NEW then, CancelStepOrders(t, then),
           DOMAIN t = TaskFields, t.tracked \subseteq t.known, t.known \subseteq Used,
           \A o \in Used \ t.tracked : SeenDone(o),
           UNCHANGED <<exchange, runtime>>,
           then \in {"nextStep", "stop"}, then = "stop" => sched'.cancelRequested,
           DOMAIN sched' = SchedFields, sched'.step \in Nat \ {0},
           sched'.finished = FALSE, ~sched'.failed, ~sched'.dropped, sched'.active = TRUE,
           sched'.started = TRUE, Target' # None,
           IsList(sched'.outcomes), Len(sched'.outcomes) = sched'.step,
           t.seq = 1, t.target = Target', t.reached \in {0, 1}, t.applied # None => t.reached = 1,
           t.reached = 1 => t.tracked = {} /\ NetPosition(seenPos.volume) = Target'
    PROVE  SchedInv'
<1> DEFINE u == Prune(t)
<1>1. /\ DOMAIN u = TaskFields /\ u.tracked \subseteq u.known /\ u.known \subseteq Used
      /\ \A o \in Used \ u.tracked : SeenDone(o)
      /\ u.tracked \subseteq t.tracked /\ u.seq = t.seq /\ u.target = t.target
      /\ u.applied = t.applied /\ u.reached = t.reached
  BY PrunedTask
<1>2. task' = u /\ (pc' = then \/ (pc' = "cancelling" /\ after' = then))
  BY DEF CancelStepOrders, CancelOrders, Goto
<1> HIDE DEF u
<1>3. UNCHANGED <<orders, pos, trades, seenOrders, seenPos, seenTrades>>
  BY DEF exchange, runtime
<1>4. ExchangeInv' /\ KnownInv'
  BY <1>1, <1>2, <1>3, OrdersKept
<1>5. \/ pc' \in {"idle", "scheduler", "process", "nextStep"}
      \/ pc' = "stop" /\ sched'.cancelRequested
      \/ pc' = "cancelling" /\ after' = "nextStep"
      \/ pc' = "cancelling" /\ after' = "stop" /\ sched'.cancelRequested
  BY <1>2
<1>6. /\ task'.seq = 1 /\ task'.target = Target' /\ task'.reached \in {0, 1}
      /\ task'.applied # None => task'.reached = 1
      /\ task'.reached = 1 => task'.tracked = {} /\ NetPosition(seenPos'.volume) = Target'
  BY <1>1, <1>2, <1>3
<1> QED BY <1>4, <1>5, <1>6, SchedulerWorks

LEMMA StopSteps ==
    ASSUME SchedInv, StopScheduler
    PROVE  SchedInv'
<1>1. pc = "scheduler" /\ sched.cancelRequested /\ UNCHANGED <<exchange, runtime>>
  BY DEF StopScheduler
<1>2. /\ DOMAIN sched = SchedFields /\ sched.step \in Nat \ {0} /\ sched.finished = FALSE
      /\ sched.active \in BOOLEAN /\ ~sched.failed /\ ~sched.dropped
      /\ sched.active => sched.started = TRUE /\ Target # None
  BY <1>1 DEF SchedInv, SchedType, PhaseInv
<1>3. /\ DOMAIN task = TaskFields /\ task.tracked \subseteq task.known /\ task.known \subseteq Used
      /\ \A o \in Used \ task.tracked : SeenDone(o)
  BY DEF SchedInv, KnownInv
<1>4. UNCHANGED <<orders, pos, trades, seenOrders, seenPos, seenTrades>>
  BY <1>1 DEF exchange, runtime
<1>5. IsList(sched.outcomes) /\ Len(sched.outcomes) = sched.step - (IF sched.started THEN 0 ELSE 1)
  BY <1>2 DEF SchedInv, OutcomeInv, OutcomesFollowSteps
<1>6. CASE sched.active /\ CancelStepOrders(task, "stop") /\ UNCHANGED sched
  <2>1. Len(sched'.outcomes) = sched'.step /\ Target' = Target
    BY <1>2, <1>5, <1>6 DEF Target
  <2>2. /\ task.seq = 1 /\ task.target = Target /\ task.reached \in {0, 1}
        /\ task.applied # None => task.reached = 1
        /\ task.reached = 1 => task.tracked = {} /\ NetPosition(seenPos.volume) = Target
    BY <1>6 DEF SchedInv, StepTaskInv
  <2>3. ExchangeInv
    BY DEF SchedInv
  <2> QED BY <1>1, <1>2, <1>3, <1>5, <1>6, <2>1, <2>2, <2>3, CancellingStarts
<1>7. CASE /\ ~sched.active /\ sched' = FinishedSched(sched, FALSE)
           /\ Goto("idle", <<>>, None) /\ UNCHANGED task
  <2>1. task.tracked = {}
    BY <1>2, <1>7 DEF SchedInv, BetweenInv
  <2>2. ExchangeInv' /\ KnownInv'
    BY <1>3, <1>4, <1>7, OrdersKept DEF SchedInv
  <2>3. /\ DOMAIN sched' = SchedFields /\ sched'.step = sched.step /\ sched'.finished = TRUE
        /\ sched'.started = FALSE /\ sched'.active = FALSE /\ sched'.outcomes = sched.outcomes
        /\ sched'.cancelRequested = sched.cancelRequested
    BY <1>2, <1>7 DEF FinishedSched, SchedFields
  <2>4. pc' = "idle"
    BY <1>7 DEF Goto
  <2> QED BY <1>1, <1>2, <1>5, <1>7, <2>1, <2>2, <2>3, <2>4, SchedulerEnds
<1> QED BY <1>6, <1>7 DEF StopScheduler

(* A step is started and runs, or its time is up.                          *)
LEMMA StepSteps ==
    ASSUME SchedInv, RunStep \/ QuoteFails \/ EndStep
    PROVE  SchedInv'
<1> DEFINE s == Started
           t == StepTask
<1>1. pc = "scheduler" /\ UNCHANGED <<exchange, runtime>>
  BY DEF RunStep, QuoteFails, EndStep, CommandFails
<1>2. /\ DOMAIN s = SchedFields /\ s.step = sched.step /\ s.started = TRUE
      /\ s.active \in BOOLEAN /\ s.finished = FALSE /\ ~s.failed /\ ~s.dropped
      /\ s.cancelRequested = sched.cancelRequested
      /\ IsList(s.outcomes) /\ Len(s.outcomes) = s.step
      /\ DOMAIN t = TaskFields /\ t.tracked \subseteq t.known /\ t.known \subseteq Used
      /\ \A o \in Used \ t.tracked : SeenDone(o)
      /\ ~s.active => Target = None /\ t.tracked = {} /\ t = task
      /\ s.active =>
            /\ Target # None /\ t.seq = 1 /\ t.target = Target /\ t.reached \in {0, 1}
            /\ t.applied # None => t.reached = 1
            /\ t.reached = 1 => t.tracked = {} /\ NetPosition(seenPos.volume) = Target
  BY <1>1, StartedFacts
<1>3. sched.step \in Nat \ {0} /\ ExchangeInv
  BY DEF SchedInv, SchedType
<1>4. UNCHANGED <<orders, pos, trades, seenOrders, seenPos, seenTrades>>
  BY <1>1 DEF exchange, runtime
<1>5. DOMAIN s = SchedFields
  BY <1>2
<1>6. CASE RunStep
  <2>1. /\ task' = t
        /\ \/ /\ s.active /\ Goto("process", <<>>, None)
              /\ sched' = [s EXCEPT !.quoted = @ \/ ~IsLastStep]
           \/ /\ ~s.active /\ Goto("idle", <<>>, None)
              /\ sched' = IF IsLastStep THEN FinishedSched(s, FALSE) ELSE s
    BY <1>6 DEF RunStep
  <2> HIDE DEF s, t
  <2>2. ExchangeInv' /\ KnownInv'
    BY <1>2, <1>3, <1>4, <2>1, OrdersKept
  <2>3. CASE /\ s.active /\ Goto("process", <<>>, None)
             /\ sched' = [s EXCEPT !.quoted = @ \/ ~IsLastStep]
    <3>1. /\ DOMAIN sched' = SchedFields /\ sched'.step = s.step /\ sched'.started = s.started
          /\ sched'.active = s.active /\ sched'.finished = s.finished
          /\ sched'.failed = s.failed /\ sched'.dropped = s.dropped
          /\ sched'.outcomes = s.outcomes
      BY <1>2, <2>3 DEF SchedFields
    <3>2. Target' = Target /\ pc' = "process"
      BY <1>2, <2>3, <3>1 DEF Target, Goto
    <3> QED BY <1>2, <1>3, <1>4, <2>1, <2>2, <2>3, <3>1, <3>2, SchedulerWorks
  <2>4. CASE ~s.active /\ Goto("idle", <<>>, None) /\ ~IsLastStep /\ sched' = s
    <3>1. Target' = Target /\ pc' = "idle"
      BY <1>2, <2>4 DEF Target, Goto
    <3>2. /\ DOMAIN sched' = SchedFields /\ sched'.step \in Nat \ {0} /\ sched'.finished = FALSE
          /\ ~sched'.failed /\ ~sched'.dropped /\ sched'.active = FALSE /\ sched'.started = TRUE
          /\ IsList(sched'.outcomes) /\ Len(sched'.outcomes) = sched'.step
      BY <1>2, <1>3, <2>4
    <3>3. task'.tracked = {} /\ Target' = None
      BY <1>2, <2>1, <2>4, <3>1
    <3>4. Len(sched'.outcomes) = sched'.step - (IF sched'.started THEN 0 ELSE 1)
      BY <3>2
    <3> QED BY <2>2, <3>1, <3>2, <3>3, <3>4, SchedulerRests
  <2>5. CASE /\ ~s.active /\ Goto("idle", <<>>, None) /\ IsLastStep
             /\ sched' = FinishedSched(s, FALSE)
    <3>1. Steps[Len(Steps)] = None /\ pc' = "idle"
      BY <1>2, <2>5 DEF Target, IsLastStep, Goto
    <3>2. /\ DOMAIN sched' = SchedFields /\ sched'.step = s.step /\ sched'.finished = TRUE
          /\ sched'.started = FALSE /\ sched'.active = FALSE /\ sched'.outcomes = s.outcomes
      BY <1>5, <2>5 DEF FinishedSched, SchedFields
    <3> QED BY <1>2, <1>3, <2>1, <2>2, <2>5, <3>1, <3>2, SchedulerEnds
  <2> QED BY <2>1, <2>3, <2>4, <2>5
<1>7. CASE QuoteFails
  <2>1. task' = Finish(t) /\ sched' = FinishedSched(s, TRUE) /\ pc' = "idle"
    BY <1>7 DEF QuoteFails, Goto
  <2> HIDE DEF s, t
  <2>2. ExchangeInv' /\ KnownInv'
    BY <1>2, <1>3, <1>4, <2>1, FinishFacts, OrdersKept
  <2>3. /\ DOMAIN sched' = SchedFields /\ sched'.step = s.step /\ sched'.finished = TRUE
        /\ sched'.started = FALSE /\ sched'.active = FALSE /\ sched'.outcomes = s.outcomes
        /\ sched'.failed = TRUE
    BY <1>5, <2>1 DEF FinishedSched, SchedFields
  <2> QED BY <1>2, <1>3, <2>1, <2>2, <2>3, SchedulerEnds
<1>8. CASE EndStep
  <2>1. \/ /\ s.active /\ sched' = [s EXCEPT !.phase = "cancelling", !.quoted = TRUE]
           /\ CancelStepOrders(t, "nextStep")
        \/ ~s.active /\ sched' = Advanced(s) /\ UNCHANGED <<task, host>>
    BY <1>8 DEF EndStep
  <2> HIDE DEF s, t
  <2>2. CASE /\ s.active /\ sched' = [s EXCEPT !.phase = "cancelling", !.quoted = TRUE]
             /\ CancelStepOrders(t, "nextStep")
    <3>1. /\ DOMAIN sched' = SchedFields /\ sched'.step = s.step /\ sched'.started = s.started
          /\ sched'.active = s.active /\ sched'.finished = s.finished
          /\ sched'.failed = s.failed /\ sched'.dropped = s.dropped
          /\ sched'.outcomes = s.outcomes
      BY <1>2, <2>2 DEF SchedFields
    <3>2. Target' = Target
      BY <1>2, <3>1 DEF Target
    <3> QED BY <1>1, <1>2, <1>3, <2>2, <3>1, <3>2, CancellingStarts
  <2>3. CASE ~s.active /\ sched' = Advanced(s) /\ UNCHANGED <<task, host>>
    <3>1. /\ DOMAIN sched' = SchedFields /\ sched'.step = s.step + 1 /\ sched'.started = FALSE
          /\ sched'.active = FALSE /\ sched'.finished = s.finished
          /\ sched'.failed = s.failed /\ sched'.dropped = s.dropped
          /\ sched'.outcomes = s.outcomes
      BY <1>2, <2>3, AdvancedFacts
    <3>2. ExchangeInv' /\ KnownInv' /\ task'.tracked = {} /\ pc' = "scheduler"
      BY <1>1, <1>2, <1>3, <1>4, <2>3, OrdersKept DEF host
    <3>3. /\ sched'.step \in Nat \ {0}
          /\ Len(sched'.outcomes) = sched'.step - (IF sched'.started THEN 0 ELSE 1)
      BY <1>2, <1>3, <3>1
    <3> QED BY <1>2, <3>1, <3>2, <3>3, SchedulerRests
  <2> QED BY <2>1, <2>2, <2>3
<1> QED BY <1>6, <1>7, <1>8

LEMMA CancelledSteps ==
    ASSUME SchedInv, OrdersCancelled
    PROVE  SchedInv'
<1> DEFINE t == Prune(task)
           s == Collected(sched)
<1>1. /\ pc \in {"stop", "nextStep"} /\ UNCHANGED <<exchange, runtime>>
      /\ task' = IF t.tracked = {} THEN Finish(t) ELSE t
      /\ \/ /\ pc = "stop" /\ pc' = "idle"
            /\ sched' = IF t.tracked = {} THEN FinishedSched(s, FALSE) ELSE s
         \/ /\ pc = "nextStep" /\ pc' = IF t.tracked = {} THEN "scheduler" ELSE "idle"
            /\ sched' = IF t.tracked = {} THEN Advanced(s) ELSE s
  BY DEF OrdersCancelled, Goto
<1>2. /\ sched.step \in Nat \ {0} /\ sched.finished = FALSE /\ ~sched.failed /\ ~sched.dropped
      /\ sched.active = TRUE /\ sched.started = TRUE /\ Target # None
      /\ pc = "stop" => sched.cancelRequested
  BY <1>1 DEF SchedInv, SchedType, PhaseInv, TaskAtWork
<1>3. Len(sched.outcomes) = sched.step
  BY <1>2 DEF SchedInv, OutcomeInv, OutcomesFollowSteps
<1>4. /\ DOMAIN s = SchedFields /\ s.step = sched.step /\ s.started = sched.started
      /\ s.active = sched.active /\ s.finished = sched.finished /\ s.failed = sched.failed
      /\ s.dropped = sched.dropped /\ s.cancelRequested = sched.cancelRequested
      /\ IsList(s.outcomes) /\ Len(s.outcomes) = Len(sched.outcomes)
  BY CollectedFacts
<1>5. /\ DOMAIN t = TaskFields /\ t.tracked \subseteq t.known /\ t.known \subseteq Used
      /\ \A o \in Used \ t.tracked : SeenDone(o)
      /\ t.tracked \subseteq task.tracked /\ t.seq = task.seq /\ t.target = task.target
      /\ t.applied = task.applied /\ t.reached = task.reached
  BY PrunedTask DEF SchedInv, KnownInv
<1> HIDE DEF s, t
<1>6. UNCHANGED <<orders, pos, trades, seenOrders, seenPos, seenTrades>> /\ ExchangeInv
  BY <1>1 DEF exchange, runtime, SchedInv
<1>7. DOMAIN s = SchedFields /\ DOMAIN t = TaskFields
  BY <1>4, <1>5
<1>8. CASE t.tracked = {}
  <2>1. DOMAIN task' = TaskFields /\ task'.known = t.known /\ task'.tracked = {}
    BY <1>1, <1>7, <1>8, FinishFacts
  <2>2. ExchangeInv' /\ KnownInv'
    BY <1>5, <1>6, <1>8, <2>1, OrdersKept
  <2>3. CASE pc = "stop"
    <3>1. /\ DOMAIN sched' = SchedFields /\ sched'.step = s.step /\ sched'.finished = TRUE
          /\ sched'.started = FALSE /\ sched'.active = FALSE /\ sched'.outcomes = s.outcomes
          /\ sched'.cancelRequested = s.cancelRequested
      BY <1>1, <1>7, <1>8, <2>3 DEF FinishedSched, SchedFields
    <3>2. sched'.cancelRequested /\ pc' = "idle"
      BY <1>1, <1>2, <1>4, <2>3, <3>1
    <3> QED BY <1>2, <1>4, <2>1, <2>2, <3>1, <3>2, SchedulerEnds
  <2>4. CASE pc = "nextStep"
    <3>1. /\ DOMAIN sched' = SchedFields /\ sched'.step = s.step + 1 /\ sched'.started = FALSE
          /\ sched'.active = FALSE /\ sched'.finished = s.finished
          /\ sched'.failed = s.failed /\ sched'.dropped = s.dropped
          /\ sched'.outcomes = s.outcomes
      BY <1>1, <1>7, <1>8, <2>4, AdvancedFacts
    <3>2. /\ sched'.step \in Nat \ {0} /\ pc' = "scheduler"
          /\ Len(sched'.outcomes) = sched'.step - (IF sched'.started THEN 0 ELSE 1)
      BY <1>1, <1>2, <1>3, <1>4, <1>8, <2>4, <3>1
    <3> QED BY <1>2, <1>4, <2>1, <2>2, <3>1, <3>2, SchedulerRests
  <2> QED BY <1>1, <2>3, <2>4
<1>9. CASE t.tracked # {}
  <2>1. task' = t /\ sched' = s /\ pc' = "idle"
    BY <1>1, <1>9
  <2>2. ExchangeInv' /\ KnownInv'
    BY <1>5, <1>6, <2>1, OrdersKept
  <2>3. Target' = Target
    BY <1>4, <2>1 DEF Target
  <2>4. /\ task.seq = 1 /\ task.target = Target /\ task.reached \in {0, 1}
        /\ task.applied # None => task.reached = 1
        /\ task.reached = 1 => task.tracked = {} /\ NetPosition(seenPos.volume) = Target
    BY <1>2 DEF SchedInv, StepTaskInv
  <2>5. /\ task'.seq = 1 /\ task'.target = Target' /\ task'.reached \in {0, 1}
        /\ task'.applied # None => task'.reached = 1
        /\ task'.reached = 1 => task'.tracked = {} /\ NetPosition(seenPos'.volume) = Target'
    BY <1>5, <1>6, <2>1, <2>3, <2>4
  <2> QED BY <1>2, <1>3, <1>4, <2>1, <2>2, <2>3, <2>5, SchedulerWorks
<1> QED BY <1>8, <1>9

LEMMA ReturnSteps ==
    ASSUME SchedInv, TaskReturned
    PROVE  SchedInv'
<1> DEFINE s == Collected(sched)
<1>1. /\ pc = "returned" /\ pc' = "idle" /\ UNCHANGED <<exchange, runtime>>
      /\ \/ sched' = FinishedSched(s, TRUE) /\ UNCHANGED task
         \/ /\ IsLastStep /\ task.applied = Target
            /\ sched' = FinishedSched(s, FALSE) /\ task' = Finish(task)
         \/ sched' = s /\ UNCHANGED task
  BY DEF TaskReturned, Goto
<1>2. /\ sched.step \in Nat \ {0} /\ sched.finished = FALSE /\ ~sched.failed /\ ~sched.dropped
      /\ sched.active = TRUE /\ sched.started = TRUE /\ Target # None
  BY <1>1 DEF SchedInv, SchedType, PhaseInv, TaskAtWork
<1>3. Len(sched.outcomes) = sched.step
  BY <1>2 DEF SchedInv, OutcomeInv, OutcomesFollowSteps
<1>4. /\ DOMAIN s = SchedFields /\ s.step = sched.step /\ s.started = sched.started
      /\ s.active = sched.active /\ s.finished = sched.finished /\ s.failed = sched.failed
      /\ s.dropped = sched.dropped /\ s.cancelRequested = sched.cancelRequested
      /\ IsList(s.outcomes) /\ Len(s.outcomes) = Len(sched.outcomes)
  BY CollectedFacts
<1> HIDE DEF s
<1>5. UNCHANGED <<orders, pos, trades, seenOrders, seenPos, seenTrades>> /\ ExchangeInv
  BY <1>1 DEF exchange, runtime, SchedInv
<1>6. /\ DOMAIN task = TaskFields /\ task.tracked \subseteq task.known /\ task.known \subseteq Used
      /\ \A o \in Used \ task.tracked : SeenDone(o)
  BY DEF SchedInv, KnownInv
<1>7. DOMAIN task' = TaskFields /\ task'.known = task.known /\ task'.tracked = task.tracked
  BY <1>1, <1>6, FinishFacts
<1>8. ExchangeInv' /\ KnownInv'
  BY <1>5, <1>6, <1>7, OrdersKept
<1>9. /\ task.seq = 1 /\ task.target = Target /\ task.reached \in {0, 1}
      /\ task.applied # None => task.reached = 1
      /\ task.reached = 1 => task.tracked = {} /\ NetPosition(seenPos.volume) = Target
  BY <1>2 DEF SchedInv, StepTaskInv
<1>10. DOMAIN s = SchedFields
  BY <1>4
<1>11. CASE sched' = FinishedSched(s, TRUE)
  <2>1. /\ DOMAIN sched' = SchedFields /\ sched'.step = s.step /\ sched'.finished = TRUE
        /\ sched'.started = FALSE /\ sched'.active = FALSE /\ sched'.outcomes = s.outcomes
        /\ sched'.failed = TRUE
    BY <1>10, <1>11 DEF FinishedSched, SchedFields
  <2> QED BY <1>1, <1>2, <1>4, <1>8, <2>1, SchedulerEnds
<1>12. CASE IsLastStep /\ task.applied = Target /\ sched' = FinishedSched(s, FALSE)
  <2>1. /\ DOMAIN sched' = SchedFields /\ sched'.step = s.step /\ sched'.finished = TRUE
        /\ sched'.started = FALSE /\ sched'.active = FALSE /\ sched'.outcomes = s.outcomes
    BY <1>10, <1>12 DEF FinishedSched, SchedFields
  <2>2. task.tracked = {} /\ NetPosition(seenPos.volume) = Target
    BY <1>2, <1>9, <1>12
  <2>3. seenPos.volume = pos
    BY <2>2, NothingAlive DEF SchedInv
  <2>4. NetPosition(pos') = Steps[Len(Steps)]
    BY <1>5, <1>12, <2>2, <2>3 DEF IsLastStep, Target
  <2> QED BY <1>1, <1>2, <1>4, <1>7, <1>8, <2>1, <2>2, <2>4, SchedulerEnds
<1>13. CASE sched' = s /\ UNCHANGED task
  <2>1. Target' = Target
    BY <1>4, <1>13 DEF Target
  <2>2. /\ task'.seq = 1 /\ task'.target = Target' /\ task'.reached \in {0, 1}
        /\ task'.applied # None => task'.reached = 1
        /\ task'.reached = 1 => task'.tracked = {} /\ NetPosition(seenPos'.volume) = Target'
    BY <1>5, <1>9, <1>13, <2>1
  <2> QED BY <1>1, <1>2, <1>3, <1>4, <1>8, <1>13, <2>1, <2>2, SchedulerWorks
<1> QED BY <1>1, <1>11, <1>12, <1>13

-----------------------------------------------------------------------------
(* The invariant of the specification.                                     *)

LEMMA SchedInitKeeps == SchedInit => SchedInv
<1> SUFFICES ASSUME SchedInit PROVE SchedInv
  OBVIOUS
<1>1. ExchangeInv /\ KnownInv
  BY InitKeeps DEF SchedInit, TaskInv
<1>2. /\ DOMAIN sched = SchedFields /\ sched.step = 1 /\ sched.started = FALSE
      /\ sched.active = FALSE /\ sched.finished = FALSE /\ sched.failed = FALSE
      /\ sched.dropped = FALSE /\ sched.outcomes = <<>>
  BY DEF SchedInit, IdleSched, SchedFields
<1>3. pc = "idle" /\ task.tracked = {}
  BY DEF SchedInit, Init, IdleTask
<1>4. IsList(<<>>) /\ Len(<<>>) = 0
  <2>1. Len(<<>>) = 0 /\ 1 .. 0 = {}
    OBVIOUS
  <2>2. <<>> = [i \in 1 .. 0 |-> <<>>[i]]
    OBVIOUS
  <2> QED BY <2>1, <2>2 DEF IsList
<1>5. SchedType /\ PhaseInv /\ StepTaskInv /\ BetweenInv
  <2>1. SchedType
    <3>1. sched.step \in Nat \ {0}
      BY <1>2
    <3> QED BY <1>2, <1>3, <3>1, Zenon DEF SchedType
  <2>2. PhaseInv
    BY <1>2, <1>3 DEF PhaseInv, TaskAtWork
  <2>3. StepTaskInv /\ BetweenInv
    BY <1>2, <1>3 DEF StepTaskInv, BetweenInv
  <2> QED BY <2>1, <2>2, <2>3
<1>6. OutcomeInv /\ EndsAtLastTarget
  BY <1>2, <1>4 DEF OutcomeInv, OutcomesFollowSteps, EndsAtLastTarget
<1> QED BY <1>1, <1>5, <1>6 DEF SchedInv

LEMMA SchedStepKeeps == SchedInv /\ [SchedNext]_schedVars => SchedInv'
<1> SUFFICES ASSUME SchedInv, [SchedNext]_schedVars PROVE SchedInv'
  OBVIOUS
<1>1. CASE UNCHANGED schedVars
  <2>1. /\ UNCHANGED <<orders, pos, trades, seenOrders, seenPos, seenTrades>>
        /\ UNCHANGED <<task, pc, after, wanted, sched>> /\ Target' = Target
    BY <1>1 DEF schedVars, vars, exchange, runtime, host, Target
  <2>2. ExchangeInv' /\ KnownInv'
    BY <2>1, ExchangeQuiet DEF SchedInv, KnownInv, Settled, SeenDone
  <2>3. SchedType' /\ PhaseInv' /\ StepTaskInv'
    BY <2>1 DEF SchedInv, SchedType, PhaseInv, StepTaskInv
  <2>4. BetweenInv' /\ OutcomeInv' /\ EndsAtLastTarget'
    BY <2>1 DEF SchedInv, BetweenInv, OutcomeInv, OutcomesFollowSteps, EndsAtLastTarget
  <2> QED BY <2>2, <2>3, <2>4 DEF SchedInv
<1>2. CASE CancelScheduler \/ DropScheduler \/ SchedulerWaitUpdate
  BY <1>2, CallersOfScheduler
<1>3. CASE StopScheduler
  BY <1>3, StopSteps
<1>4. CASE RunStep \/ QuoteFails \/ EndStep
  BY <1>4, StepSteps
<1>5. CASE OrdersCancelled
  BY <1>5, CancelledSteps
<1>6. CASE TaskReturned
  BY <1>6, ReturnSteps
<1>7. CASE (Environment \/ TaskSteps) /\ UNCHANGED sched
  BY <1>7, EnvironmentUnderScheduler, TaskUnderScheduler
<1> QED BY <1>1, <1>2, <1>3, <1>4, <1>5, <1>6, <1>7 DEF SchedNext

(* The record of the schedule has one entry per started step, however the  *)
(* steps end: by their time, by an early cancel, or at a pause             *)
(* (ensure_step_started and advance_step of scheduler/runner.rs).          *)
THEOREM OutcomesKeepPace == SchedSpec => []OutcomesFollowSteps
<1>1. SchedInv => OutcomesFollowSteps
  BY DEF SchedInv, OutcomeInv
<1> QED BY SchedInitKeeps, SchedStepKeeps, <1>1, PTL DEF SchedSpec

(* No order of an earlier step is alive when a later one starts, and none  *)
(* when the schedule has ended without an error, however the exchange's    *)
(* fills and cancels race with the step's time (process_wait_update of     *)
(* scheduler/runner.rs, which calls advance_step only without live orders).*)
THEOREM StepsAreApart == SchedSpec => []StepsDoNotOverlap
<1>1. SchedInv => StepsDoNotOverlap
  <2> SUFFICES ASSUME SchedInv, ~sched.failed, ~sched.dropped, NEW o \in Orders, Alive(o)
               PROVE  o \in task.known /\ sched.active /\ ~sched.finished
    BY DEF StepsDoNotOverlap
  <2>1. o \in Used /\ ~SeenDone(o)
    BY DEF SchedInv, ExchangeInv, OrderInv, Alive, Used
  <2>2. o \in task.tracked /\ o \in task.known
    BY <2>1 DEF SchedInv, KnownInv
  <2>3. sched.active
    BY <2>2 DEF SchedInv, BetweenInv
  <2>4. ~sched.finished
    BY <2>3 DEF SchedInv, PhaseInv
  <2> QED BY <2>2, <2>3, <2>4
<1> QED BY SchedInitKeeps, SchedStepKeeps, <1>1, PTL DEF SchedSpec

(* A schedule that ends by itself has left the position at the target of   *)
(* its last step, and it stays there (process_wait_update of               *)
(* scheduler/runner.rs).                                                   *)
THEOREM ScheduleEndsOnTarget == SchedSpec => []EndsAtLastTarget
<1>1. SchedInv => EndsAtLastTarget
  BY DEF SchedInv
<1> QED BY SchedInitKeeps, SchedStepKeeps, <1>1, PTL DEF SchedSpec
=============================================================================
