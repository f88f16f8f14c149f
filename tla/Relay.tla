------------------------------- MODULE Relay -------------------------------
(***************************************************************************)
(* The market relay: downstream clients state what they want, one pump     *)
(* keeps the upstream subscription equal to what all of them want together *)
(* and fans market data out to them (tqsdk-relay: server.rs, engine.rs,    *)
(* runtime.rs, upstream.rs).                                               *)
(*                                                                         *)
(* A task runs for each client (serve_stream) and one for the upstream     *)
(* (the pump).  They share the engine, the map of mailboxes and a channel  *)
(* of capacity one that tells the pump to look at the interests again;     *)
(* each access is a step of its own, because each takes its own lock.      *)
(* Rows are tick rows, numbered per symbol in the order they come; the     *)
(* cache keeps the newest of them in a ring.                               *)
(***************************************************************************)
EXTENDS InterestRegistry, SequencesExt

CONSTANTS Pump,          \* the upstream task
          Capacity,      \* frames a mailbox holds
          TickCapacity,  \* rows the ring of a symbol holds
          MaxCommands,   \* bound: commands of all clients
          MaxRows,       \* bound: rows of each symbol
          MaxFaults      \* bound: lost or replaced upstream connections

ASSUME RelayAssumption ==
    /\ Sources \subseteq [symbols : SUBSET Symbols, kline : BOOLEAN, width : Nat]
    /\ {Capacity, TickCapacity} \subseteq Nat \ {0} /\ {MaxCommands, MaxRows, MaxFaults} \subseteq Nat
    /\ Pump \notin Clients
    /\ IsFiniteSet(Clients) /\ IsFiniteSet(ChartIds) /\ IsFiniteSet(Symbols)

VARIABLES reg,        \* the engine's interest registry
          row,        \* [Symbols -> rows taken in so far, the number of the newest]
          ring,       \* [Symbols -> how many of the newest the cache holds]
          signal,     \* the channel to the pump holds its one message
          task,       \* [Tasks -> where it is and the frames it still has to deliver]
          outbox,     \* clients whose mailbox is in the server's map
          mailbox,    \* [Clients -> mailbox]
          got,        \* [Clients -> [Symbols -> rows received]]
          tracked,    \* idle_interests: item -> "active" or "idle"
          upstream,   \* items charted on the current upstream connection
          used        \* how much of each bound is spent

vars == <<reg, row, ring, signal, task, outbox, mailbox, got, tracked, upstream, used>>
clientVars == <<outbox, mailbox, got>>
pumpVars   == <<tracked, upstream>>

Tasks == Clients \cup {Pump}

(* What the pump charts upstream: a tick chart for every symbol, and a     *)
(* Kline chart for every Kline source of one symbol.                       *)
KlineItems == {src \in Sources : src.kline /\ \E s \in Symbols : src.symbols = {s}}

(* desired_upstream_tick_chart_symbols, desired_upstream_kline_sources     *)
Wanted == ChartSymbols(reg) \cup QuotedSymbols(reg) \cup (DOMAIN reg.sourceClients \cap KlineItems)

-----------------------------------------------------------------------------
(* Frames and mailboxes.                                                   *)

(* Chart frames are reliable; the rows a frame carries stand for it and    *)
(* for the window frame that follows it.                                   *)
Rows(c, s, rows)  == [to |-> c, symbol |-> s, rows |-> rows]
QuoteOf(c, s, n)  == [to |-> c, symbol |-> s, quote |-> n]
IsQuote(f)        == "quote" \in DOMAIN f

EmptyMailbox == [reliable |-> <<>>, quotes |-> <<>>, closed |-> FALSE]

Room(m)  == Len(m.reliable) + Len(m.quotes) < Capacity
Evict(m) == [m EXCEPT !.quotes = Tail(@)]

(* enqueue_quote: the newest quote of a symbol replaces the one waiting;   *)
(* otherwise older quotes make room, and without any it is dropped.        *)
EnqueueQuote(m, f) ==
    IF \E i \in DOMAIN m.quotes : m.quotes[i].symbol = f.symbol
    THEN [m EXCEPT !.quotes =
             [i \in DOMAIN @ |-> IF @[i].symbol = f.symbol THEN f ELSE @[i]]]
    ELSE IF Room(m) THEN [m EXCEPT !.quotes = Append(@, f)]
    ELSE IF m.quotes # <<>> THEN [Evict(m) EXCEPT !.quotes = Append(@, f)]
    ELSE m

(* Mutant: a chart frame that finds no room is dropped like a quote.       *)
RefusesNothing(m, f) == m.closed

(* try_enqueue ends Full or Closed.                                        *)
Refuses(m, f) == m.closed \/ (~ IsQuote(f) /\ Len(m.reliable) >= Capacity)

(* enqueue_reliable: waiting quotes make room for a chart frame.           *)
EnqueueReliable(m, f) ==
    IF Len(m.reliable) >= Capacity THEN m
    ELSE [(IF Room(m) THEN m ELSE Evict(m)) EXCEPT !.reliable = Append(@, f)]

-----------------------------------------------------------------------------
In(t, pc) == task[t].pc = pc
Idle(pc) == [pc |-> pc, hand |-> <<>>, stale |-> {}]
Goto(t, pc) == task' = [task EXCEPT ![t].pc = pc]
Spend(bound) == used' = [used EXCEPT ![bound] = @ + 1]

Init ==
    /\ reg = EmptyRegistry
    /\ row = [s \in Symbols |-> 0] /\ ring = [s \in Symbols |-> 0]
    /\ signal = FALSE
    /\ task = [t \in Tasks |-> Idle(IF t = Pump THEN "down" ELSE "new")]
    /\ outbox = {}
    /\ mailbox = [c \in Clients |-> EmptyMailbox]
    /\ got = [c \in Clients |-> [s \in Symbols |-> {}]]
    /\ tracked = NoIndex /\ upstream = {}
    /\ used = [commands |-> 0, faults |-> 0]

-----------------------------------------------------------------------------
(* A client's task.                                                        *)

Accept(c) ==
    /\ In(c, "new")
    /\ outbox' = outbox \cup {c}
    /\ Goto(c, "loop")
    /\ UNCHANGED <<reg, row, ring, signal, mailbox, got, pumpVars, used>>

(* handle_command: the engine changes the registry and makes the frames of *)
(* the answer in one lock section; the signal and the delivery follow.     *)
Command(c, next, frames) ==
    /\ In(c, "loop") /\ used.commands < MaxCommands
    /\ reg' = next
    /\ task' = [task EXCEPT ![c] = [pc |-> "signal", hand |-> frames, stale |-> {}]]
    /\ Spend("commands")
    /\ UNCHANGED <<row, ring, signal, clientVars, pumpVars>>

SubscribeQuote(c, symbols) ==
    Command(c, SetQuotes(reg, c, symbols),
            SetToSeq({QuoteOf(c, s, row[s]) : s \in {s \in symbols : ring[s] > 0}}))

(* The newest rows of the cache, as many as the chart is wide              *)
(* (tick_window_bounds).                                                   *)
Visible(s, width) == {n \in 1..row[s] : row[s] - n < width /\ row[s] - n < ring[s]}

(* The rows of the chart's window are replayed from the cache              *)
(* (replay_cached_tick_frames); replayed Klines are not modelled.          *)
SetChartCommand(c, id, source) ==
    Command(c, SetChart(reg, c, id, source),
            IF source.kline THEN <<>>
            ELSE SetToSeq({Rows(c, s, Visible(s, source.width)) : s \in source.symbols}))

(* An empty symbol list removes the chart; the answer deletes it.          *)
RemoveChartCommand(c, id) ==
    \E s \in Symbols : Command(c, RemoveChart(reg, c, id), <<Rows(c, s, {})>>)

(* recv: chart frames before quotes, one frame for every peek_message; a   *)
(* client peeks whenever it likes, or never.                               *)
Receive(c) ==
    /\ In(c, "loop")
    /\ LET m == mailbox[c]
       IN  \/ /\ m.reliable # <<>>
              /\ mailbox' = [mailbox EXCEPT ![c].reliable = Tail(@)]
              /\ LET f == Head(m.reliable)
                 IN  got' = [got EXCEPT ![c][f.symbol] = @ \cup f.rows]
           \/ /\ m.reliable = <<>> /\ m.quotes # <<>>
              /\ mailbox' = [mailbox EXCEPT ![c].quotes = Tail(@)]
              /\ UNCHANGED got
    /\ UNCHANGED <<reg, row, ring, signal, task, outbox, pumpVars, used>>

(* The client goes away or breaks the protocol, or its mailbox is found    *)
(* closed, which only a pending peek_message makes the task notice.        *)
EndServe(c) ==
    /\ In(c, "loop")
    /\ Goto(c, "end")
    /\ UNCHANGED <<reg, row, ring, signal, clientVars, pumpVars, used>>

(* Mutant: a client whose mailbox is already gone is not looked up again.  *)
RemoveServedIfListed(c) ==
    /\ In(c, "end")
    /\ reg' = IF c \in outbox THEN RemoveClient(reg, c) ELSE reg
    /\ Goto(c, "unlist")
    /\ UNCHANGED <<row, ring, signal, clientVars, pumpVars, used>>

(* RelayServer::remove_client: the engine, the mailbox map, the signal.    *)
RemoveServed(c) ==
    /\ In(c, "end")
    /\ reg' = RemoveClient(reg, c)
    /\ Goto(c, "unlist")
    /\ UNCHANGED <<row, ring, signal, clientVars, pumpVars, used>>

Unlist(c) ==
    /\ In(c, "unlist")
    /\ outbox' = outbox \ {c}
    /\ mailbox' = [mailbox EXCEPT ![c].closed = TRUE]
    /\ Goto(c, "endsignal")
    /\ UNCHANGED <<reg, row, ring, signal, got, pumpVars, used>>

-----------------------------------------------------------------------------
(* dispatch_frames, by a client's task or by the pump.                     *)

(* try_send on a channel of capacity one: full is as good as sent.         *)
Signal(t) ==
    /\ task[t].pc \in {"signal", "kicksignal", "endsignal"}
    /\ signal' = TRUE
    /\ Goto(t, CASE In(t, "signal") -> "collect"
                 [] In(t, "kicksignal") -> "loop"
                 [] In(t, "endsignal") -> "gone")
    /\ UNCHANGED <<reg, row, ring, clientVars, pumpVars, used>>

(* The frames of clients without a mailbox in the map are dropped.         *)
Listed(frames) ==
    LET kept[i \in 0..Len(frames)] ==
            IF i = 0 THEN <<>>
            ELSE IF frames[i].to \in outbox THEN Append(kept[i - 1], frames[i])
            ELSE kept[i - 1]
    IN  kept[Len(frames)]

Collect(t) ==
    /\ In(t, "collect")
    /\ task' = [task EXCEPT ![t].pc = "push", ![t].hand = Listed(@)]
    /\ UNCHANGED <<reg, row, ring, signal, clientVars, pumpVars, used>>

Push(t) ==
    /\ In(t, "push") /\ task[t].hand # <<>>
    /\ LET f == Head(task[t].hand)
           m == mailbox[f.to]
       IN  IF Refuses(m, f)
           THEN /\ task' = [task EXCEPT ![t].hand = Tail(@), ![t].stale = @ \cup {f.to}]
                /\ UNCHANGED mailbox
           ELSE /\ task' = [task EXCEPT ![t].hand = Tail(@)]
                /\ mailbox' = [mailbox EXCEPT ![f.to] =
                                  IF IsQuote(f) THEN EnqueueQuote(m, f) ELSE EnqueueReliable(m, f)]
    /\ UNCHANGED <<reg, row, ring, signal, outbox, got, pumpVars, used>>

Delivered(t) ==
    /\ In(t, "push") /\ task[t].hand = <<>> /\ task[t].stale = {}
    /\ Goto(t, "loop")
    /\ UNCHANGED <<reg, row, ring, signal, clientVars, pumpVars, used>>

(* Clients that could not take a frame lose their mailbox, their interests *)
(* and, once they notice, their connection.                                *)
Kick(t) ==
    /\ In(t, "push") /\ task[t].hand = <<>> /\ task[t].stale # {}
    /\ outbox' = outbox \ task[t].stale
    /\ mailbox' = [c \in Clients |-> IF c \in outbox \cap task[t].stale
                                     THEN [mailbox[c] EXCEPT !.closed = TRUE] ELSE mailbox[c]]
    /\ Goto(t, "expel")
    /\ UNCHANGED <<reg, row, ring, signal, got, pumpVars, used>>

Expel(t) ==
    /\ In(t, "expel")
    /\ reg' = FoldSet(LAMBDA c, acc : RemoveClient(acc, c), reg, task[t].stale)
    /\ task' = [task EXCEPT ![t] = Idle("kicksignal")]
    /\ UNCHANGED <<row, ring, signal, clientVars, pumpVars, used>>

-----------------------------------------------------------------------------
(* The pump.                                                               *)

Fault == used.faults < MaxFaults /\ Spend("faults")

(* Mutant: a new connection waits for the next command.                    *)
ConnectQuietly ==
    /\ In(Pump, "down")
    /\ tracked' = NoIndex /\ upstream' = {}
    /\ Goto(Pump, "loop")
    /\ UNCHANGED <<reg, row, ring, signal, clientVars, used>>

(* A new connection has no charts; request_pending_upstream_subscriptions  *)
(* makes the pump look at the interests that are already there.            *)
Connect ==
    /\ In(Pump, "down")
    /\ tracked' = NoIndex /\ upstream' = {}
    /\ signal' = TRUE
    /\ Goto(Pump, "loop")
    /\ UNCHANGED <<reg, row, ring, clientVars, used>>

Lose ==
    /\ In(Pump, "loop") /\ Fault
    /\ upstream' = {}
    /\ Goto(Pump, "down")
    /\ UNCHANGED <<reg, row, ring, signal, clientVars, tracked>>

TakeSignal ==
    /\ In(Pump, "loop") /\ signal
    /\ signal' = FALSE
    /\ Goto(Pump, "observe")
    /\ UNCHANGED <<reg, row, ring, clientVars, pumpVars, used>>

(* observe_active: what is wanted is active, the rest starts to idle.      *)
Observe ==
    /\ In(Pump, "observe")
    /\ tracked' = [i \in DOMAIN tracked \cup Wanted |-> IF i \in Wanted THEN "active" ELSE "idle"]
    /\ Goto(Pump, "send")
    /\ UNCHANGED <<reg, row, ring, signal, clientVars, upstream, used>>

(* expire: some items have been idle for longer than the limit.            *)
Sweep(expired) ==
    /\ In(Pump, "loop")
    /\ expired # {} /\ \A i \in expired : tracked[i] = "idle"
    /\ tracked' = Drop(tracked, expired)
    /\ Goto(Pump, "send")
    /\ UNCHANGED <<reg, row, ring, signal, clientVars, upstream, used>>

(* The daily refresh replaces the connection and charts again.             *)
Refresh ==
    /\ In(Pump, "loop") /\ Fault
    /\ upstream' = {}
    /\ Goto(Pump, "send")
    /\ UNCHANGED <<reg, row, ring, signal, clientVars, tracked>>

(* reconcile_tick_charts: the charts become exactly the tracked items, or  *)
(* a request fails and the connection is given up.                         *)
SendCharts ==
    /\ In(Pump, "send")
    /\ upstream' = DOMAIN tracked
    /\ Goto(Pump, "loop")
    /\ UNCHANGED <<reg, row, ring, signal, clientVars, tracked, used>>

SendFails ==
    /\ In(Pump, "send") /\ Fault
    /\ upstream' = {}
    /\ Goto(Pump, "down")
    /\ UNCHANGED <<reg, row, ring, signal, clientVars, tracked>>

(* push_tick: the oldest row makes room in a full ring, a new epoch of row *)
(* ids empties it first, and other symbols may be evicted from the cache.  *)
PushTick(s) ==
    \E kept \in {0, ring[s]}, evicted \in SUBSET (Symbols \ {s}) :
        ring' = [u \in Symbols |->
                    IF u = s THEN IF kept < TickCapacity THEN kept + 1 ELSE TickCapacity
                    ELSE IF u \in evicted THEN 0 ELSE ring[u]]

(* ingest_tick: the row enters the cache and the frames are made, quotes   *)
(* first, in one lock section; they are delivered after it.                *)
Tick(s) ==
    /\ In(Pump, "loop") /\ s \in upstream /\ row[s] < MaxRows
    /\ row' = [row EXCEPT ![s] = @ + 1] /\ PushTick(s)
    /\ \E quotes \in SetToSeqs({QuoteOf(c, s, row'[s]) : c \in At(reg.quoteClients, s)}),
          charts \in SetToSeqs({Rows(c, s, {row'[s]}) : c \in TickClients(reg, s)}) :
          task' = [task EXCEPT ![Pump] = [pc |-> "collect", hand |-> quotes \o charts, stale |-> {}]]
    /\ UNCHANGED <<reg, signal, clientVars, pumpVars, used>>

-----------------------------------------------------------------------------
Client(c) ==
    \/ Accept(c) \/ Receive(c)
    \/ \E symbols \in SUBSET Symbols : SubscribeQuote(c, symbols)
    \/ \E id \in ChartIds, source \in Sources : SetChartCommand(c, id, source)
    \/ \E id \in ChartIds : RemoveChartCommand(c, id)
    \/ EndServe(c)

(* The steps a task takes by itself once it has begun.                     *)
Continue(t) ==
    \/ t \in Clients /\ (RemoveServed(t) \/ Unlist(t))
    \/ Signal(t) \/ Collect(t) \/ Push(t) \/ Delivered(t) \/ Kick(t) \/ Expel(t)

PumpSteps == TakeSignal \/ Observe \/ SendCharts \/ Connect
Expire    == \E expired \in SUBSET DOMAIN tracked : Sweep(expired)

Next ==
    \/ \E c \in Clients : Client(c)
    \/ \E t \in Tasks : Continue(t)
    \/ PumpSteps \/ Expire \/ Lose \/ Refresh \/ SendFails
    \/ \E s \in Symbols : Tick(s)

Spec == Init /\ [][Next]_vars

-----------------------------------------------------------------------------
(* The indexes of the registry agree after every command, removal and      *)
(* expulsion, in whatever order they come (InterestRegistry).              *)
RegistryIsConsistent == IndexesAgree(reg)

(* Signals are coalesced into one and the symbols sent with them are not   *)
(* used, connections are lost and idle charts given back; yet whenever the *)
(* pump is back in its loop, no signal is waiting and none is about to be  *)
(* sent, everything the clients want is charted upstream                   *)
(* (subscribe_dynamic_upstream_symbols, reconcile_tick_charts).            *)
InterestIsCharted ==
    /\ task[Pump].pc \notin {"down", "observe", "send"}
    /\ ~ signal
    /\ \A c \in Clients : ~ In(c, "signal")
    => Wanted \subseteq upstream

(* "a full mailbox makes the client stale instead of silently dropping a   *)
(* chart update" (OutboundMailbox): of the window of each of its tick      *)
(* charts, which the frames announce with left_id and right_id, a client   *)
(* with a mailbox has received every row, or the row waits in its mailbox  *)
(* or in the hands of a task that delivers to it; unless it is about to be *)
(* expelled.  Rows come in after the replay as well as before.             *)
RowsOf(frames, c, s) ==
    UNION {f.rows : f \in {g \in Range(frames) : g.to = c /\ g.symbol = s /\ ~ IsQuote(g)}}

RowsComplete ==
    \A key \in DOMAIN reg.charts :
        LET c == key[1]
            source == reg.charts[key]
        IN  /\ ~ source.kline /\ c \in outbox
            /\ \A t \in Tasks : c \notin task[t].stale
            => \A s \in source.symbols :
                  Visible(s, source.width)
                      \subseteq got[c][s] \cup RowsOf(mailbox[c].reliable, c, s)
                                \cup UNION {RowsOf(task[t].hand, c, s) : t \in Tasks}

(* A client whose task has ended has no mailbox and wants nothing, also    *)
(* when it was expelled earlier and its task, which does not know, handled *)
(* commands after that (remove_client).                                    *)
WantedBy(c) ==
    At(reg.quotes, c) \cup UNION {reg.charts[key].symbols :
                                     key \in {k \in DOMAIN reg.charts : k[1] = c}}
NothingLeftBehind ==
    \A c \in Clients : task[c].pc \in {"endsignal", "gone"} => c \notin outbox /\ WantedBy(c) = {}
=============================================================================
