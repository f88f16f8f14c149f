---------------------------- MODULE SessionLink ----------------------------
(***************************************************************************)
(* The link between a session client and its servers: the polls that flush *)
(* the outbound queue, ask each websocket route for data (peek_message)    *)
(* and receive, and the two ways a lost connection is replaced.            *)
(*                                                                         *)
(* progress_once is a sequence of steps under the io lock.  Its outer      *)
(* flush has no deadline; the drive of each route has one (PollBudget      *)
(* ticks), and whatever the drive is doing when the deadline passes is     *)
(* dropped: a future dropped in an await leaves no trace but the           *)
(* assignments it has made.  Submissions do not take the io lock, and      *)
(* connections are lost at any time.                                       *)
(***************************************************************************)
EXTENDS Naturals, Sequences, FiniteSets, SequencesExt

CONSTANTS
  Routes,          \* the websocket routes of the topology
  RouteOrder,      \* the order in which the topology lists them
  Market,          \* the route of the market domain
  Symbols,         \* the symbols of the application
  PollBudget,      \* WEBSOCKET_COMMAND_POLL_BUDGET, in ticks
  MaxBackoff,      \* ReconnectPolicy::max_backoff, in ticks
  Policies,        \* the reconnect policies a session may be built with
  NoLimit,         \* max_attempts = None
  Idle,            \* no call of progress_once is under way
  MaxCommands,     \* bound: commands the application submits
  MaxLosses        \* bound: connections lost

ASSUME LinkConstants ==
  /\ Market \in Routes
  /\ RouteOrder \in Seq(Routes)
  /\ IsInjective(RouteOrder) /\ Range(RouteOrder) = Routes
  /\ {PollBudget, MaxBackoff} \subseteq Nat
  /\ \A q \in Policies : q.backoff \in Nat /\ q.attempts \in Nat \cup {NoLimit}
  /\ {MaxCommands, MaxLosses} \subseteq Nat

\* A call is a record: at, the step; back, the step recover_run returns to;
\* route, the route driven; rounds, the routes left to drive; left, the ticks
\* left of the route's budget; attempt, that of recover_with_policy.
VARIABLES
  policy,        \* config.reconnect: initial_backoff in ticks, max_attempts
  conn,          \* the connections of io.run: up, the server holds a peek, a frame has arrived
  subscribed,    \* what the market server was last told on this connection
  wanted,        \* quote_subscriptions of the market adapter
  outbox,        \* the dispatches waiting to be drained
  pendingPeeks,  \* io.pending_peek_routes
  nextRoute,     \* io.next_websocket_route (1-based)
  phase,         \* system.session.phase: "Ready", "Reconnecting" or "Closed"
  call,          \* the step of the call of progress_once under way, or Idle
  spoiled,       \* history: routes whose awaited frame was consumed by a failed ingest
  cut,           \* history: market dispatches were lost in a dropped flush
  commands,      \* commands submitted so far
  losses         \* connections lost so far

vars == <<policy, conn, subscribed, wanted, outbox, pendingPeeks,
          nextRoute, phase, call, spoiled, cut, commands, losses>>
io   == <<pendingPeeks, nextRoute>>

Fresh == [up |-> TRUE, held |-> FALSE, frame |-> FALSE]

\* A bug: the subscription is not followed by a peek.
SubscriptionBare(symbols) ==
  << [route |-> Market, aid |-> "subscribe_quote", symbols |-> symbols] >>

\* request_with_peek: a subscription carries the adapter's whole set.
Subscription(symbols) ==
  << [route |-> Market, aid |-> "subscribe_quote", symbols |-> symbols],
     [route |-> Market, aid |-> "peek_message",    symbols |-> {}] >>

\* The market adapter's recovery_commands, submitted again.
RecoveryCommands == IF wanted = {} THEN <<>> ELSE Subscription(wanted)

ReconnectBackoff(attempt) == Min({policy.backoff * 2^(attempt - 1), MaxBackoff})

LinkInit ==
  /\ policy \in Policies
  /\ conn = [r \in Routes |-> Fresh]
  /\ subscribed = {} /\ wanted = {}
  /\ outbox = <<>>
  /\ pendingPeeks = {} /\ nextRoute = 1
  /\ phase = "Ready"
  /\ call = Idle
  /\ spoiled = {} /\ cut = FALSE
  /\ commands = 0 /\ losses = 0

-----------------------------------------------------------------------------
(* The application: submit needs no io lock.                               *)

SubmitInterest(symbols) ==
  /\ commands < MaxCommands
  /\ symbols # wanted
  /\ wanted' = symbols
  /\ outbox' = outbox \o Subscription(symbols)
  /\ commands' = commands + 1
  /\ UNCHANGED <<policy, conn, subscribed, io, phase, call, spoiled, cut, losses>>

SubmitOrder(r) ==
  /\ r # Market
  /\ commands < MaxCommands
  /\ outbox' = Append(outbox, [route |-> r, aid |-> "insert_order", symbols |-> {}])
  /\ commands' = commands + 1
  /\ UNCHANGED <<policy, conn, subscribed, wanted, io, phase, call, spoiled, cut, losses>>

-----------------------------------------------------------------------------
(* The servers and the network (external).                                 *)

\* A server answers a peek when it has something to say.
ServerFrame(r) ==
  /\ conn[r].up /\ conn[r].held
  /\ r = Market => subscribed # {}
  /\ conn' = [conn EXCEPT ![r].held = FALSE, ![r].frame = TRUE]
  /\ UNCHANGED <<policy, subscribed, wanted, outbox, io, phase, call,
                 spoiled, cut, commands, losses>>

LoseConnection(r) ==
  /\ losses < MaxLosses
  /\ conn[r].up
  /\ conn' = [conn EXCEPT ![r].up = FALSE, ![r].held = FALSE]
  /\ subscribed' = IF r = Market THEN {} ELSE subscribed
  /\ losses' = losses + 1
  /\ UNCHANGED <<policy, wanted, outbox, io, phase, call, spoiled, cut, commands>>

-----------------------------------------------------------------------------
(* Steps of progress_once.                                                 *)

\* A bug: the cursor stays where it is.
NextRoundSameCursor(c) ==
  IF c.rounds = 0
  THEN call' = Idle /\ UNCHANGED nextRoute
  ELSE /\ call' = [c EXCEPT !.at = "routeFlush",
                            !.route = RouteOrder[((Len(RouteOrder) - c.rounds) % Len(RouteOrder)) + 1],
                            !.rounds = @ - 1, !.left = PollBudget]
       /\ UNCHANGED nextRoute

\* The next route of the poll, or the end of progress_once.  A drive that ends
\* without progress, dropped or not, goes on with the next route.
NextRound(c) ==
  IF c.rounds = 0
  THEN call' = Idle /\ UNCHANGED nextRoute
  ELSE /\ call' = [c EXCEPT !.at = "routeFlush", !.route = RouteOrder[nextRoute],
                            !.rounds = @ - 1, !.left = PollBudget]
       /\ nextRoute' = (nextRoute % Len(RouteOrder)) + 1

\* The last subscription among the dispatches: at most one position.
LastTold(sent) ==
  {i \in DOMAIN sent : /\ sent[i].aid = "subscribe_quote"
                       /\ \A j \in DOMAIN sent : j > i => sent[j].aid # "subscribe_quote"}

\* What the servers make of the dispatches sent; on a lost connection a send
\* that does not fail goes nowhere.
Deliver(sent) ==
  LET peeked == {r \in Routes : \E i \in DOMAIN sent :
                                   sent[i].aid = "peek_message" /\ sent[i].route = r}
  IN /\ conn' = [r \in Routes |-> [conn[r] EXCEPT
                    !.held = @ \/ (conn[r].up /\ r \in peeked)]]
     /\ subscribed' = IF LastTold(sent) # {} /\ conn[Market].up
                      THEN sent[CHOOSE i \in LastTold(sent) : TRUE].symbols ELSE subscribed

\* The dispatches at which a send may fail; while a loss goes unnoticed it may
\* also fail at none of them.
Failures == {i \in DOMAIN outbox : ~conn[outbox[i].route].up}

BeginProgress ==
  /\ call = Idle
  /\ call' = [at |-> "flush", back |-> "flush", route |-> RouteOrder[nextRoute],
              rounds |-> Len(RouteOrder), left |-> PollBudget, attempt |-> 0]
  /\ UNCHANGED <<policy, conn, subscribed, wanted, outbox, io, phase,
                 spoiled, cut, commands, losses>>

\* flush_outbound sends everything; flush_outbound_locked marks the market
\* route as peeked, the bare flush of drive_route_once does not.
FlushSends ==
  /\ call # Idle
  /\ call.at \in {"flush", "routeFlush", "driveFlush", "reflush"}
  /\ outbox' = <<>>
  /\ Deliver(outbox)
  /\ pendingPeeks' =
       IF call.at # "driveFlush" /\ \E i \in DOMAIN outbox : outbox[i].route = Market
       THEN pendingPeeks \cup {Market} ELSE pendingPeeks
  /\ LET outer == call.at = "flush" \/ (call.at = "reflush" /\ call.back = "flush")
     IN CASE outer /\ outbox # <<>>  -> call' = Idle /\ UNCHANGED nextRoute
          [] outer /\ outbox = <<>>  -> NextRound(call)
          [] call.at = "driveFlush"  -> call' = [call EXCEPT !.at = "recv"] /\ UNCHANGED nextRoute
          [] OTHER                   -> call' = [call EXCEPT !.at = "prime"] /\ UNCHANGED nextRoute
  /\ cut' = (cut /\ ~\E i \in DOMAIN outbox : outbox[i].route = Market)
  /\ UNCHANGED <<policy, wanted, phase, spoiled, commands, losses>>

\* Within the drive of a route the deadline may pass while a send waits for the
\* socket: the dispatches not sent have been drained and are gone.
FlushDropped ==
  /\ call # Idle
  /\ call.at \in {"routeFlush", "driveFlush"} \/ (call.at = "reflush" /\ call.back # "flush")
  /\ \E n \in DOMAIN outbox :
       /\ Deliver(SubSeq(outbox, 1, n - 1))
       /\ cut' = (cut \/ \E i \in n..Len(outbox) : outbox[i].route = Market)
  /\ outbox' = <<>>
  /\ NextRound(call)
  /\ UNCHANGED <<policy, wanted, pendingPeeks, phase, spoiled, commands, losses>>

\* recover_run refuses when recovery is disabled.
ToRecoverRun(back) ==
  IF policy.attempts = 0
  THEN phase' = "Closed" /\ call' = Idle
  ELSE phase' = "Reconnecting" /\ call' = [call EXCEPT !.at = "recoverRun", !.back = back]

\* The whole queue was drained before the first send: what follows the failed
\* dispatch is lost with it.
FlushFails ==
  /\ call # Idle
  /\ call.at \in {"flush", "routeFlush", "driveFlush", "reflush"}
  /\ \E failed \in Failures :
       /\ Deliver(SubSeq(outbox, 1, failed - 1))
       /\ outbox' = <<>>
  /\ IF call.at \in {"flush", "routeFlush"}
     THEN ToRecoverRun(call.at)
     ELSE call' = Idle /\ UNCHANGED phase
  /\ UNCHANGED <<policy, wanted, io, spoiled, cut, commands, losses>>

\* prime_route asks for data unless it believes that it has asked.
Prime ==
  /\ call # Idle
  /\ call.at \in {"prime", "reprime"}
  /\ LET r == call.route
     IN \/ /\ r \in pendingPeeks
           /\ call' = [call EXCEPT !.at = "driveFlush"]
           /\ UNCHANGED <<conn, pendingPeeks, phase>>
        \/ /\ r \notin pendingPeeks
           /\ conn' = [conn EXCEPT ![r].held = conn[r].up]
           /\ pendingPeeks' = pendingPeeks \cup {r}
           /\ call' = [call EXCEPT !.at = "driveFlush"]
           /\ UNCHANGED phase
        \/ /\ r \notin pendingPeeks /\ ~conn[r].up
           /\ IF call.at = "prime" THEN ToRecoverRun("prime")
              ELSE call' = Idle /\ UNCHANGED phase
           /\ UNCHANGED <<conn, pendingPeeks>>
  /\ UNCHANGED <<policy, subscribed, wanted, outbox, nextRoute, spoiled, cut,
                 commands, losses>>

-----------------------------------------------------------------------------
(* Recovery: recover_internal builds a new run and submits the market      *)
(* interest again.                                                         *)

\* A bug: the interest is not submitted again.
NewRunForgetful ==
  /\ conn' = [r \in Routes |-> Fresh]
  /\ subscribed' = {}
  /\ phase' = "Ready"
  /\ spoiled' = {} /\ cut' = FALSE
  /\ UNCHANGED outbox

NewRun ==
  /\ conn' = [r \in Routes |-> Fresh]
  /\ subscribed' = {}
  /\ outbox' = outbox \o RecoveryCommands
  /\ phase' = "Ready"
  /\ spoiled' = {} /\ cut' = FALSE

RecoverRun ==
  /\ call # Idle /\ call.at = "recoverRun"
  /\ NewRun
  /\ pendingPeeks' = {}
  /\ call' = [call EXCEPT !.at = IF call.back = "prime" THEN "reprime" ELSE "reflush"]
  /\ UNCHANGED <<policy, wanted, nextRoute, commands, losses>>

\* Authentication, topology or a connection fails: the caller gets the error.
RecoverRunFails ==
  /\ call # Idle /\ call.at = "recoverRun"
  /\ phase' = "Closed"
  /\ call' = Idle
  /\ UNCHANGED <<policy, conn, subscribed, wanted, outbox, io, spoiled, cut,
                 commands, losses>>

\* Within the drive of a route the deadline may pass first.
RecoverRunDropped ==
  /\ call # Idle /\ call.at = "recoverRun" /\ call.back # "flush"
  /\ NextRound(call)
  /\ UNCHANGED <<policy, conn, subscribed, wanted, outbox, pendingPeeks,
                 phase, spoiled, cut, commands, losses>>

\* recover_with_policy: the backoff of the attempt, then the attempt.
Backoff ==
  /\ call # Idle /\ call.at = "backoff"
  /\ IF ReconnectBackoff(call.attempt) < call.left
     THEN /\ call' = [call EXCEPT !.at = "connect",
                                  !.left = @ - ReconnectBackoff(call.attempt)]
          /\ UNCHANGED nextRoute
     ELSE NextRound(call)
  /\ UNCHANGED <<policy, conn, subscribed, wanted, outbox, pendingPeeks,
                 phase, spoiled, cut, commands, losses>>

\* The run is replaced; pendingPeeks is not touched.
Connect ==
  /\ call # Idle /\ call.at = "connect"
  /\ NewRun
  /\ call' = Idle
  /\ UNCHANGED <<policy, wanted, io, commands, losses>>

ConnectFails ==
  /\ call # Idle /\ call.at = "connect"
  /\ IF policy.attempts # NoLimit /\ call.attempt >= policy.attempts
     THEN phase' = "Closed" /\ call' = Idle
     ELSE /\ call' = [call EXCEPT !.at = "backoff", !.attempt = @ + 1]
          /\ UNCHANGED phase
  /\ UNCHANGED <<policy, conn, subscribed, wanted, outbox, io, spoiled, cut,
                 commands, losses>>

ConnectDropped ==
  /\ call # Idle /\ call.at = "connect"
  /\ NextRound(call)
  /\ UNCHANGED <<policy, conn, subscribed, wanted, outbox, pendingPeeks,
                 phase, spoiled, cut, commands, losses>>

-----------------------------------------------------------------------------
(* Receiving.                                                              *)

\* A frame is ingested; only then is the next peek allowed.
RecvFrame ==
  /\ call # Idle /\ call.at = "recv"
  /\ conn[call.route].frame
  /\ conn' = [conn EXCEPT ![call.route].frame = FALSE]
  /\ pendingPeeks' = pendingPeeks \ {call.route}
  /\ spoiled' = spoiled \ {call.route}
  /\ call' = Idle
  /\ UNCHANGED <<policy, subscribed, wanted, outbox, nextRoute, phase,
                 cut, commands, losses>>

\* The frame is consumed and its ingest fails: the error leaves before
\* clear_pending_peek.
RecvBadFrame ==
  /\ call # Idle /\ call.at = "recv"
  /\ conn[call.route].frame
  /\ conn' = [conn EXCEPT ![call.route].frame = FALSE]
  /\ spoiled' = spoiled \cup {call.route}
  /\ call' = Idle
  /\ UNCHANGED <<policy, subscribed, wanted, outbox, io, phase, cut,
                 commands, losses>>

\* The loss is noticed: handle_disconnect or handle_transport_error, then
\* recover_with_policy from attempt 1.
RecvLost ==
  /\ call # Idle /\ call.at = "recv"
  /\ ~conn[call.route].up /\ ~conn[call.route].frame
  /\ IF policy.attempts = 0
     THEN phase' = "Closed" /\ call' = Idle
     ELSE phase' = "Reconnecting" /\ call' = [call EXCEPT !.at = "backoff", !.attempt = 1]
  /\ UNCHANGED <<policy, conn, subscribed, wanted, outbox, io, spoiled, cut,
                 commands, losses>>

\* Nothing arrives before the deadline.
RecvDropped ==
  /\ call # Idle /\ call.at = "recv"
  /\ conn[call.route].up /\ ~conn[call.route].frame
  /\ NextRound(call)
  /\ UNCHANGED <<policy, conn, subscribed, wanted, outbox, pendingPeeks,
                 phase, spoiled, cut, commands, losses>>

-----------------------------------------------------------------------------
LinkNext ==
  \/ \E symbols \in SUBSET Symbols : SubmitInterest(symbols)
  \/ \E r \in Routes : SubmitOrder(r)
  \/ \E r \in Routes : ServerFrame(r)
  \/ \E r \in Routes : LoseConnection(r)
  \/ BeginProgress
  \/ FlushSends
  \/ FlushFails
  \/ FlushDropped
  \/ Prime
  \/ RecoverRun
  \/ RecoverRunFails
  \/ RecoverRunDropped
  \/ Backoff
  \/ Connect
  \/ ConnectFails
  \/ ConnectDropped
  \/ RecvFrame
  \/ RecvBadFrame
  \/ RecvLost
  \/ RecvDropped

\* The host keeps polling, errors or not, every step of a poll ends, and a
\* server that is asked for a connection again and again grants one.
LinkFairness ==
  /\ WF_vars(BeginProgress) /\ WF_vars(FlushSends) /\ WF_vars(FlushFails)
  /\ WF_vars(Prime) /\ WF_vars(Backoff)
  /\ WF_vars(RecvFrame \/ RecvBadFrame \/ RecvLost \/ RecvDropped)
  /\ SF_vars(Connect) /\ SF_vars(RecoverRun)

LinkSpec == LinkInit /\ [][LinkNext]_vars /\ LinkFairness

-----------------------------------------------------------------------------
(* Properties.                                                             *)

AllUp == \A r \in Routes : conn[r].up

\* A loss leaves nothing behind.  Whatever was lost on the way - a drained queue
\* behind a failed send, a send into a dead connection, a dropped recovery - once
\* every connection stands and the queue has been sent, the market server knows
\* exactly the interest that the adapter keeps (recover_internal submits
\* recovery_commands again), and between two polls the session does not call
\* itself Reconnecting or Closed.  Only a flush dropped on a standing connection
\* (cut) loses interest that nothing tells again.
RepairIsComplete ==
  AllUp => /\ outbox = <<>> => cut \/ subscribed = wanted
           /\ call = Idle => phase = "Ready"

\* A subscribed market route never waits for data that it has not asked for:
\* when prime_route is held back by a peek that it believes pending, the server
\* has that peek or its answer has arrived.  A failed ingest (spoiled) and a
\* dropped flush (cut) are the exceptions the code leaves open.
MarketIsPeeked ==
  (/\ conn[Market].up /\ subscribed # {}
   /\ Market \in pendingPeeks /\ Market \notin spoiled /\ ~cut)
    => conn[Market].held \/ conn[Market].frame

\* A lost connection is replaced and the market interest told again, however
\* busy the other routes are, when the attempts are not limited and the first
\* backoff fits into the budget of a poll (recover_with_policy and the round
\* robin of next_route_label).  The second condition is the code's, not the
\* policy's: see the README on the default policy.
Reconnects ==
  (policy.attempts = NoLimit /\ policy.backoff < PollBudget /\ ~AllUp)
    ~> (AllUp /\ outbox = <<>> /\ (cut \/ subscribed = wanted))
=============================================================================
