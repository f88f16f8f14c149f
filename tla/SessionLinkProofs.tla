------------------------- MODULE SessionLinkProofs -------------------------
(***************************************************************************)
(* Theorems about SessionLink for any number of routes, any topology and   *)
(* reconnect policy, and any number of submissions and losses.             *)
(*                                                                         *)
(* The repair rests on two facts: the last subscription on its way carries *)
(* the interest that the adapter keeps (QueueInv), and whatever loses a    *)
(* subscription leaves a mark - a connection that does not stand or a cut  *)
(* flush - until a subscription is queued again (RepairInv).               *)
(***************************************************************************)
EXTENDS SessionLink, SequenceTheorems, TLAPS

-----------------------------------------------------------------------------
(* The inductive invariants.                                               *)

Dispatch ==
  [route : Routes, aid : {"subscribe_quote", "peek_message", "insert_order"},
   symbols : SUBSET Symbols]

Connection == [up : BOOLEAN, held : BOOLEAN, frame : BOOLEAN]

(* A call that repairs the session found a connection that does not stand, *)
(* and it stays so until the call replaces it.                             *)
CallInv ==
  call # Idle =>
    /\ DOMAIN call = {"at", "back", "route", "rounds", "left", "attempt"}
    /\ call.route \in Routes
    /\ call.at \in {"recoverRun", "backoff", "connect"} => ~AllUp

(* A subscription is followed by its peek, nothing else goes to the market *)
(* route, and the last subscription carries all that the adapter wants.    *)
QueueInv ==
  /\ outbox \in Seq(Dispatch)
  /\ wanted \in SUBSET Symbols
  /\ \A i \in DOMAIN outbox :
       /\ outbox[i].aid = "subscribe_quote" =>
            /\ outbox[i].route = Market
            /\ i + 1 \in DOMAIN outbox
            /\ outbox[i + 1].aid = "peek_message" /\ outbox[i + 1].route = Market
       /\ outbox[i].route = Market =>
            /\ outbox[i].aid # "insert_order"
            /\ LastTold(outbox) # {}
  /\ \A i \in LastTold(outbox) : outbox[i].symbols = wanted

LinkType ==
  /\ conn \in [Routes -> Connection]
  /\ nextRoute \in DOMAIN RouteOrder
  /\ cut \in BOOLEAN
  /\ CallInv

RepairInv ==
  AllUp => /\ phase = "Ready"
           /\ cut \/ LastTold(outbox) # {} \/ subscribed = wanted

LinkInv == LinkType /\ QueueInv

-----------------------------------------------------------------------------
(* What the steps of a call are made of.                                   *)

Fields == {"at", "back", "route", "rounds", "left", "attempt"}

(* Every route of the topology has its turn.                               *)
LEMMA RouteFacts ==
  /\ DOMAIN RouteOrder = 1 .. Len(RouteOrder) /\ Len(RouteOrder) \in Nat \ {0}
  /\ \A i \in DOMAIN RouteOrder : RouteOrder[i] \in Routes
  /\ \A i \in DOMAIN RouteOrder : (i % Len(RouteOrder)) + 1 \in DOMAIN RouteOrder
<1>1. /\ RouteOrder \in Seq(Routes) /\ Market \in Range(RouteOrder)
  BY LinkConstants
<1>2. /\ DOMAIN RouteOrder = 1 .. Len(RouteOrder) /\ Len(RouteOrder) \in Nat
  BY <1>1, LenProperties
<1>3. Len(RouteOrder) # 0
  BY <1>1, <1>2 DEF Range
<1>4. \A i \in DOMAIN RouteOrder : RouteOrder[i] \in Routes
  BY <1>1, <1>2, ElementOfSeq
<1>5. \A n \in Nat \ {0} : \A i \in 1 .. n : (i % n) + 1 \in 1 .. n
  OBVIOUS
<1> QED BY <1>2, <1>3, <1>4, <1>5

LEMMA NextRoundFacts ==
  ASSUME LinkType, call # Idle, NextRound(call)
  PROVE  /\ nextRoute' \in DOMAIN RouteOrder
         /\ call' # Idle => /\ DOMAIN call' = Fields /\ call'.route \in Routes
                            /\ call'.at = "routeFlush"
<1>1. DOMAIN call = Fields /\ nextRoute \in DOMAIN RouteOrder
  BY DEF LinkType, CallInv, Fields
<1>2. CASE call.rounds = 0
  BY <1>1, <1>2 DEF NextRound
<1>3. CASE call.rounds # 0
  <2>1. /\ call' = [call EXCEPT !.at = "routeFlush", !.route = RouteOrder[nextRoute],
                                !.rounds = @ - 1, !.left = PollBudget]
        /\ nextRoute' = (nextRoute % Len(RouteOrder)) + 1
    BY <1>3 DEF NextRound
  <2>2. RouteOrder[nextRoute] \in Routes
    BY <1>1, RouteFacts
  <2>3. DOMAIN call' = Fields /\ call'.route = RouteOrder[nextRoute] /\ call'.at = "routeFlush"
    BY <1>1, <2>1 DEF Fields
  <2> QED BY <1>1, <2>1, <2>2, <2>3, RouteFacts
<1> QED BY <1>2, <1>3

LEMMA RecoverFacts ==
  ASSUME LinkType, call # Idle, NEW back, ToRecoverRun(back)
  PROVE  call' # Idle => DOMAIN call' = Fields /\ call'.route \in Routes
<1>1. DOMAIN call = Fields /\ call.route \in Routes
  BY DEF LinkType, CallInv, Fields
<1> QED BY <1>1 DEF ToRecoverRun, Fields

(* A delivery raises peeks and breaks or repairs no connection; the market *)
(* server is told the last subscription.                                   *)
LEMMA DeliverFacts ==
  ASSUME LinkType, NEW sent, Deliver(sent)
  PROVE  /\ conn' \in [Routes -> Connection]
         /\ AllUp' <=> AllUp
         /\ \A r \in Routes : /\ conn'[r].up = conn[r].up /\ conn'[r].frame = conn[r].frame
                              /\ conn[r].held => conn'[r].held
         /\ \A i \in DOMAIN sent : sent[i].aid = "peek_message" /\ sent[i].route = Market
               => (conn[Market].up => conn'[Market].held)
         /\ LastTold(sent) = {} \/ ~conn[Market].up => subscribed' = subscribed
         /\ LastTold(sent) # {} /\ conn[Market].up
               => \E i \in LastTold(sent) : subscribed' = sent[i].symbols
<1> DEFINE peeked == {r \in Routes : \E i \in DOMAIN sent :
                                   sent[i].aid = "peek_message" /\ sent[i].route = r}
<1>1. /\ conn' = [r \in Routes |-> [conn[r] EXCEPT !.held = @ \/ (conn[r].up /\ r \in peeked)]]
      /\ subscribed' = IF LastTold(sent) # {} /\ conn[Market].up
                       THEN sent[CHOOSE i \in LastTold(sent) : TRUE].symbols ELSE subscribed
  BY DEF Deliver
<1>2. \A i \in DOMAIN sent : sent[i].aid = "peek_message" /\ sent[i].route = Market
        => Market \in peeked
  BY LinkConstants
<1> HIDE DEF peeked
<1>3. conn \in [Routes -> Connection] /\ Market \in Routes
  BY LinkConstants DEF LinkType
<1>4. \A r \in Routes : /\ conn'[r] \in Connection
                        /\ conn'[r].up = conn[r].up /\ conn'[r].frame = conn[r].frame
                        /\ conn'[r].held = (conn[r].held \/ (conn[r].up /\ r \in peeked))
  BY <1>1, <1>3 DEF Connection
<1>5. conn' \in [Routes -> Connection]
  BY <1>1, <1>4
<1>6. AllUp' <=> AllUp
  BY <1>4 DEF AllUp
<1> QED BY <1>1, <1>2, <1>3, <1>4, <1>5, <1>6

(* One connection changed.                                                 *)
LEMMA ConnFacts ==
  ASSUME LinkType, NEW r \in Routes, NEW c \in Connection, conn' = [conn EXCEPT ![r] = c]
  PROVE  /\ conn' \in [Routes -> Connection] /\ conn'[r] = c
         /\ \A q \in Routes \ {r} : conn'[q] = conn[q]
         /\ c.up = conn[r].up => (AllUp' <=> AllUp)
BY DEF LinkType, AllUp

LEMMA NewRunFacts ==
  ASSUME NewRun
  PROVE  /\ conn' \in [Routes -> Connection] /\ cut' = FALSE /\ phase' = "Ready"
         /\ subscribed' = {} /\ spoiled' = {}
BY DEF NewRun, Fresh, Connection

-----------------------------------------------------------------------------
(* Types, and what a repairing call knows.                                 *)

LEMMA TypeStep == LinkInv /\ [LinkNext]_vars => LinkType'
<1> SUFFICES ASSUME LinkInv, [LinkNext]_vars PROVE LinkType'
  OBVIOUS
<1> USE DEF LinkInv
<1>k. ASSUME UNCHANGED <<conn, nextRoute, call>>, cut' \in BOOLEAN PROVE LinkType'
  BY <1>k DEF LinkType, CallInv, AllUp
<1>n. ASSUME call # Idle, NextRound(call), conn' \in [Routes -> Connection], cut' \in BOOLEAN
      PROVE  LinkType'
  <2>1. /\ nextRoute' \in DOMAIN RouteOrder
        /\ call' # Idle => /\ DOMAIN call' = Fields /\ call'.route \in Routes
                           /\ call'.at = "routeFlush"
    BY <1>n, NextRoundFacts
  <2> QED BY <1>n, <2>1 DEF LinkType, CallInv, Fields
<1>r. ASSUME call # Idle, NEW back, ToRecoverRun(back), ~AllUp', cut' \in BOOLEAN,
             conn' \in [Routes -> Connection], UNCHANGED nextRoute
      PROVE  LinkType'
  <2>1. call' # Idle => DOMAIN call' = Fields /\ call'.route \in Routes
    BY <1>r, RecoverFacts
  <2> QED BY <1>r, <2>1 DEF LinkType, CallInv, Fields
<1>i. ASSUME call' = Idle, UNCHANGED nextRoute, conn' \in [Routes -> Connection], cut' \in BOOLEAN
      PROVE  LinkType'
  BY <1>i DEF LinkType, CallInv
<1>a. ASSUME call # Idle, UNCHANGED nextRoute, conn' \in [Routes -> Connection],
             cut' \in BOOLEAN, DOMAIN call' = DOMAIN call, call'.route = call.route,
             call'.at \in {"recoverRun", "backoff", "connect"} => ~AllUp'
      PROVE  LinkType'
  BY <1>a DEF LinkType, CallInv
<1>c. conn \in [Routes -> Connection] /\ cut \in BOOLEAN
  BY DEF LinkType
<1>f. call # Idle => DOMAIN call = Fields /\ call.route \in Routes
  BY DEF LinkType, CallInv, Fields
<1>1. ASSUME NEW symbols \in SUBSET Symbols, SubmitInterest(symbols) PROVE LinkType'
  BY <1>1, <1>c, <1>k DEF SubmitInterest, io
<1>2. ASSUME NEW r \in Routes, SubmitOrder(r) PROVE LinkType'
  BY <1>2, <1>c, <1>k DEF SubmitOrder, io
<1>3. ASSUME NEW r \in Routes, ServerFrame(r) PROVE LinkType'
  <2> DEFINE c == [conn[r] EXCEPT !.held = FALSE, !.frame = TRUE]
  <2>1. c \in Connection /\ c.up = conn[r].up /\ conn' = [conn EXCEPT ![r] = c]
    BY <1>3, <1>c DEF ServerFrame, Connection
  <2> HIDE DEF c
  <2>2. conn' \in [Routes -> Connection] /\ (AllUp' <=> AllUp)
    BY <2>1, ConnFacts
  <2>3. UNCHANGED <<nextRoute, call, cut>>
    BY <1>3 DEF ServerFrame, io
  <2> QED BY <2>2, <2>3 DEF LinkType, CallInv
<1>4. ASSUME NEW r \in Routes, LoseConnection(r) PROVE LinkType'
  <2> DEFINE c == [conn[r] EXCEPT !.up = FALSE, !.held = FALSE]
  <2>1. c \in Connection /\ c.up = FALSE /\ conn' = [conn EXCEPT ![r] = c]
    BY <1>4, <1>c DEF LoseConnection, Connection
  <2> HIDE DEF c
  <2>2. conn' \in [Routes -> Connection] /\ conn'[r].up = FALSE
    BY <2>1, ConnFacts
  <2>3. ~AllUp'
    BY <2>2 DEF AllUp
  <2>4. UNCHANGED <<nextRoute, call, cut>>
    BY <1>4 DEF LoseConnection, io
  <2> QED BY <2>2, <2>3, <2>4 DEF LinkType, CallInv
<1>5. CASE BeginProgress
  <2>1. RouteOrder[nextRoute] \in Routes
    BY RouteFacts DEF LinkType
  <2>2. /\ DOMAIN call' = Fields /\ call'.route = RouteOrder[nextRoute] /\ call'.at = "flush"
        /\ UNCHANGED <<conn, nextRoute, cut>>
    BY <1>5 DEF BeginProgress, Fields, io
  <2> QED BY <1>c, <2>1, <2>2 DEF LinkType, CallInv, Fields
<1>6. CASE FlushSends
  <2> DEFINE outer == call.at = "flush" \/ (call.at = "reflush" /\ call.back = "flush")
  <2>1. call # Idle /\ conn' \in [Routes -> Connection] /\ cut' \in BOOLEAN
    BY <1>6, <1>c, DeliverFacts DEF FlushSends
  <2>2. \/ NextRound(call)
        \/ call' = Idle /\ UNCHANGED nextRoute
        \/ call' = [call EXCEPT !.at = "recv"] /\ UNCHANGED nextRoute
        \/ call' = [call EXCEPT !.at = "prime"] /\ UNCHANGED nextRoute
    <3>1. CASE outer
      BY <1>6, <3>1 DEF FlushSends
    <3>2. CASE ~outer
      BY <1>6, <3>2 DEF FlushSends
    <3> QED BY <3>1, <3>2
  <2>3. ASSUME NEW at \in {"recv", "prime"}, call' = [call EXCEPT !.at = at], UNCHANGED nextRoute
        PROVE  LinkType'
    <3>1. DOMAIN call' = DOMAIN call /\ call'.route = call.route /\ call'.at = at
      BY <1>f, <2>1, <2>3 DEF Fields
    <3> QED BY <1>a, <2>1, <2>3, <3>1
  <2> QED BY <1>i, <1>n, <2>1, <2>2, <2>3
<1>7. CASE FlushFails
  <2>1. PICK failed \in Failures : Deliver(SubSeq(outbox, 1, failed - 1))
    BY <1>7 DEF FlushFails
  <2>2. outbox[failed].route \in Routes /\ ~conn[outbox[failed].route].up
    <3>1. failed \in 1 .. Len(outbox) /\ outbox \in Seq(Dispatch)
      BY <2>1, LenProperties DEF Failures, QueueInv
    <3>2. outbox[failed] \in Dispatch
      BY <3>1, ElementOfSeq
    <3> QED BY <2>1, <3>2 DEF Failures, Dispatch
  <2>3. ~AllUp' /\ conn' \in [Routes -> Connection]
    BY <2>1, <2>2, DeliverFacts DEF AllUp
  <2>4. call # Idle /\ UNCHANGED <<nextRoute, cut>>
        /\ (ToRecoverRun(call.at) \/ call' = Idle)
    BY <1>7 DEF FlushFails, io
  <2> QED BY <1>c, <1>i, <1>r, <2>3, <2>4
<1>8. CASE FlushDropped
  <2>1. call # Idle /\ NextRound(call) /\ cut' \in BOOLEAN /\ \E sent : Deliver(sent)
    BY <1>8 DEF FlushDropped
  <2> QED BY <1>n, <2>1, DeliverFacts
<1>9. CASE Prime
  <2>1. call # Idle /\ UNCHANGED <<nextRoute, cut>> /\ call.route \in Routes
    BY <1>9, <1>f DEF Prime
  <2>2. CASE ~conn[call.route].up /\ UNCHANGED conn /\ (ToRecoverRun("prime") \/ call' = Idle)
    <3>1. ~AllUp'
      BY <2>1, <2>2 DEF AllUp
    <3> QED BY <1>c, <1>i, <1>r, <2>1, <2>2, <3>1
  <2>3. CASE call' = [call EXCEPT !.at = "driveFlush"] /\ conn' \in [Routes -> Connection]
    <3>1. DOMAIN call' = DOMAIN call /\ call'.route = call.route /\ call'.at = "driveFlush"
      BY <1>f, <2>1, <2>3 DEF Fields
    <3> QED BY <1>a, <1>c, <2>1, <2>3, <3>1
  <2>4. ASSUME conn' = [conn EXCEPT ![call.route].held = conn[call.route].up]
        PROVE  conn' \in [Routes -> Connection]
    BY <1>c, <2>1, <2>4 DEF Connection
  <2> QED BY <1>9, <1>c, <2>2, <2>3, <2>4 DEF Prime
<1>10. CASE RecoverRun
  <2>1. call # Idle /\ UNCHANGED nextRoute /\ conn' \in [Routes -> Connection] /\ cut' = FALSE
    BY <1>10, NewRunFacts DEF RecoverRun
  <2>2. DOMAIN call' = DOMAIN call /\ call'.route = call.route
        /\ call'.at \in {"reprime", "reflush"}
    BY <1>10, <1>f DEF RecoverRun, Fields
  <2> QED BY <1>a, <2>1, <2>2
<1>11. CASE RecoverRunFails
  BY <1>11, <1>c, <1>i DEF RecoverRunFails, io
<1>12. CASE RecoverRunDropped \/ ConnectDropped \/ RecvDropped
  BY <1>12, <1>c, <1>n DEF RecoverRunDropped, ConnectDropped, RecvDropped
<1>13. CASE Backoff
  <2>1. call # Idle /\ call.at = "backoff" /\ UNCHANGED <<conn, cut>>
    BY <1>13 DEF Backoff
  <2>2. ~AllUp'
    BY <2>1 DEF LinkType, CallInv, AllUp
  <2>3. \/ NextRound(call)
        \/ /\ call' = [call EXCEPT !.at = "connect", !.left = @ - ReconnectBackoff(call.attempt)]
           /\ UNCHANGED nextRoute
    BY <1>13 DEF Backoff
  <2>4. CASE call' = [call EXCEPT !.at = "connect", !.left = @ - ReconnectBackoff(call.attempt)]
             /\ UNCHANGED nextRoute
    <3>1. DOMAIN call' = DOMAIN call /\ call'.route = call.route
      BY <1>f, <2>1, <2>4 DEF Fields
    <3> QED BY <1>a, <1>c, <2>1, <2>2, <2>4, <3>1
  <2> QED BY <1>c, <1>n, <2>1, <2>3, <2>4
<1>14. CASE Connect
  BY <1>14, <1>i, NewRunFacts DEF Connect, io
<1>15. CASE ConnectFails
  <2>1. call # Idle /\ call.at = "connect" /\ UNCHANGED <<conn, cut, nextRoute>>
    BY <1>15 DEF ConnectFails, io
  <2>2. ~AllUp'
    BY <2>1 DEF LinkType, CallInv, AllUp
  <2>3. CASE call' = Idle
    BY <1>c, <1>i, <2>1, <2>3
  <2>4. CASE call' = [call EXCEPT !.at = "backoff", !.attempt = @ + 1]
    <3>1. DOMAIN call' = DOMAIN call /\ call'.route = call.route
      BY <1>f, <2>1, <2>4 DEF Fields
    <3> QED BY <1>a, <1>c, <2>1, <2>2, <3>1
  <2> QED BY <1>15, <2>3, <2>4 DEF ConnectFails
<1>16. CASE RecvFrame \/ RecvBadFrame
  <2>1. /\ call # Idle /\ call' = Idle /\ UNCHANGED <<nextRoute, cut>>
        /\ conn' = [conn EXCEPT ![call.route].frame = FALSE]
    BY <1>16 DEF RecvFrame, RecvBadFrame, io
  <2>2. conn' \in [Routes -> Connection]
    BY <1>c, <1>f, <2>1 DEF Connection
  <2> QED BY <1>c, <1>i, <2>1, <2>2
<1>17. CASE RecvLost
  <2>1. /\ call # Idle /\ UNCHANGED <<nextRoute, cut, conn>> /\ ~conn[call.route].up
    BY <1>17 DEF RecvLost, io
  <2>2. ~AllUp'
    BY <1>f, <2>1 DEF AllUp
  <2>3. CASE call' = Idle
    BY <1>c, <1>i, <2>1, <2>3
  <2>4. CASE call' = [call EXCEPT !.at = "backoff", !.attempt = 1]
    <3>1. DOMAIN call' = DOMAIN call /\ call'.route = call.route
      BY <1>f, <2>1, <2>4 DEF Fields
    <3> QED BY <1>a, <1>c, <2>1, <2>2, <3>1
  <2> QED BY <1>17, <2>3, <2>4 DEF RecvLost
<1>18. CASE UNCHANGED vars
  BY <1>18, <1>c, <1>k DEF vars
<1> QED BY <1>1, <1>2, <1>3, <1>4, <1>5, <1>6, <1>7, <1>8, <1>9, <1>10, <1>11, <1>12, <1>13,
           <1>14, <1>15, <1>16, <1>17, <1>18 DEF LinkNext

-----------------------------------------------------------------------------
(* What waits to be sent.                                                  *)

(* A queued subscription is the last one and carries the whole interest.   *)
LEMMA SubscriptionQueued ==
  ASSUME QueueInv, NEW symbols \in SUBSET Symbols,
         outbox' = outbox \o Subscription(symbols), wanted' = symbols
  PROVE  QueueInv' /\ LastTold(outbox') # {}
<1> DEFINE n == Len(outbox)
           new == Subscription(symbols)
           tell == [route |-> Market, aid |-> "subscribe_quote", symbols |-> symbols]
           peek == [route |-> Market, aid |-> "peek_message", symbols |-> {}]
<1>1. outbox \in Seq(Dispatch) /\ n \in Nat /\ DOMAIN outbox = 1 .. n
  BY LenProperties DEF QueueInv
<1>2. tell \in Dispatch /\ peek \in Dispatch
  BY LinkConstants DEF Dispatch
<1>3. new \in Seq(Dispatch) /\ Len(new) = 2 /\ new[1] = tell /\ new[2] = peek
      /\ outbox' = outbox \o new
  BY <1>2 DEF Subscription
<1> HIDE DEF new, tell, peek
<1>4. /\ outbox' \in Seq(Dispatch) /\ Len(outbox') = n + 2
      /\ \A i \in 1 .. n + 2 : outbox'[i] = IF i <= n THEN outbox[i] ELSE new[i - n]
  <2> DEFINE all == outbox \o new
  <2>1. /\ all \in Seq(Dispatch) /\ Len(all) = Len(outbox) + Len(new)
        /\ \A i \in 1 .. Len(outbox) + Len(new) :
             all[i] = IF i <= Len(outbox) THEN outbox[i] ELSE new[i - Len(outbox)]
    BY <1>1, <1>3, ConcatProperties
  <2>2. outbox' = all /\ Len(new) = 2
    BY <1>3
  <2> HIDE DEF all
  <2> QED BY <2>1, <2>2
<1> HIDE DEF n
<1>5. DOMAIN outbox' = 1 .. n + 2
  BY <1>4, LenProperties
<1>6. /\ \A i \in 1 .. n : i \in 1 .. n + 2 /\ outbox'[i] = outbox[i]
      /\ outbox'[n + 1] = tell /\ outbox'[n + 2] = peek
      /\ n + 1 \in 1 .. n + 2 /\ n + 2 \in 1 .. n + 2 /\ (n + 1) + 1 = n + 2
      /\ \A i \in 1 .. n + 2 : i \in 1 .. n \/ i = n + 1 \/ i = n + 2
  <2>1. /\ n + 1 \in 1 .. n + 2 /\ n + 2 \in 1 .. n + 2 /\ (n + 1) + 1 = n + 2
        /\ ~(n + 1 <= n) /\ ~(n + 2 <= n) /\ (n + 1) - n = 1 /\ (n + 2) - n = 2
        /\ \A i \in 1 .. n + 2 : i \in 1 .. n \/ i = n + 1 \/ i = n + 2
        /\ \A i \in 1 .. n : i \in 1 .. n + 2 /\ i <= n
    BY <1>1
  <2>2. outbox'[n + 1] = new[(n + 1) - n] /\ outbox'[n + 2] = new[(n + 2) - n]
    BY <1>4, <2>1
  <2>3. \A i \in 1 .. n : outbox'[i] = outbox[i]
    BY <1>4, <2>1
  <2> QED BY <1>3, <2>1, <2>2, <2>3
<1>7. /\ tell.aid = "subscribe_quote" /\ tell.route = Market /\ tell.symbols = symbols
      /\ peek.aid = "peek_message" /\ peek.route = Market
  BY DEF tell, peek
<1>8. \A i \in 1 .. n + 2 : i > n + 1 => i = n + 2
  BY <1>1
<1>9. n + 1 \in LastTold(outbox')
  BY <1>5, <1>6, <1>7, <1>8 DEF LastTold
<1>10. \A i \in LastTold(outbox') : i = n + 1
  <2>1. \A i \in 1 .. n : n + 1 > i
    BY <1>1
  <2> QED BY <1>5, <1>6, <1>7, <2>1 DEF LastTold
<1>11. ASSUME NEW i \in DOMAIN outbox'
       PROVE  /\ outbox'[i].aid = "subscribe_quote" =>
                   /\ outbox'[i].route = Market
                   /\ i + 1 \in DOMAIN outbox'
                   /\ outbox'[i + 1].aid = "peek_message" /\ outbox'[i + 1].route = Market
              /\ outbox'[i].route = Market => outbox'[i].aid # "insert_order"
  <2>1. CASE i \in 1 .. n
    <3>1. /\ outbox[i].aid = "subscribe_quote" =>
                   /\ outbox[i].route = Market
                   /\ i + 1 \in DOMAIN outbox
                   /\ outbox[i + 1].aid = "peek_message" /\ outbox[i + 1].route = Market
          /\ outbox[i].route = Market => outbox[i].aid # "insert_order"
      BY <1>1, <2>1 DEF QueueInv
    <3> QED BY <1>1, <1>5, <1>6, <2>1, <3>1
  <2>2. CASE i = n + 1
    BY <1>5, <1>6, <1>7, <2>2
  <2>3. CASE i = n + 2
    BY <1>6, <1>7, <2>3
  <2> QED BY <1>5, <1>6, <2>1, <2>2, <2>3
<1> QED BY <1>4, <1>6, <1>7, <1>9, <1>10, <1>11 DEF QueueInv

LEMMA OrderQueued ==
  ASSUME QueueInv, NEW r \in Routes \ {Market}, UNCHANGED wanted,
         outbox' = Append(outbox, [route |-> r, aid |-> "insert_order", symbols |-> {}])
  PROVE  QueueInv' /\ LastTold(outbox') = LastTold(outbox)
<1> DEFINE n == Len(outbox)
           order == [route |-> r, aid |-> "insert_order", symbols |-> {}]
<1>1. outbox \in Seq(Dispatch) /\ n \in Nat /\ DOMAIN outbox = 1 .. n
  BY LenProperties DEF QueueInv
<1>2. order \in Dispatch /\ order.route = r /\ order.aid = "insert_order"
  BY DEF Dispatch
<1> HIDE DEF order
<1>3. /\ outbox' \in Seq(Dispatch) /\ Len(outbox') = n + 1 /\ outbox'[n + 1] = order
      /\ \A i \in 1 .. n : outbox'[i] = outbox[i]
  BY <1>1, <1>2, AppendProperties DEF order
<1> HIDE DEF n
<1>4. DOMAIN outbox' = 1 .. n + 1
  BY <1>3, LenProperties
<1>5. \A i \in 1 .. n + 1 : i \in 1 .. n \/ i = n + 1
  BY <1>1
<1>6. \A i \in 1 .. n : i \in 1 .. n + 1
  BY <1>1
<1>7. LastTold(outbox') = LastTold(outbox)
  BY <1>1, <1>2, <1>3, <1>4, <1>5, <1>6 DEF LastTold
<1>8. \A i \in LastTold(outbox) : i \in 1 .. n
  BY <1>1 DEF LastTold
<1>9. ASSUME NEW i \in DOMAIN outbox'
      PROVE  /\ outbox'[i].aid = "subscribe_quote" =>
                   /\ outbox'[i].route = Market
                   /\ i + 1 \in DOMAIN outbox'
                   /\ outbox'[i + 1].aid = "peek_message" /\ outbox'[i + 1].route = Market
             /\ outbox'[i].route = Market => outbox'[i].aid # "insert_order"
                                            /\ LastTold(outbox') # {}
  <2>1. CASE i \in 1 .. n
    <3>1. /\ outbox[i].aid = "subscribe_quote" =>
                   /\ outbox[i].route = Market
                   /\ i + 1 \in DOMAIN outbox
                   /\ outbox[i + 1].aid = "peek_message" /\ outbox[i + 1].route = Market
          /\ outbox[i].route = Market => outbox[i].aid # "insert_order"
                                         /\ LastTold(outbox) # {}
      BY <1>1, <2>1 DEF QueueInv
    <3> QED BY <1>1, <1>3, <1>4, <1>6, <1>7, <2>1, <3>1
  <2>2. CASE i = n + 1
    BY <1>2, <1>3, <2>2
  <2> QED BY <1>4, <1>5, <2>1, <2>2
<1> QED BY <1>3, <1>7, <1>8, <1>9 DEF QueueInv

LEMMA QueueEmptied ==
  ASSUME QueueInv, outbox' = << >>, UNCHANGED wanted
  PROVE  QueueInv' /\ LastTold(outbox') = {}
<1>1. DOMAIN << >> = {} /\ << >> \in Seq(Dispatch)
  OBVIOUS
<1>2. LastTold(outbox') = {}
  BY <1>1 DEF LastTold
<1> QED BY <1>1, <1>2 DEF QueueInv

(* A new run: the interest is queued again unless there is none.           *)
LEMMA NewRunQueue ==
  ASSUME QueueInv, NewRun, UNCHANGED wanted
  PROVE  QueueInv' /\ (LastTold(outbox') # {} \/ wanted = {})
<1>1. CASE wanted = {}
  <2>1. outbox' = outbox
    BY <1>1 DEF NewRun, RecoveryCommands, QueueInv
  <2>2. QueueInv'
    BY <2>1 DEF QueueInv, LastTold
  <2> QED BY <1>1, <2>2
<1>2. CASE wanted # {}
  <2>1. outbox' = outbox \o Subscription(wanted) /\ wanted \in SUBSET Symbols
    BY <1>2 DEF NewRun, RecoveryCommands, QueueInv
  <2> QED BY <2>1, SubscriptionQueued
<1> QED BY <1>1, <1>2

LEMMA QueueStep == LinkInv /\ [LinkNext]_vars => QueueInv'
<1> SUFFICES ASSUME QueueInv, [LinkNext]_vars PROVE QueueInv'
  BY DEF LinkInv
<1>k. ASSUME UNCHANGED <<outbox, wanted>> PROVE QueueInv'
  BY <1>k DEF QueueInv, LastTold
<1>1. ASSUME NEW symbols \in SUBSET Symbols, SubmitInterest(symbols) PROVE QueueInv'
  BY <1>1, SubscriptionQueued DEF SubmitInterest
<1>2. ASSUME NEW r \in Routes, SubmitOrder(r) PROVE QueueInv'
  BY <1>2, OrderQueued DEF SubmitOrder
<1>3. CASE FlushSends \/ FlushFails \/ FlushDropped
  BY <1>3, QueueEmptied DEF FlushSends, FlushFails, FlushDropped
<1>4. CASE RecoverRun \/ Connect
  BY <1>4, NewRunQueue DEF RecoverRun, Connect
<1>5. ASSUME NEW r \in Routes, ServerFrame(r) \/ LoseConnection(r) PROVE QueueInv'
  BY <1>5, <1>k DEF ServerFrame, LoseConnection
<1>6. CASE BeginProgress \/ Prime \/ RecoverRunFails \/ RecoverRunDropped \/ Backoff
           \/ ConnectFails \/ ConnectDropped
  BY <1>6, <1>k DEF BeginProgress, Prime, RecoverRunFails, RecoverRunDropped, Backoff,
                    ConnectFails, ConnectDropped
<1>7. CASE RecvFrame \/ RecvBadFrame \/ RecvLost \/ RecvDropped \/ UNCHANGED vars
  BY <1>7, <1>k DEF RecvFrame, RecvBadFrame, RecvLost, RecvDropped, vars
<1> QED BY <1>1, <1>2, <1>3, <1>4, <1>5, <1>6, <1>7 DEF LinkNext

LEMMA LinkInvariant == LinkSpec => []LinkInv
<1>1. LinkInit => LinkInv
  <2> SUFFICES ASSUME LinkInit PROVE LinkInv
    OBVIOUS
  <2>1. DOMAIN << >> = {} /\ << >> \in Seq(Dispatch)
    OBVIOUS
  <2>2. conn \in [Routes -> Connection]
    BY DEF LinkInit, Fresh, Connection
  <2>3. 1 \in DOMAIN RouteOrder
    BY RouteFacts
  <2>4. QueueInv
    BY <2>1 DEF LinkInit, QueueInv, LastTold
  <2> QED BY <2>2, <2>3, <2>4 DEF LinkInit, LinkInv, LinkType, CallInv
<1>2. LinkInv /\ [LinkNext]_vars => LinkInv'
  BY TypeStep, QueueStep DEF LinkInv
<1> QED BY <1>1, <1>2, PTL DEF LinkSpec

-----------------------------------------------------------------------------
(* Repair.                                                                 *)

(* What a flush has sent before it ended early.                            *)
LEMMA PrefixFacts ==
  ASSUME QueueInv, NEW n \in DOMAIN outbox
  PROVE  LET sent == SubSeq(outbox, 1, n - 1)
         IN  /\ n \in Nat \ {0} /\ DOMAIN outbox = 1 .. Len(outbox) /\ Len(outbox) \in Nat
             /\ DOMAIN sent = 1 .. n - 1
             /\ \A i \in 1 .. n - 1 : sent[i] = outbox[i] /\ i \in DOMAIN outbox
             /\ (~\E i \in n .. Len(outbox) : outbox[i].route = Market)
                   => LastTold(sent) = LastTold(outbox)
<1> DEFINE sent == SubSeq(outbox, 1, n - 1)
           m == Len(outbox)
<1>1. outbox \in Seq(Dispatch) /\ m \in Nat /\ DOMAIN outbox = 1 .. m
  BY LenProperties DEF QueueInv
<1>2. n \in 1 .. m
  BY <1>1
<1>3. \A i \in 1 .. n - 1 : outbox[i] \in Dispatch /\ i \in 1 .. m
  BY <1>1, <1>2, ElementOfSeq
<1>4. /\ sent \in Seq(Dispatch)
      /\ Len(sent) = IF 1 <= n - 1 THEN n - 1 - 1 + 1 ELSE 0
      /\ \A i \in 1 .. (n - 1) - 1 + 1 : sent[i] = outbox[1 + i - 1]
  BY <1>2, <1>3, SubSeqProperties
<1> HIDE DEF sent, m
<1>5. Len(sent) = n - 1 /\ \A i \in 1 .. n - 1 : sent[i] = outbox[i]
  <2>1. \A i \in 1 .. n - 1 : i \in 1 .. (n - 1) - 1 + 1 /\ 1 + i - 1 = i
    BY <1>2
  <2> QED BY <1>2, <1>4, <2>1
<1>6. DOMAIN sent = 1 .. n - 1
  BY <1>4, <1>5, LenProperties
<1>7. ASSUME ~\E i \in n .. m : outbox[i].route = Market
      PROVE  LastTold(sent) = LastTold(outbox)
  <2>1. \A i \in 1 .. m : i \in 1 .. n - 1 \/ i \in n .. m
    BY <1>1, <1>2
  <2>2. \A i \in n .. m : outbox[i].aid # "subscribe_quote"
    <3>1. \A i \in n .. m : i \in DOMAIN outbox
      BY <1>1, <1>2
    <3> QED BY <1>7, <3>1 DEF QueueInv
  <2> QED BY <1>1, <1>3, <1>5, <1>6, <2>1, <2>2 DEF LastTold
<1> QED BY <1>1, <1>2, <1>3, <1>5, <1>6, <1>7 DEF sent, m

LEMMA RepairStep == LinkInv /\ RepairInv /\ [LinkNext]_vars => RepairInv'
<1> SUFFICES ASSUME LinkType, QueueInv, RepairInv, [LinkNext]_vars PROVE RepairInv'
  BY DEF LinkInv
<1>k. ASSUME UNCHANGED <<phase, cut, outbox, subscribed, wanted>>, AllUp' => AllUp
      PROVE  RepairInv'
  BY <1>k DEF RepairInv, LastTold
<1>l. ASSUME ~AllUp' PROVE RepairInv'
  BY <1>l DEF RepairInv
<1>c. UNCHANGED conn => (AllUp' <=> AllUp)
  BY DEF AllUp
<1>f. call # Idle => call.route \in Routes
  BY DEF LinkType, CallInv
<1>r. call # Idle /\ call.at \in {"recoverRun", "backoff", "connect"} => ~AllUp
  BY DEF LinkType, CallInv
<1>1. ASSUME NEW symbols \in SUBSET Symbols, SubmitInterest(symbols) PROVE RepairInv'
  <2>1. LastTold(outbox') # {}
    BY <1>1, SubscriptionQueued DEF SubmitInterest
  <2> QED BY <1>1, <1>c, <2>1 DEF SubmitInterest, RepairInv
<1>2. ASSUME NEW r \in Routes, SubmitOrder(r) PROVE RepairInv'
  <2>1. LastTold(outbox') = LastTold(outbox)
    BY <1>2, OrderQueued DEF SubmitOrder
  <2> QED BY <1>2, <1>c, <2>1 DEF SubmitOrder, RepairInv
<1>3. ASSUME NEW r \in Routes, ServerFrame(r) PROVE RepairInv'
  <2> DEFINE c == [conn[r] EXCEPT !.held = FALSE, !.frame = TRUE]
  <2>1. c \in Connection /\ c.up = conn[r].up /\ conn' = [conn EXCEPT ![r] = c]
    BY <1>3 DEF ServerFrame, Connection, LinkType
  <2> HIDE DEF c
  <2>2. AllUp' <=> AllUp
    BY <2>1, ConnFacts
  <2> QED BY <1>3, <1>k, <2>2 DEF ServerFrame
<1>4. ASSUME NEW r \in Routes, LoseConnection(r) PROVE RepairInv'
  <2>1. conn'[r].up = FALSE
    BY <1>4 DEF LoseConnection, LinkType, Connection
  <2> QED BY <1>l, <2>1 DEF AllUp
<1>5. CASE BeginProgress
  BY <1>5, <1>c, <1>k DEF BeginProgress
<1>6. CASE FlushSends
  <2>1. Deliver(outbox) /\ UNCHANGED <<phase, wanted>>
        /\ cut' = (cut /\ ~\E i \in DOMAIN outbox : outbox[i].route = Market)
    BY <1>6 DEF FlushSends
  <2>2. CASE AllUp
    <3>1. conn[Market].up /\ phase = "Ready"
      BY <2>2, LinkConstants DEF AllUp, RepairInv
    <3>2. CASE LastTold(outbox) = {}
      <4>1. subscribed' = subscribed /\ (cut \/ subscribed = wanted)
        BY <2>1, <2>2, <3>2, DeliverFacts DEF RepairInv
      <4>2. ~\E i \in DOMAIN outbox : outbox[i].route = Market
        BY <3>2 DEF QueueInv
      <4> QED BY <2>1, <3>1, <4>1, <4>2 DEF RepairInv
    <3>3. CASE LastTold(outbox) # {}
      <4>1. PICK i \in LastTold(outbox) : subscribed' = outbox[i].symbols
        BY <2>1, <3>1, <3>3, DeliverFacts
      <4>2. subscribed' = wanted'
        BY <2>1, <4>1 DEF QueueInv
      <4> QED BY <2>1, <3>1, <4>2 DEF RepairInv
    <3> QED BY <3>2, <3>3
  <2> QED BY <1>l, <2>1, <2>2, DeliverFacts
<1>7. CASE FlushFails
  <2>1. PICK failed \in Failures : Deliver(SubSeq(outbox, 1, failed - 1))
    BY <1>7 DEF FlushFails
  <2>2. outbox[failed].route \in Routes /\ ~conn[outbox[failed].route].up
    <3>1. failed \in 1 .. Len(outbox) /\ outbox \in Seq(Dispatch)
      BY <2>1, LenProperties DEF Failures, QueueInv
    <3>2. outbox[failed] \in Dispatch
      BY <3>1, ElementOfSeq
    <3> QED BY <2>1, <3>2 DEF Failures, Dispatch
  <2>3. ~AllUp'
    BY <2>1, <2>2, DeliverFacts DEF AllUp
  <2> QED BY <1>l, <2>3
<1>8. CASE FlushDropped
  <2>1. PICK n \in DOMAIN outbox :
            /\ Deliver(SubSeq(outbox, 1, n - 1))
            /\ cut' = (cut \/ \E i \in n .. Len(outbox) : outbox[i].route = Market)
    BY <1>8 DEF FlushDropped
  <2> DEFINE sent == SubSeq(outbox, 1, n - 1)
  <2>2. UNCHANGED <<phase, wanted>>
    BY <1>8 DEF FlushDropped
  <2>3. CASE AllUp /\ ~cut'
    <3>1. conn[Market].up /\ phase = "Ready"
      BY <2>3, LinkConstants DEF AllUp, RepairInv
    <3>2. LastTold(sent) = LastTold(outbox) /\ ~cut
      BY <2>1, <2>3, PrefixFacts
    <3>3. /\ DOMAIN sent = 1 .. n - 1 /\ \A i \in 1 .. n - 1 : sent[i] = outbox[i]
      BY PrefixFacts
    <3> HIDE DEF sent
    <3>4. CASE LastTold(sent) = {}
      BY <2>1, <2>2, <2>3, <3>1, <3>2, <3>4, DeliverFacts DEF RepairInv, sent
    <3>5. CASE LastTold(sent) # {}
      <4>1. PICK i \in LastTold(sent) : subscribed' = sent[i].symbols
        BY <2>1, <3>1, <3>5, DeliverFacts DEF sent
      <4>2. sent[i] = outbox[i] /\ i \in LastTold(outbox)
        BY <3>2, <3>3, <4>1 DEF LastTold
      <4>3. subscribed' = wanted'
        BY <2>2, <4>1, <4>2 DEF QueueInv
      <4> QED BY <2>2, <3>1, <4>3 DEF RepairInv
    <3> QED BY <3>4, <3>5
  <2>4. CASE AllUp /\ cut'
    BY <2>2, <2>4 DEF RepairInv
  <2> QED BY <1>l, <2>1, <2>3, <2>4, DeliverFacts
<1>9. CASE Prime
  <2>1. call # Idle /\ UNCHANGED <<cut, outbox, subscribed, wanted>>
    BY <1>9 DEF Prime
  <2>2. CASE ~conn[call.route].up /\ UNCHANGED conn
    BY <1>c, <1>f, <1>l, <2>1, <2>2 DEF AllUp
  <2>3. CASE UNCHANGED <<phase, conn>>
    BY <1>c, <1>k, <2>1, <2>3
  <2>4. CASE UNCHANGED phase /\ conn' = [conn EXCEPT ![call.route].held = conn[call.route].up]
    <3>1. \A r \in Routes : conn'[r].up = conn[r].up
      BY <1>f, <2>1, <2>4 DEF LinkType, Connection
    <3> QED BY <1>k, <2>1, <2>4, <3>1 DEF AllUp
  <2> QED BY <1>9, <2>2, <2>3, <2>4 DEF Prime
<1>10. CASE RecoverRun \/ Connect
  <2>1. NewRun /\ UNCHANGED wanted
    BY <1>10 DEF RecoverRun, Connect
  <2> QED BY <2>1, NewRunFacts, NewRunQueue DEF RepairInv
<1>11. CASE RecoverRunFails \/ RecoverRunDropped \/ Backoff \/ ConnectFails \/ ConnectDropped
  <2>1. call # Idle /\ call.at \in {"recoverRun", "backoff", "connect"} /\ UNCHANGED conn
    BY <1>11 DEF RecoverRunFails, RecoverRunDropped, Backoff, ConnectFails, ConnectDropped
  <2> QED BY <1>c, <1>l, <1>r, <2>1
<1>12. CASE RecvFrame \/ RecvBadFrame
  <2>1. /\ call # Idle /\ conn' = [conn EXCEPT ![call.route].frame = FALSE]
        /\ UNCHANGED <<phase, cut, outbox, subscribed, wanted>>
    BY <1>12 DEF RecvFrame, RecvBadFrame
  <2>2. \A r \in Routes : conn'[r].up = conn[r].up
    BY <1>f, <2>1 DEF LinkType, Connection
  <2> QED BY <1>k, <2>1, <2>2 DEF AllUp
<1>13. CASE RecvLost
  BY <1>13, <1>c, <1>f, <1>l DEF RecvLost, AllUp
<1>14. CASE RecvDropped \/ UNCHANGED vars
  BY <1>14, <1>c, <1>k DEF RecvDropped, vars
<1> QED BY <1>1, <1>2, <1>3, <1>4, <1>5, <1>6, <1>7, <1>8, <1>9, <1>10, <1>11, <1>12,
           <1>13, <1>14 DEF LinkNext

(* Whatever a loss, a failed or dropped flush or a dropped recovery takes  *)
(* away, once every connection stands and the queue is sent the market     *)
(* server knows the adapter's interest, unless a flush was cut short on a  *)
(* standing connection; and an idle session with standing connections      *)
(* calls itself Ready.                                                     *)
THEOREM RepairLeavesNothing == LinkSpec => []RepairIsComplete
<1>1. LinkInit => RepairInv
  BY DEF LinkInit, RepairInv
<1>2. RepairInv => RepairIsComplete
  <2>1. outbox = << >> => LastTold(outbox) = {}
    BY DEF LastTold
  <2> QED BY <2>1 DEF RepairInv, RepairIsComplete
<1> QED BY <1>1, <1>2, LinkInvariant, RepairStep, PTL DEF LinkSpec

-----------------------------------------------------------------------------
(* Peeks.                                                                  *)

(* A delivery that tells the market server something and is not cut off    *)
(* between the subscription and its peek leaves a peek with the server.    *)
LEMMA TellingPeeks ==
  ASSUME LinkType, MarketIsPeeked, NEW sent, Deliver(sent), UNCHANGED spoiled,
         pendingPeeks' = pendingPeeks \/ conn'[Market].held, cut' \/ ~cut,
         conn[Market].up /\ ~cut' /\ LastTold(sent) # {} =>
           \E i \in DOMAIN sent : sent[i].aid = "peek_message" /\ sent[i].route = Market
  PROVE  MarketIsPeeked'
<1> SUFFICES ASSUME conn'[Market].up, subscribed' # {}, Market \in pendingPeeks',
                    Market \notin spoiled', ~cut'
             PROVE  conn'[Market].held \/ conn'[Market].frame
  BY DEF MarketIsPeeked
<1>1. /\ conn'[Market].up = conn[Market].up /\ conn'[Market].frame = conn[Market].frame
      /\ conn[Market].held => conn'[Market].held
  BY DeliverFacts, LinkConstants
<1>2. CASE LastTold(sent) # {}
  BY <1>1, <1>2, DeliverFacts
<1>3. CASE LastTold(sent) = {} /\ pendingPeeks' = pendingPeeks
  <2>1. subscribed' = subscribed
    BY <1>3, DeliverFacts
  <2> QED BY <1>1, <1>3, <2>1 DEF MarketIsPeeked
<1> QED BY <1>2, <1>3

LEMMA PeekStep == LinkInv /\ MarketIsPeeked /\ [LinkNext]_vars => MarketIsPeeked'
<1> SUFFICES ASSUME LinkType, QueueInv, MarketIsPeeked, [LinkNext]_vars PROVE MarketIsPeeked'
  BY DEF LinkInv
<1>c. conn \in [Routes -> Connection] /\ Market \in Routes /\ cut \in BOOLEAN
  BY LinkConstants DEF LinkType
<1>f. call # Idle => call.route \in Routes
  BY DEF LinkType, CallInv
<1>k. ASSUME UNCHANGED <<subscribed, pendingPeeks, spoiled, cut>>, conn'[Market] = conn[Market]
      PROVE  MarketIsPeeked'
  BY <1>k DEF MarketIsPeeked
<1>o. ASSUME NEW r \in Routes \ {Market}, NEW c, conn' = [conn EXCEPT ![r] = c]
      PROVE  conn'[Market] = conn[Market]
  BY <1>c, <1>o
<1>p. \A i \in DOMAIN outbox :
        /\ outbox[i].aid = "subscribe_quote" =>
             /\ outbox[i].route = Market
             /\ i + 1 \in DOMAIN outbox
             /\ outbox[i + 1].aid = "peek_message" /\ outbox[i + 1].route = Market
        /\ outbox[i].route = Market => outbox[i].aid # "insert_order"
  BY DEF QueueInv
<1>q. \A i \in DOMAIN outbox :
        outbox[i].aid \in {"subscribe_quote", "peek_message", "insert_order"}
  <2>1. outbox \in Seq(Dispatch) /\ DOMAIN outbox = 1 .. Len(outbox)
    BY LenProperties DEF QueueInv
  <2>2. \A i \in DOMAIN outbox : outbox[i] \in Dispatch
    BY <2>1, ElementOfSeq
  <2> QED BY <2>2 DEF Dispatch
<1>1. ASSUME NEW symbols \in SUBSET Symbols, SubmitInterest(symbols) PROVE MarketIsPeeked'
  BY <1>1, <1>k DEF SubmitInterest, io
<1>2. ASSUME NEW r \in Routes, SubmitOrder(r) PROVE MarketIsPeeked'
  BY <1>2, <1>k DEF SubmitOrder, io
<1>3. ASSUME NEW r \in Routes, ServerFrame(r) PROVE MarketIsPeeked'
  <2>1. UNCHANGED <<subscribed, pendingPeeks, spoiled, cut>>
        /\ conn' = [conn EXCEPT ![r] = [conn[r] EXCEPT !.held = FALSE, !.frame = TRUE]]
    BY <1>3 DEF ServerFrame, io
  <2>2. CASE r = Market
    <3>1. conn'[Market].frame = TRUE
      BY <1>c, <2>1, <2>2 DEF Connection
    <3> QED BY <3>1 DEF MarketIsPeeked
  <2>3. CASE r # Market
    BY <1>k, <1>o, <2>1, <2>3
  <2> QED BY <2>2, <2>3
<1>4. ASSUME NEW r \in Routes, LoseConnection(r) PROVE MarketIsPeeked'
  <2>1. conn' = [conn EXCEPT ![r] = [conn[r] EXCEPT !.up = FALSE, !.held = FALSE]]
        /\ UNCHANGED <<pendingPeeks, spoiled, cut>>
        /\ subscribed' = IF r = Market THEN {} ELSE subscribed
    BY <1>4 DEF LoseConnection, io
  <2>2. CASE r = Market
    BY <2>1, <2>2 DEF MarketIsPeeked
  <2>3. CASE r # Market
    BY <1>k, <1>o, <2>1, <2>3
  <2> QED BY <2>2, <2>3
<1>5. CASE BeginProgress
  BY <1>5, <1>k DEF BeginProgress, io
<1>6. CASE FlushSends
  <2> DEFINE toMarket == \E i \in DOMAIN outbox : outbox[i].route = Market
             peeks == \E i \in DOMAIN outbox :
                         outbox[i].aid = "peek_message" /\ outbox[i].route = Market
  <2>1. /\ Deliver(outbox) /\ UNCHANGED spoiled
        /\ cut' = (cut /\ ~toMarket)
        /\ pendingPeeks' = pendingPeeks \/ toMarket
    BY <1>6 DEF FlushSends
  <2>2. toMarket => peeks
    BY <1>p, <1>q
  <2>3. LastTold(outbox) # {} => toMarket
    BY <1>p DEF LastTold
  <2>4. CASE toMarket
    <3>1. conn[Market].up => conn'[Market].held
      BY <2>1, <2>2, <2>4, DeliverFacts
    <3>2. conn'[Market].up = conn[Market].up
      BY <1>c, <2>1, DeliverFacts
    <3> QED BY <3>1, <3>2 DEF MarketIsPeeked
  <2>5. CASE ~toMarket
    <3>1. cut' = cut /\ pendingPeeks' = pendingPeeks
      BY <1>c, <2>1, <2>5
    <3> HIDE DEF toMarket, peeks
    <3> QED BY <2>1, <2>3, <2>5, <3>1, TellingPeeks
  <2> QED BY <2>4, <2>5
<1>7. ASSUME NEW n \in DOMAIN outbox, Deliver(SubSeq(outbox, 1, n - 1)),
             UNCHANGED <<spoiled, pendingPeeks>>, cut' \/ ~cut,
             conn[Market].up /\ ~cut' => outbox[n].route # Market
      PROVE  MarketIsPeeked'
  <2> DEFINE sent == SubSeq(outbox, 1, n - 1)
  <2>1. /\ n \in Nat \ {0} /\ DOMAIN sent = 1 .. n - 1
        /\ \A i \in 1 .. n - 1 : sent[i] = outbox[i] /\ i \in DOMAIN outbox
    BY PrefixFacts
  <2>2. Deliver(sent)
    BY <1>7
  <2> HIDE DEF sent
  <2>3. ASSUME conn[Market].up, ~cut', NEW i \in LastTold(sent)
        PROVE  \E j \in DOMAIN sent : sent[j].aid = "peek_message" /\ sent[j].route = Market
    <3>1. i \in 1 .. n - 1 /\ i \in DOMAIN outbox /\ outbox[i].aid = "subscribe_quote"
      BY <2>1, <2>3 DEF LastTold
    <3>2. outbox[i + 1].aid = "peek_message" /\ outbox[i + 1].route = Market
      BY <1>p, <3>1
    <3>3. i + 1 # n
      BY <1>7, <2>3, <3>2
    <3>4. i + 1 \in 1 .. n - 1
      BY <2>1, <3>1, <3>3
    <3> QED BY <2>1, <3>2, <3>4
  <2> QED BY <1>7, <2>2, <2>3, TellingPeeks
<1>8. CASE FlushFails
  <2>1. PICK n \in Failures : Deliver(SubSeq(outbox, 1, n - 1))
    BY <1>8 DEF FlushFails
  <2>2. n \in DOMAIN outbox /\ (conn[Market].up => outbox[n].route # Market)
    BY <2>1 DEF Failures
  <2>3. UNCHANGED <<spoiled, pendingPeeks, cut>>
    BY <1>8 DEF FlushFails, io
  <2> QED BY <1>7, <2>1, <2>2, <2>3
<1>9. CASE FlushDropped
  <2>1. PICK n \in DOMAIN outbox :
            /\ Deliver(SubSeq(outbox, 1, n - 1))
            /\ cut' = (cut \/ \E i \in n .. Len(outbox) : outbox[i].route = Market)
    BY <1>9 DEF FlushDropped
  <2>2. n \in n .. Len(outbox)
    BY LenProperties DEF QueueInv
  <2>3. UNCHANGED <<spoiled, pendingPeeks>>
    BY <1>9 DEF FlushDropped
  <2> QED BY <1>7, <2>1, <2>2, <2>3
<1>10. CASE Prime
  <2>1. call.route \in Routes /\ UNCHANGED <<subscribed, spoiled, cut>>
    BY <1>10, <1>f DEF Prime
  <2>2. CASE UNCHANGED <<conn, pendingPeeks>>
    BY <1>k, <2>1, <2>2
  <2>3. CASE /\ conn' = [conn EXCEPT ![call.route] =
                            [conn[call.route] EXCEPT !.held = conn[call.route].up]]
             /\ pendingPeeks' = pendingPeeks \cup {call.route}
    <3>1. CASE call.route = Market
      <4>1. conn'[Market].held = conn[Market].up /\ conn'[Market].up = conn[Market].up
        BY <1>c, <2>3, <3>1 DEF Connection
      <4> QED BY <4>1 DEF MarketIsPeeked
    <3>2. CASE call.route # Market
      <4>1. conn'[Market] = conn[Market]
        BY <1>o, <2>1, <2>3, <3>2
      <4> QED BY <2>1, <2>3, <3>2, <4>1 DEF MarketIsPeeked
    <3> QED BY <3>1, <3>2
  <2> QED BY <1>10, <2>2, <2>3 DEF Prime
<1>11. CASE RecoverRun \/ Connect
  <2>1. subscribed' = {}
    BY <1>11 DEF RecoverRun, Connect, NewRun
  <2> QED BY <2>1 DEF MarketIsPeeked
<1>12. CASE RecoverRunFails \/ RecoverRunDropped \/ Backoff \/ ConnectFails \/ ConnectDropped
  BY <1>12, <1>k DEF RecoverRunFails, RecoverRunDropped, Backoff, ConnectFails, ConnectDropped, io
<1>13. CASE RecvFrame \/ RecvBadFrame
  <2>1. /\ call.route \in Routes /\ UNCHANGED <<subscribed, cut>>
        /\ conn' = [conn EXCEPT ![call.route] = [conn[call.route] EXCEPT !.frame = FALSE]]
    BY <1>13, <1>f DEF RecvFrame, RecvBadFrame
  <2>2. \/ pendingPeeks' = pendingPeeks \ {call.route} /\ spoiled' = spoiled \ {call.route}
        \/ pendingPeeks' = pendingPeeks /\ spoiled' = spoiled \cup {call.route}
    BY <1>13 DEF RecvFrame, RecvBadFrame, io
  <2>3. CASE call.route = Market
    BY <2>2, <2>3 DEF MarketIsPeeked
  <2>4. CASE call.route # Market
    <3>1. conn'[Market] = conn[Market]
      BY <1>o, <2>1, <2>4
    <3> QED BY <2>1, <2>2, <2>4, <3>1 DEF MarketIsPeeked
  <2> QED BY <2>3, <2>4
<1>14. CASE RecvLost \/ RecvDropped \/ UNCHANGED vars
  BY <1>14, <1>k DEF RecvLost, RecvDropped, io, vars
<1> QED BY <1>1, <1>2, <1>3, <1>4, <1>5, <1>6, <1>8, <1>9, <1>10, <1>11, <1>12,
           <1>13, <1>14 DEF LinkNext

(* When a subscribed market route holds back its peek because it believes  *)
(* one pending, the server has that peek or its answer is here: a failed   *)
(* flush never separates a subscription from its peek on a connection that *)
(* stands.                                                                 *)
THEOREM MarketIsAlwaysPeeked == LinkSpec => []MarketIsPeeked
<1>1. LinkInit => MarketIsPeeked
  BY DEF LinkInit, MarketIsPeeked
<1> QED BY <1>1, LinkInvariant, PeekStep, PTL DEF LinkSpec
=============================================================================
