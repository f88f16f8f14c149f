------------------------- MODULE CommandFlowProofs -------------------------
(***************************************************************************)
(* Theorems about CommandFlow for any number of commands, orders, drivers' *)
(* failures and reconnections and any retention limit.  The requests on    *)
(* their way to the routes and the ledger with its rows are changed by     *)
(* different parts of each action, so each has its own invariant:          *)
(* OrderInv and CountInv for the way to the wire, LedgerInv for statuses.  *)
(***************************************************************************)
EXTENDS CommandFlow, SequenceTheorems, FiniteSetTheorems, TLAPS

-----------------------------------------------------------------------------
(* Types.                                                                  *)

CommandType == [kind : AllKinds, order : Orders]

DriverType ==
    [at : {"idle", "flushing", "executing", "recording"}, queue : Seq(Nat),
     sent : SUBSET Nat, status : {NoStatus, "completed", "failed"}]

FlowType ==
    /\ command \in Seq(CommandType)
    /\ outbound \in Seq(Nat)
    /\ driver \in DriverType
    /\ requests \in Seq(Nat)
    /\ wire \in Seq(Nat)
    /\ orders \in [Orders -> Order]

(* Every queue holds ids of submitted commands; a busy driver has a next   *)
(* one; only request commands wait for or are with a request route.        *)
QueueInv ==
    /\ \A i \in DOMAIN outbound : outbound[i] \in Ids
    /\ \A i \in DOMAIN driver.queue : driver.queue[i] \in Ids
    /\ \A i \in DOMAIN wire : wire[i] \in Ids
    /\ \A i \in DOMAIN requests : requests[i] \in Ids /\ command[requests[i]].kind = "request"
    /\ driver.at # "idle" => driver.queue # << >>
    /\ driver.at \in {"executing", "recording"} =>
          \A i \in DOMAIN driver.queue : command[driver.queue[i]].kind = "request"
    /\ driver.at = "recording" => driver.status \in {"completed", "failed"}

FlowInv == FlowType /\ QueueInv

-----------------------------------------------------------------------------
(* The way to the wire.                                                    *)

(* What a flush has drained and not handed over.                           *)
Pending == IF driver.at = "flushing" THEN driver.queue ELSE << >>

Sorted(s) == \A i, j \in DOMAIN s : i < j => s[i] <= s[j]

Before(s, t) == \A i \in DOMAIN s, j \in DOMAIN t : s[i] <= t[j]

OrderInv ==
    /\ Sorted(wire) /\ Sorted(Pending) /\ Sorted(outbound)
    /\ Before(wire, Pending) /\ Before(wire, outbound) /\ Before(Pending, outbound)

(* How often a command occurs in a queue.                                  *)
Positions(s, c) == {i \in DOMAIN s : s[i] = c}
Count(s, c) == Cardinality(Positions(s, c))

CountInv ==
    \A c \in Ids : Count(wire, c) + Count(Pending, c) + Count(outbound, c)
                      <= RequestsOf(command[c].kind)

-----------------------------------------------------------------------------
(* Statuses.                                                               *)

Live == Statuses \ Terminal

Unrepeated(s) == \A i, j \in DOMAIN s : s[i] = s[j] => i = j

LedgerInv ==
    /\ ledger \in [DOMAIN ledger -> Live]
    /\ tree \in [DOMAIN tree -> Statuses]
    /\ DOMAIN tree \subseteq Ids
    /\ retained \in Seq(Nat) /\ evicted \in Seq(Nat)
    /\ outcome \in Seq(Terminal \cup {NoOutcome})
    /\ Len(outcome) = Len(command)
    /\ DOMAIN ledger = {c \in Ids : outcome[c] = NoOutcome}
    /\ \A c \in DOMAIN ledger :
          IF c \in DOMAIN tree THEN tree[c] = ledger[c] ELSE ledger[c] = "queued"
    /\ Range(retained) = {c \in DOMAIN tree : tree[c] \in Terminal}
    /\ \A c \in DOMAIN tree \ DOMAIN ledger : tree[c] \in Terminal /\ tree[c] = outcome[c]
    /\ \A i \in DOMAIN evicted : /\ evicted[i] \in Ids \ DOMAIN tree
                                 /\ outcome[evicted[i]] # NoOutcome
    /\ Len(retained) <= MaxRetained /\ Len(evicted) <= MaxRetained
    /\ Unrepeated(retained) /\ Unrepeated(evicted)

-----------------------------------------------------------------------------
(* Queues of command ids.                                                  *)

(* A submission extends the commands by one and the outbound queue by its  *)
(* requests, all of the new id.                                            *)
LEMMA EnqueueFacts ==
    ASSUME FlowInv, NEW kind \in AllKinds, NEW order \in Orders, Enqueue(kind, order)
    PROVE  LET n == Len(command) + 1
               m == Len(outbound)
               r == RequestsOf(kind)
           IN  /\ command' \in Seq(CommandType)
               /\ Len(command') = n /\ n \in Nat \ {0} /\ r \in {1, 2} /\ m \in Nat
               /\ Ids = 1 .. n - 1 /\ Ids' = 1 .. n
               /\ command'[n].kind = kind /\ command'[n].order = order
               /\ \A c \in Ids : command'[c] = command[c]
               /\ outbound' \in Seq(Nat)
               /\ DOMAIN outbound = 1 .. m /\ DOMAIN outbound' = 1 .. m + r
               /\ \A i \in 1 .. m : outbound'[i] = outbound[i]
               /\ \A i \in m + 1 .. m + r : outbound'[i] = n
<1> DEFINE n == Len(command) + 1
           m == Len(outbound)
           r == RequestsOf(kind)
           new == [kind |-> kind, order |-> order]
           batch == [i \in 1 .. r |-> n]
<1>1. command \in Seq(CommandType) /\ new \in CommandType /\ outbound \in Seq(Nat)
  BY DEF FlowInv, FlowType, CommandType
<1>2. command' = Append(command, new) /\ outbound' = outbound \o batch
  BY DEF Enqueue
<1>3. n \in Nat \ {0} /\ m \in Nat /\ r \in {1, 2}
  BY <1>1, LenProperties DEF RequestsOf
<1> HIDE DEF new, n, m, r
<1>4. /\ command' \in Seq(CommandType) /\ Len(command') = n
      /\ \A c \in 1 .. n - 1 : command'[c] = command[c]
      /\ command'[n] = new
  BY <1>1, <1>2, <1>3, AppendProperties DEF n
<1>5. batch \in Seq(Nat) /\ Len(batch) = r /\ \A i \in 1 .. r : batch[i] = n
  <2>1. batch \in [1 .. r -> Nat]
    BY <1>3
  <2> QED BY <1>3, <2>1
<1> HIDE DEF batch
<1>6. /\ outbound' \in Seq(Nat) /\ Len(outbound') = m + r
      /\ \A i \in 1 .. m + r : outbound'[i] = IF i <= m THEN outbound[i] ELSE batch[i - m]
  BY <1>1, <1>2, <1>5, ConcatProperties DEF m
<1>7. \A i \in 1 .. m : outbound'[i] = outbound[i]
  BY <1>3, <1>6
<1>8. \A i \in m + 1 .. m + r : outbound'[i] = n
  BY <1>3, <1>5, <1>6
<1>9. DOMAIN outbound = 1 .. m /\ DOMAIN outbound' = 1 .. m + r
  BY <1>1, <1>6, LenProperties DEF m
<1>10. Ids = 1 .. n - 1 /\ Ids' = 1 .. n
  BY <1>3, <1>4 DEF Ids, n
<1>11. new.kind = kind /\ new.order = order
  BY DEF new
<1> QED BY <1>3, <1>4, <1>6, <1>7, <1>8, <1>9, <1>10, <1>11 DEF n, m, r

(* The head and the tail of a queue of known commands.                     *)
LEMMA HeadTail ==
    ASSUME NEW T, NEW s \in Seq(T), s # << >>
    PROVE  /\ Head(s) = s[1] /\ 1 \in DOMAIN s /\ Len(s) \in Nat /\ Len(s) >= 1
           /\ Tail(s) \in Seq(T) /\ DOMAIN s = 1 .. Len(s)
           /\ DOMAIN Tail(s) = 1 .. Len(s) - 1
           /\ \A i \in 1 .. Len(s) - 1 : Tail(s)[i] = s[i + 1] /\ i + 1 \in DOMAIN s
           /\ Len(s) # 1 => Tail(s) # << >>
           /\ Head(s) \in T
<1>1. /\ DOMAIN s = 1 .. Len(s) /\ Len(s) \in Nat /\ Len(s) # 0
  BY LenProperties, EmptySeq
<1>2. /\ Head(s) \in T /\ Tail(s) \in Seq(T) /\ Len(Tail(s)) = Len(s) - 1
      /\ \A i \in 1 .. Len(Tail(s)) : Tail(s)[i] = s[i + 1]
  BY HeadTailProperties
<1>3. DOMAIN Tail(s) = 1 .. Len(s) - 1
  BY <1>2, LenProperties
<1>4. Head(s) = s[1]
  OBVIOUS
<1>5. Len(s) # 1 => Tail(s) # << >>
  <2>1. \A t \in Seq(T) : t = << >> => Len(t) = 0
    OBVIOUS
  <2> DEFINE t == Tail(s)
  <2>2. t \in Seq(T) /\ Len(t) = Len(s) - 1
    BY <1>2
  <2> HIDE DEF t
  <2>3. Len(s) # 1 => t # << >>
    BY <1>1, <2>1, <2>2
  <2> QED BY <2>3 DEF t
<1> QED BY <1>1, <1>2, <1>3, <1>4, <1>5

LEMMA AppendFacts ==
    ASSUME NEW T, NEW s \in Seq(T), NEW e \in T
    PROVE  /\ Append(s, e) \in Seq(T)
           /\ Len(s) \in Nat /\ DOMAIN s = 1 .. Len(s)
           /\ DOMAIN Append(s, e) = 1 .. Len(s) + 1
           /\ Len(Append(s, e)) = Len(s) + 1
           /\ Append(s, e)[Len(s) + 1] = e
           /\ \A i \in 1 .. Len(s) : Append(s, e)[i] = s[i]
BY AppendProperties, LenProperties

(* The driver's records.                                                   *)
LEMMA DriverTypes ==
    ASSUME FlowInv
    PROVE  /\ IdleDriver \in DriverType
           /\ IdleDriver.at = "idle" /\ IdleDriver.queue = << >>
           /\ \A q \in Seq(Nat), at \in {"flushing", "executing"} :
                 LET d == [IdleDriver EXCEPT !.at = at, !.queue = q]
                 IN  d \in DriverType /\ d.at = at /\ d.queue = q
           /\ \A s \in {"completed", "failed"} :
                 LET d == [driver EXCEPT !.at = "recording", !.status = s]
                 IN  /\ d \in DriverType /\ d.at = "recording"
                     /\ d.queue = driver.queue /\ d.status = s
<1>1. driver \in DriverType /\ driver.queue \in Seq(Nat)
  BY DEF FlowInv, FlowType, DriverType
<1>2. << >> \in Seq(Nat)
  OBVIOUS
<1>4. IdleDriver \in DriverType /\ IdleDriver.at = "idle" /\ IdleDriver.queue = << >>
  BY <1>2 DEF IdleDriver, DriverType, NoStatus
<1>6. ASSUME NEW q \in Seq(Nat), NEW at \in {"flushing", "executing"}
      PROVE  LET d == [IdleDriver EXCEPT !.at = at, !.queue = q]
             IN  d \in DriverType /\ d.at = at /\ d.queue = q
  BY <1>4 DEF IdleDriver, DriverType, NoStatus
<1>7. ASSUME NEW s \in {"completed", "failed"}
      PROVE  LET d == [driver EXCEPT !.at = "recording", !.status = s]
             IN  /\ d \in DriverType /\ d.at = "recording"
                 /\ d.queue = driver.queue /\ d.status = s
  BY <1>1 DEF DriverType
<1> QED BY <1>4, <1>6, <1>7

(* The driver leaves its queue's head behind, or is idle.                  *)
LEMMA AfterHeadFacts ==
    ASSUME FlowInv, driver.at # "idle", NEW s \in SUBSET Nat, driver' = AfterHead(s)
    PROVE  \/ driver' = IdleDriver
           \/ /\ driver' \in DriverType /\ driver'.at = driver.at
              /\ driver'.status = driver.status
              /\ driver'.queue = Tail(driver.queue) /\ driver'.queue # << >>
              /\ \A i \in DOMAIN driver'.queue :
                    i + 1 \in DOMAIN driver.queue /\ driver'.queue[i] = driver.queue[i + 1]
<1>1. driver.queue \in Seq(Nat) /\ driver.queue # << >>
  BY DEF FlowInv, FlowType, QueueInv, DriverType
<1>2. CASE Len(driver.queue) = 1
  BY <1>2 DEF AfterHead
<1>3. CASE Len(driver.queue) # 1
  <2>1. driver' = [driver EXCEPT !.queue = Tail(driver.queue), !.sent = s]
    BY <1>3 DEF AfterHead
  <2>2. /\ driver' \in DriverType /\ driver'.at = driver.at
        /\ driver'.status = driver.status /\ driver'.queue = Tail(driver.queue)
    <3>1. driver \in DriverType /\ Tail(driver.queue) \in Seq(Nat)
      BY <1>1, HeadTail DEF FlowInv, FlowType
    <3> DEFINE q == Tail(driver.queue)
    <3>2. driver' = [driver EXCEPT !.queue = q, !.sent = s] /\ q \in Seq(Nat)
      BY <2>1, <3>1
    <3> HIDE DEF q
    <3>3. /\ driver' \in DriverType /\ driver'.at = driver.at
          /\ driver'.status = driver.status /\ driver'.queue = q
      BY <3>1, <3>2 DEF DriverType
    <3> QED BY <3>3 DEF q
  <2> QED BY <1>1, <1>3, <2>2, HeadTail
<1> QED BY <1>2, <1>3

(* Every action keeps the queues well formed.                              *)
LEMMA FlowStep == FlowInv /\ [Next]_vars => FlowInv'
<1> SUFFICES ASSUME FlowInv, [Next]_vars PROVE FlowInv'
  OBVIOUS
<1> USE DEF runVars
<1>0. /\ command \in Seq(CommandType) /\ outbound \in Seq(Nat) /\ driver \in DriverType
      /\ requests \in Seq(Nat) /\ wire \in Seq(Nat) /\ orders \in [Orders -> Order]
      /\ driver.queue \in Seq(Nat) /\ driver.sent \in SUBSET Nat /\ Ids \subseteq Nat
      /\ << >> \in Seq(Nat) /\ DOMAIN << >> = {}
  BY DEF FlowInv, FlowType, DriverType, Ids
<1>q. ASSUME UNCHANGED <<command, outbound, driver, requests, wire>>,
             orders' \in [Orders -> Order]
      PROVE  FlowInv'
  BY <1>q DEF FlowInv, FlowType, QueueInv, Ids
<1>i. ASSUME driver' = IdleDriver, UNCHANGED <<command, outbound, requests, orders>>,
             wire' \in Seq(Nat), \A i \in DOMAIN wire' : wire'[i] \in Ids
      PROVE  FlowInv'
  <2>1. driver' \in DriverType /\ driver'.at = "idle" /\ DOMAIN driver'.queue = {}
    BY <1>0, <1>i, DriverTypes
  <2>2. FlowType'
    BY <1>0, <1>i, <2>1 DEF FlowType
  <2>3. QueueInv'
    BY <1>i, <2>1 DEF FlowInv, QueueInv, Ids
  <2> QED BY <2>2, <2>3 DEF FlowInv
<1>h. ASSUME driver.at # "idle"
      PROVE  /\ Head(driver.queue) \in Ids
             /\ driver.at \in {"executing", "recording"} =>
                   command[Head(driver.queue)].kind = "request"
  BY <1>0, <1>h, HeadTail DEF FlowInv, QueueInv
<1>w. ASSUME NEW c \in Ids
      PROVE  /\ Append(wire, c) \in Seq(Nat)
             /\ \A i \in DOMAIN Append(wire, c) : Append(wire, c)[i] \in Ids
  <2>1. /\ Append(wire, c) \in Seq(Nat) /\ DOMAIN Append(wire, c) = 1 .. Len(wire) + 1
        /\ \A i \in 1 .. Len(wire) : Append(wire, c)[i] = wire[i]
        /\ Append(wire, c)[Len(wire) + 1] = c /\ DOMAIN wire = 1 .. Len(wire)
        /\ Len(wire) \in Nat
    BY <1>0, AppendFacts
  <2> QED BY <2>1 DEF FlowInv, QueueInv
<1>1. ASSUME NEW kind \in AllKinds, NEW order \in Orders, Enqueue(kind, order),
             UNCHANGED <<driver, orders, wire>>,
             requests' = requests \/ requests' = << >>
      PROVE  FlowInv'
  <2>1. FlowType'
    BY <1>0, <1>1, EnqueueFacts DEF FlowType
  <2>2. /\ Ids \subseteq Ids' /\ \A c \in Ids : command'[c] = command[c]
        /\ \A i \in DOMAIN outbound' : outbound'[i] \in Ids'
    <3> DEFINE n == Len(command) + 1
               m == Len(outbound)
               r == RequestsOf(kind)
    <3>1. /\ n \in Nat \ {0} /\ r \in {1, 2} /\ m \in Nat
          /\ Ids = 1 .. n - 1 /\ Ids' = 1 .. n
          /\ \A c \in Ids : command'[c] = command[c]
          /\ DOMAIN outbound = 1 .. m /\ DOMAIN outbound' = 1 .. m + r
          /\ \A i \in 1 .. m : outbound'[i] = outbound[i]
          /\ \A i \in m + 1 .. m + r : outbound'[i] = n
      BY <1>1, EnqueueFacts
    <3> HIDE DEF n, m, r
    <3>2. \A i \in 1 .. m : outbound[i] \in Ids
      BY <3>1 DEF FlowInv, QueueInv
    <3>3. \A i \in 1 .. m + r : i \in 1 .. m \/ i \in m + 1 .. m + r
      BY <3>1
    <3>4. Ids \subseteq Ids' /\ n \in Ids'
      BY <3>1, <1>0
    <3> QED BY <3>1, <3>2, <3>3, <3>4
  <2>3. requests' = requests \/ DOMAIN requests' = {}
    BY <1>1
  <2>4. QueueInv'
    BY <1>1, <2>2, <2>3 DEF FlowInv, QueueInv
  <2> QED BY <2>1, <2>4 DEF FlowInv
<1>2. CASE Drain
  <2>1. /\ outbound' = << >> /\ UNCHANGED <<command, requests, wire, orders>>
        /\ outbound # << >>
    BY <1>2 DEF Drain
  <2>2. CASE driver' = IdleDriver
    <3>1. driver' \in DriverType /\ driver'.at = "idle" /\ DOMAIN driver'.queue = {}
      BY <1>0, <2>2, DriverTypes
    <3> QED BY <1>0, <2>1, <3>1 DEF FlowInv, FlowType, QueueInv, Ids
  <2>3. CASE driver' # IdleDriver
    <3>1. driver' = [IdleDriver EXCEPT !.at = "flushing", !.queue = outbound]
      BY <1>2, <2>3 DEF Drain
    <3>2. driver' \in DriverType /\ driver'.at = "flushing" /\ driver'.queue = outbound
      BY <1>0, <3>1, DriverTypes
    <3> QED BY <1>0, <2>1, <3>2 DEF FlowInv, FlowType, QueueInv, Ids
  <2> QED BY <2>2, <2>3
<1>3. CASE DispatchOk
  <2> DEFINE c == Head(driver.queue)
  <2>1. /\ driver.at = "flushing" /\ c \in Ids /\ c \in Nat
        /\ wire' = Append(wire, c) /\ UNCHANGED <<command, outbound, orders>>
        /\ requests' = IF command[c].kind = "request" THEN Append(requests, c) ELSE requests
    BY <1>0, <1>3, <1>h DEF DispatchOk, HandOver
  <2>2. \/ driver' = IdleDriver
        \/ /\ driver' \in DriverType /\ driver'.at = "flushing"
           /\ driver'.queue # << >>
           /\ \A i \in DOMAIN driver'.queue :
                 i + 1 \in DOMAIN driver.queue /\ driver'.queue[i] = driver.queue[i + 1]
    <3>1. CASE driver' = AfterHead(driver.sent)
      BY <1>0, <2>1, <3>1, AfterHeadFacts
    <3>2. CASE driver' = AfterHead(driver.sent \cup {c})
      BY <1>0, <2>1, <3>2, AfterHeadFacts
    <3> QED BY <1>3, <3>1, <3>2 DEF DispatchOk
  <2>3. /\ requests' \in Seq(Nat)
        /\ \A i \in DOMAIN requests' :
              requests'[i] \in Ids /\ command[requests'[i]].kind = "request"
    <3>1. CASE command[c].kind # "request"
      BY <1>0, <2>1, <3>1 DEF FlowInv, QueueInv
    <3>2. CASE command[c].kind = "request"
      <4>1. /\ requests' = Append(requests, c) /\ Len(requests) \in Nat
            /\ requests' \in Seq(Nat) /\ DOMAIN requests' = 1 .. Len(requests) + 1
            /\ DOMAIN requests = 1 .. Len(requests)
            /\ requests'[Len(requests) + 1] = c
            /\ \A i \in 1 .. Len(requests) : requests'[i] = requests[i]
        BY <1>0, <2>1, <3>2, AppendFacts
      <4> QED BY <2>1, <3>2, <4>1 DEF FlowInv, QueueInv
    <3> QED BY <3>1, <3>2
  <2>4. FlowType'
    BY <1>0, <1>w, <2>1, <2>2, <2>3, DriverTypes DEF FlowType
  <2>5. QueueInv'
    <3>1. CASE driver' = IdleDriver
      <4>1. driver'.at = "idle" /\ DOMAIN driver'.queue = {}
        BY <1>0, <3>1, DriverTypes
      <4> QED BY <1>w, <2>1, <2>3, <4>1 DEF FlowInv, QueueInv, Ids
    <3>2. CASE driver' # IdleDriver
      BY <1>w, <2>1, <2>2, <2>3, <3>2 DEF FlowInv, QueueInv, Ids
    <3> QED BY <3>1, <3>2
  <2> QED BY <2>4, <2>5 DEF FlowInv
<1>4. CASE DispatchFail \/ ExecutedInVain
  BY <1>0, <1>4, <1>i DEF DispatchFail, ExecutedInVain, FlowInv, QueueInv
<1>5. CASE DispatchCancelled
  BY <1>0, <1>5, <1>i, <1>h, <1>w DEF DispatchCancelled, FlowInv, QueueInv
<1>6. CASE TakeRequests
  <2>1. /\ driver' \in DriverType /\ driver'.at = "executing"
        /\ driver'.queue = requests /\ requests # << >> /\ requests' = << >>
        /\ UNCHANGED <<command, outbound, orders, wire>>
    BY <1>0, <1>6, DriverTypes DEF TakeRequests
  <2> QED BY <1>0, <2>1 DEF FlowInv, FlowType, QueueInv, Ids
<1>7. ASSUME NEW s \in {"completed", "failed"}, Executed(s) PROVE FlowInv'
  <2>1. /\ driver' \in DriverType /\ driver'.at = "recording" /\ driver.at = "executing"
        /\ driver'.queue = driver.queue /\ driver'.status = s
        /\ UNCHANGED <<command, outbound, requests, orders, wire>>
    BY <1>0, <1>7, DriverTypes DEF Executed
  <2> QED BY <1>0, <2>1 DEF FlowInv, FlowType, QueueInv, Ids
<1>8. CASE RecordNext
  <2>1. /\ driver.at = "recording" /\ UNCHANGED <<command, outbound, requests, orders, wire>>
        /\ driver' = IdleDriver \/ driver' = AfterHead({})
    BY <1>8 DEF RecordNext
  <2>2. CASE driver' = IdleDriver
    BY <1>0, <1>i, <2>1, <2>2 DEF FlowInv, QueueInv
  <2>3. CASE driver' # IdleDriver
    <3>1. /\ driver' \in DriverType /\ driver'.at = "recording"
          /\ driver'.queue # << >> /\ driver'.status = driver.status
          /\ \A i \in DOMAIN driver'.queue :
                i + 1 \in DOMAIN driver.queue /\ driver'.queue[i] = driver.queue[i + 1]
      BY <2>1, <2>3, AfterHeadFacts
    <3> QED BY <1>0, <2>1, <3>1 DEF FlowInv, FlowType, QueueInv, Ids
  <2> QED BY <2>2, <2>3
<1>9. ASSUME NEW o \in Orders, NEW s \in {"ALIVE", "FINISHED"}, NEW x \in BOOLEAN, NEW c,
             OrderUpdate(o, s, x, c)
      PROVE  FlowInv'
  <2>1. [status |-> s, onExchange |-> x, updates |-> orders[o].updates + 1] \in Order
    BY <1>0 DEF Order
  <2> QED BY <1>0, <1>9, <1>q, <2>1 DEF OrderUpdate
<1>10. ASSUME NEW c, OtherUpdate(c) PROVE FlowInv'
  BY <1>0, <1>10, <1>q DEF OtherUpdate
<1>11. CASE Recover
  <2>1. CASE \E c \in Ids : command[c].kind = "subscribe"
    <3>1. Orders # {}
      BY <1>0, <2>1 DEF Ids, CommandType
    <3>2. (CHOOSE o \in Orders : TRUE) \in Orders
      BY <3>1
    <3> QED BY <1>1, <1>11, <2>1, <3>2 DEF Recover, AllKinds
  <2>2. CASE ~\E c \in Ids : command[c].kind = "subscribe"
    <3>1. /\ UNCHANGED <<command, outbound, driver, orders, wire>> /\ requests' = << >>
      BY <1>11, <2>2 DEF Recover
    <3> QED BY <1>0, <3>1 DEF FlowInv, FlowType, QueueInv, Ids
  <2> QED BY <2>1, <2>2
<1>12. CASE Lose \/ UNCHANGED vars
  BY <1>0, <1>12, <1>q DEF Lose, vars
<1>13. ASSUME NEW k \in Kinds, NEW o \in Orders, Submit(k, o) PROVE FlowInv'
  BY <1>1, <1>13, FlowAssumption DEF Submit
<1>14. ASSUME NEW c, NEW s, RecordOutside(c, s) PROVE FlowInv'
  BY <1>0, <1>14, <1>q DEF RecordOutside
<1> QED BY <1>2, <1>3, <1>4, <1>5, <1>6, <1>7, <1>8, <1>9, <1>10, <1>11, <1>12, <1>13, <1>14
        DEF Next, Drive

LEMMA FlowInvariant == Spec => []FlowInv
<1>1. Init => FlowInv
  BY DEF Init, FlowInv, FlowType, QueueInv, IdleDriver, DriverType, NoStatus, Order
<1> QED BY <1>1, FlowStep, PTL DEF Spec

-----------------------------------------------------------------------------
(* What a step does to the way from the outbound queue to the wire.        *)

PipeKept == UNCHANGED <<command, wire, outbound, Pending>>

PipeEnqueues ==
    /\ \E kind \in AllKinds, order \in Orders : Enqueue(kind, order)
    /\ UNCHANGED <<wire, Pending>>

PipeDrains ==
    /\ Pending = << >>
    /\ outbound' = << >>
    /\ Pending' = outbound \/ Pending' = << >>
    /\ UNCHANGED <<command, wire>>

PipeSends ==
    /\ Pending # << >>
    /\ wire' = Append(wire, Head(Pending))
    /\ Pending' = Tail(Pending) \/ Pending' = << >>
    /\ UNCHANGED <<command, outbound>>

PipeDrops == Pending' = << >> /\ UNCHANGED <<command, wire, outbound>>

LEMMA EveryPipeStep ==
    ASSUME FlowInv, [Next]_vars
    PROVE  PipeKept \/ PipeEnqueues \/ PipeDrains \/ PipeSends \/ PipeDrops
<1> DEFINE Goal == PipeKept \/ PipeEnqueues \/ PipeDrains \/ PipeSends \/ PipeDrops
<1>0. IdleDriver.at = "idle"
  BY DEF IdleDriver
<1>q. ASSUME UNCHANGED <<command, wire, outbound, driver>> PROVE Goal
  BY <1>q DEF PipeKept, Pending
<1>i. ASSUME driver' = IdleDriver, UNCHANGED <<command, wire, outbound>> PROVE Goal
  BY <1>0, <1>i DEF PipeDrops, Pending
<1>1. ASSUME NEW kind \in AllKinds, NEW order \in Orders, Enqueue(kind, order),
             UNCHANGED <<driver, wire>>
      PROVE  Goal
  BY <1>1 DEF PipeEnqueues, Pending
<1>2. CASE Drain
  <2>1. Pending = << >> /\ outbound' = << >> /\ UNCHANGED <<command, wire>>
    BY <1>2 DEF Drain, Pending
  <2>2. Pending' = outbound \/ Pending' = << >>
    <3>1. outbound \in Seq(Nat)
      BY DEF FlowInv, FlowType
    <3>2. CASE driver' = IdleDriver
      BY <1>0, <3>2 DEF Pending
    <3>3. CASE driver' = [IdleDriver EXCEPT !.at = "flushing", !.queue = outbound]
      BY <3>1, <3>3, DriverTypes DEF Pending
    <3> QED BY <1>2, <3>2, <3>3 DEF Drain
  <2> QED BY <2>1, <2>2 DEF PipeDrains
<1>3. CASE DispatchOk
  <2> DEFINE c == Head(driver.queue)
  <2>1. /\ driver.at = "flushing" /\ Pending = driver.queue /\ driver.queue # << >>
        /\ wire' = Append(wire, c) /\ UNCHANGED <<command, outbound>>
        /\ c \in Nat /\ driver.sent \in SUBSET Nat
    <3>1. driver.at = "flushing" /\ driver.queue \in Seq(Nat) /\ driver.queue # << >>
      BY <1>3 DEF DispatchOk, FlowInv, QueueInv, FlowType, DriverType
    <3>2. c \in Nat
      BY <3>1, HeadTail
    <3> QED BY <1>3, <3>1, <3>2
            DEF DispatchOk, HandOver, Pending, FlowInv, FlowType, DriverType
  <2>2. \/ driver' = IdleDriver
        \/ driver'.at = "flushing" /\ driver'.queue = Tail(driver.queue)
    <3>1. CASE driver' = AfterHead(driver.sent)
      BY <2>1, <3>1, AfterHeadFacts
    <3>2. CASE driver' = AfterHead(driver.sent \cup {c})
      BY <2>1, <3>2, AfterHeadFacts
    <3> QED BY <1>3, <3>1, <3>2 DEF DispatchOk
  <2> QED BY <1>0, <2>1, <2>2 DEF PipeSends, Pending
<1>4. CASE DispatchFail \/ ExecutedInVain
  BY <1>4, <1>i DEF DispatchFail, ExecutedInVain
<1>5. CASE DispatchCancelled
  <2>1. /\ driver.at = "flushing" /\ Pending = driver.queue /\ driver.queue # << >>
        /\ wire' = wire \/ wire' = Append(wire, Head(driver.queue))
        /\ driver' = IdleDriver /\ UNCHANGED <<command, outbound>>
    BY <1>5 DEF DispatchCancelled, FlowInv, QueueInv, Pending
  <2> QED BY <1>0, <1>i, <2>1 DEF PipeSends, Pending
<1>6. CASE TakeRequests
  <2>1. requests \in Seq(Nat)
    BY DEF FlowInv, FlowType
  <2>2. /\ driver.at = "idle" /\ driver'.at = "executing"
        /\ UNCHANGED <<command, wire, outbound>>
    BY <1>6, <2>1, DriverTypes DEF TakeRequests
  <2> QED BY <2>2 DEF PipeKept, Pending
<1>7. ASSUME NEW s \in {"completed", "failed"}, Executed(s) PROVE Goal
  <2>1. /\ driver.at = "executing" /\ driver'.at = "recording"
        /\ UNCHANGED <<command, wire, outbound>>
    BY <1>7, DriverTypes DEF Executed
  <2> QED BY <2>1 DEF PipeKept, Pending
<1>8. CASE RecordNext
  <2>1. /\ driver.at = "recording" /\ UNCHANGED <<command, wire, outbound>>
        /\ driver' = IdleDriver \/ driver' = AfterHead({})
    BY <1>8 DEF RecordNext
  <2>2. driver' = IdleDriver \/ driver'.at = "recording"
    BY <2>1, AfterHeadFacts
  <2> QED BY <1>0, <2>1, <2>2 DEF PipeKept, Pending
<1>9. CASE Recover
  <2>1. CASE \E c \in Ids : command[c].kind = "subscribe"
    <3>1. Orders # {}
      BY <2>1 DEF Ids, FlowInv, FlowType, CommandType
    <3>2. (CHOOSE o \in Orders : TRUE) \in Orders
      BY <3>1
    <3> QED BY <1>1, <1>9, <2>1, <3>2 DEF Recover, AllKinds
  <2>2. CASE ~\E c \in Ids : command[c].kind = "subscribe"
    BY <1>9, <1>q, <2>2 DEF Recover
  <2> QED BY <2>1, <2>2
<1>10. ASSUME NEW k \in Kinds, NEW o \in Orders, Submit(k, o) PROVE Goal
  BY <1>1, <1>10, FlowAssumption DEF Submit
<1>11. CASE \/ Lose \/ UNCHANGED vars
            \/ \E c \in Ids, s \in OutsideStatuses : RecordOutside(c, s)
            \/ \E o \in Orders, s \in {"ALIVE", "FINISHED"}, x \in BOOLEAN,
                  c \in Ids \cup {0} : OrderUpdate(o, s, x, c)
            \/ \E c \in Ids : OtherUpdate(c)
  <2>1. CASE Lose \/ UNCHANGED vars
    BY <2>1, <1>q DEF Lose, vars
  <2>2. ASSUME NEW c, NEW s, RecordOutside(c, s) PROVE Goal
    BY <2>2, <1>q DEF RecordOutside
  <2>3. ASSUME NEW o, NEW s, NEW x, NEW c, OrderUpdate(o, s, x, c) PROVE Goal
    BY <2>3, <1>q DEF OrderUpdate
  <2>4. ASSUME NEW c, OtherUpdate(c) PROVE Goal
    BY <2>4, <1>q DEF OtherUpdate
  <2> QED BY <1>11, <2>1, <2>2, <2>3, <2>4
<1> QED BY <1>2, <1>3, <1>4, <1>5, <1>6, <1>7, <1>8, <1>9, <1>10, <1>11 DEF Next, Drive

(* The pipe's sequences.                                                   *)
LEMMA PipeTypes ==
    ASSUME FlowInv
    PROVE  /\ wire \in Seq(Nat) /\ Pending \in Seq(Nat) /\ outbound \in Seq(Nat)
           /\ DOMAIN << >> = {}
           /\ \A i \in DOMAIN wire : wire[i] \in Ids
           /\ \A i \in DOMAIN Pending : Pending[i] \in Ids
           /\ \A i \in DOMAIN outbound : outbound[i] \in Ids
           /\ Ids = 1 .. Len(command) /\ Len(command) \in Nat
<1>1. << >> \in Seq(Nat) /\ DOMAIN << >> = {}
  OBVIOUS
<1>2. command \in Seq(CommandType)
  BY DEF FlowInv, FlowType
<1>3. Len(command) \in Nat
  BY <1>2, LenProperties
<1> QED BY <1>1, <1>3 DEF FlowInv, FlowType, QueueInv, DriverType, Pending, Ids

LEMMA OrderStep == FlowInv /\ OrderInv /\ [Next]_vars => OrderInv'
<1> SUFFICES ASSUME FlowInv, OrderInv, [Next]_vars PROVE OrderInv'
  OBVIOUS
<1>0. /\ wire \in Seq(Nat) /\ Pending \in Seq(Nat) /\ outbound \in Seq(Nat)
      /\ DOMAIN << >> = {}
      /\ \A i \in DOMAIN wire : wire[i] \in Ids
      /\ \A i \in DOMAIN Pending : Pending[i] \in Ids
      /\ \A i \in DOMAIN outbound : outbound[i] \in Ids
  BY PipeTypes
<1>1. CASE PipeKept
  BY <1>1 DEF PipeKept, OrderInv, Sorted, Before
<1>2. CASE PipeEnqueues
  <2>1. PICK kind \in AllKinds, order \in Orders : Enqueue(kind, order)
    BY <1>2 DEF PipeEnqueues
  <2> DEFINE n == Len(command) + 1
             m == Len(outbound)
             r == RequestsOf(kind)
  <2>2. /\ n \in Nat \ {0} /\ r \in {1, 2} /\ m \in Nat /\ Ids = 1 .. n - 1
        /\ DOMAIN outbound = 1 .. m /\ DOMAIN outbound' = 1 .. m + r
        /\ \A i \in 1 .. m : outbound'[i] = outbound[i]
        /\ \A i \in m + 1 .. m + r : outbound'[i] = n
    BY <2>1, EnqueueFacts
  <2>3. UNCHANGED <<wire, Pending>>
    BY <1>2 DEF PipeEnqueues
  <2> HIDE DEF n, m, r
  <2>4. \A i \in 1 .. m + r : i \in 1 .. m \/ i \in m + 1 .. m + r
    BY <2>2
  <2>5. \A c \in Ids : c <= n /\ c \in Nat
    BY <2>2
  <2>6. Sorted(outbound')
    <3> SUFFICES ASSUME NEW i \in 1 .. m + r, NEW j \in 1 .. m + r, i < j
                 PROVE  outbound'[i] <= outbound'[j]
      BY <2>2 DEF Sorted
    <3>1. CASE j \in 1 .. m
      <4>1. i \in 1 .. m
        BY <2>2, <3>1
      <4> QED BY <2>2, <3>1, <4>1 DEF OrderInv, Sorted
    <3>2. CASE j \in m + 1 .. m + r
      <4>1. outbound'[j] = n
        BY <2>2, <3>2
      <4>2. outbound'[i] = n \/ outbound'[i] \in Ids
        BY <1>0, <2>2, <2>4
      <4> QED BY <2>2, <2>5, <4>1, <4>2
    <3> QED BY <2>4, <3>1, <3>2
  <2>7. Before(wire, outbound') /\ Before(Pending, outbound')
    BY <1>0, <2>2, <2>4, <2>5 DEF OrderInv, Before
  <2> QED BY <2>3, <2>6, <2>7 DEF OrderInv, Sorted, Before
<1>3. CASE PipeDrains
  BY <1>0, <1>3 DEF PipeDrains, OrderInv, Sorted, Before
<1>4. CASE PipeSends
  <2> DEFINE c == Head(Pending)
             n == Len(wire)
  <2>1. Pending # << >> /\ wire' = Append(wire, c) /\ outbound' = outbound
    BY <1>4 DEF PipeSends
  <2>2. /\ c = Pending[1] /\ 1 \in DOMAIN Pending /\ c \in Nat
        /\ DOMAIN Pending = 1 .. Len(Pending) /\ Len(Pending) \in Nat
        /\ DOMAIN Tail(Pending) = 1 .. Len(Pending) - 1
        /\ \A i \in 1 .. Len(Pending) - 1 :
              Tail(Pending)[i] = Pending[i + 1] /\ i + 1 \in DOMAIN Pending
    BY <1>0, <2>1, HeadTail
  <2>3. /\ n \in Nat /\ DOMAIN wire = 1 .. n /\ DOMAIN wire' = 1 .. n + 1
        /\ wire'[n + 1] = c /\ \A i \in 1 .. n : wire'[i] = wire[i]
    BY <1>0, <2>1, <2>2, AppendFacts
  <2>p. \A i \in DOMAIN Pending : Pending[i] \in Nat
    BY <1>0, ElementOfSeq, <2>2
  <2> HIDE DEF c, n
  <2>4. \A i \in 1 .. n + 1 : i \in 1 .. n \/ i = n + 1
    BY <2>3
  <2>5. \A i \in DOMAIN Pending : c <= Pending[i]
    <3> SUFFICES ASSUME NEW i \in DOMAIN Pending PROVE c <= Pending[i]
      OBVIOUS
    <3>1. CASE i = 1
      BY <2>2, <3>1
    <3>2. CASE i # 1
      <4>1. 1 < i
        BY <2>2, <3>2
      <4> QED BY <2>2, <4>1 DEF OrderInv, Sorted
    <3> QED BY <3>1, <3>2
  <2>6. Sorted(wire')
    <3> SUFFICES ASSUME NEW i \in 1 .. n + 1, NEW j \in 1 .. n + 1, i < j
                 PROVE  wire'[i] <= wire'[j]
      BY <2>3 DEF Sorted
    <3>1. i \in 1 .. n
      BY <2>3
    <3>2. CASE j \in 1 .. n
      BY <2>3, <3>1, <3>2 DEF OrderInv, Sorted
    <3>3. CASE j = n + 1
      BY <2>2, <2>3, <3>1, <3>3 DEF OrderInv, Before
    <3> QED BY <2>4, <3>2, <3>3
  <2>7. Before(wire', outbound)
    BY <2>2, <2>3, <2>4 DEF OrderInv, Before
  <2>8. Before(wire', Pending)
    BY <2>2, <2>3, <2>4, <2>5 DEF OrderInv, Before
  <2>9. CASE Pending' = << >>
    BY <1>0, <2>1, <2>6, <2>7, <2>9 DEF OrderInv, Sorted, Before
  <2>10. CASE Pending' = Tail(Pending)
    <3>1. \A i \in DOMAIN Pending' : i \in Nat /\ i + 1 \in DOMAIN Pending
                                    /\ Pending'[i] = Pending[i + 1]
      BY <2>2, <2>10
    <3>2. Sorted(Pending')
      BY <3>1 DEF OrderInv, Sorted
    <3>3. Before(wire', Pending') /\ Before(Pending', outbound)
      BY <2>8, <3>1 DEF OrderInv, Before
    <3> QED BY <2>1, <2>6, <2>7, <3>2, <3>3 DEF OrderInv
  <2> QED BY <1>4, <2>9, <2>10 DEF PipeSends
<1>5. CASE PipeDrops
  BY <1>0, <1>5 DEF PipeDrops, OrderInv, Sorted, Before
<1> QED BY <1>1, <1>2, <1>3, <1>4, <1>5, EveryPipeStep

(* Whatever is submitted while a flush runs, fails or is dropped, requests *)
(* reach the routes in the order of submission: a cancel_order never       *)
(* overtakes an earlier insert_order.                                      *)
THEOREM SubmissionOrderKept == Spec => []WireFollowsSubmission
<1>1. Init => OrderInv
  BY DEF Init, OrderInv, Sorted, Before, Pending, IdleDriver
<1>2. OrderInv => WireFollowsSubmission
  BY DEF OrderInv, Sorted, WireFollowsSubmission
<1> QED BY <1>1, <1>2, FlowInvariant, OrderStep, PTL DEF Spec

-----------------------------------------------------------------------------
(* Counting the requests of a command.                                     *)

LEMMA CountType ==
    ASSUME NEW s \in Seq(Nat), NEW c
    PROVE  IsFiniteSet(Positions(s, c)) /\ Count(s, c) \in Nat
<1>1. DOMAIN s = 1 .. Len(s) /\ Len(s) \in Nat
  BY LenProperties
<1>2. IsFiniteSet(1 .. Len(s))
  BY <1>1, FS_Interval
<1>3. Positions(s, c) \in SUBSET (1 .. Len(s))
  BY <1>1 DEF Positions
<1>4. IsFiniteSet(Positions(s, c))
  BY <1>2, <1>3, FS_Subset
<1> QED BY <1>4, FS_CardinalityType DEF Count

LEMMA CountEmpty == \A c : Count(<< >>, c) = 0
<1> SUFFICES ASSUME NEW c PROVE Count(<< >>, c) = 0
  OBVIOUS
<1>1. Positions(<< >>, c) = {}
  BY DEF Positions
<1> QED BY <1>1, FS_EmptySet DEF Count

LEMMA CountAppend ==
    ASSUME NEW s \in Seq(Nat), NEW e \in Nat, NEW c
    PROVE  Count(Append(s, e), c) = Count(s, c) + (IF e = c THEN 1 ELSE 0)
<1> DEFINE n == Len(s)
           t == Append(s, e)
<1>1. /\ n \in Nat /\ DOMAIN s = 1 .. n /\ DOMAIN t = 1 .. n + 1
      /\ t[n + 1] = e /\ \A i \in 1 .. n : t[i] = s[i]
  BY AppendFacts
<1>2. IsFiniteSet(Positions(s, c)) /\ Count(s, c) \in Nat
  BY CountType
<1> HIDE DEF n, t
<1>3. \A i \in 1 .. n + 1 : i \in 1 .. n \/ i = n + 1
  BY <1>1
<1>n. n + 1 \notin 1 .. n /\ n + 1 \in 1 .. n + 1 /\ \A i \in 1 .. n : i \in 1 .. n + 1
  BY <1>1
<1>4. CASE e = c
  <2>1. Positions(t, c) = Positions(s, c) \cup {n + 1} /\ n + 1 \notin Positions(s, c)
    BY <1>1, <1>3, <1>n, <1>4 DEF Positions
  <2>2. Count(t, c) = Count(s, c) + 1
    BY <1>2, <2>1, FS_AddElement DEF Count
  <2> QED BY <1>4, <2>2 DEF t
<1>5. CASE e # c
  <2>1. Positions(t, c) = Positions(s, c)
    BY <1>1, <1>3, <1>n, <1>5 DEF Positions
  <2> QED BY <1>2, <1>5, <2>1 DEF t, Count
<1> QED BY <1>4, <1>5

LEMMA CountTail ==
    ASSUME NEW s \in Seq(Nat), s # << >>, NEW c
    PROVE  Count(s, c) = Count(Tail(s), c) + (IF Head(s) = c THEN 1 ELSE 0)
<1> DEFINE n == Len(s)
           t == Tail(s)
           P == Positions(s, c) \ {1}
           Q == Positions(t, c)
           f == [i \in Q |-> i + 1]
<1>1. /\ Head(s) = s[1] /\ 1 \in DOMAIN s /\ n \in Nat /\ n >= 1
      /\ t \in Seq(Nat) /\ DOMAIN s = 1 .. n /\ DOMAIN t = 1 .. n - 1
      /\ \A i \in 1 .. n - 1 : t[i] = s[i + 1]
  BY HeadTail
<1> HIDE DEF t, n
<1>2. IsFiniteSet(Positions(s, c)) /\ IsFiniteSet(Q) /\ Count(s, c) \in Nat /\ Count(t, c) \in Nat
  BY <1>1, CountType
<1>3. Q \subseteq 1 .. n - 1
  BY <1>1 DEF Positions
<1>4. f \in [Q -> P]
  BY <1>1, <1>3 DEF Positions
<1>5. \A i, j \in Q : f[i] = f[j] => i = j
  BY <1>1, <1>3
<1>6. \A p \in P : \E i \in Q : f[i] = p
  <2> SUFFICES ASSUME NEW p \in P PROVE \E i \in Q : f[i] = p
    OBVIOUS
  <2>1. p \in 1 .. n /\ p # 1 /\ s[p] = c
    BY <1>1 DEF Positions
  <2>2. p - 1 \in 1 .. n - 1 /\ (p - 1) + 1 = p
    BY <1>1, <2>1
  <2>3. p - 1 \in Q
    BY <1>1, <2>1, <2>2 DEF Positions
  <2> QED BY <2>2, <2>3
<1>7. f \in Bijection(Q, P)
  BY <1>4, <1>5, <1>6 DEF Bijection, Injection, Surjection, IsInjective
<1>8. Cardinality(P) = Cardinality(Q)
  BY <1>2, <1>7, FS_Bijection DEF ExistsBijection
<1>9. Cardinality(P) = IF 1 \in Positions(s, c) THEN Count(s, c) - 1 ELSE Count(s, c)
  BY <1>2, FS_RemoveElement DEF Count
<1>10. 1 \in Positions(s, c) <=> Head(s) = c
  BY <1>1 DEF Positions
<1> QED BY <1>2, <1>8, <1>9, <1>10 DEF t, Count

(* A submission adds the requests of the new command and no other.         *)
LEMMA CountEnqueue ==
    ASSUME FlowInv, NEW kind \in AllKinds, NEW order \in Orders, Enqueue(kind, order)
    PROVE  LET n == Len(command) + 1
           IN  /\ \A c \in Ids : Count(outbound', c) = Count(outbound, c)
               /\ Count(outbound', n) = RequestsOf(kind)
               /\ Count(wire, n) = 0 /\ Count(Pending, n) = 0
<1> DEFINE n == Len(command) + 1
           m == Len(outbound)
           r == RequestsOf(kind)
<1>1. /\ n \in Nat \ {0} /\ r \in {1, 2} /\ m \in Nat /\ Ids = 1 .. n - 1
      /\ DOMAIN outbound = 1 .. m /\ DOMAIN outbound' = 1 .. m + r
      /\ \A i \in 1 .. m : outbound'[i] = outbound[i]
      /\ \A i \in m + 1 .. m + r : outbound'[i] = n
  BY EnqueueFacts
<1>0. /\ \A i \in DOMAIN wire : wire[i] \in Ids
      /\ \A i \in DOMAIN Pending : Pending[i] \in Ids
      /\ \A i \in DOMAIN outbound : outbound[i] \in Ids
  BY PipeTypes
<1> HIDE DEF n, m, r
<1>2. /\ n \notin Ids
      /\ \A i \in 1 .. m + r : i \in 1 .. m \/ i \in m + 1 .. m + r
      /\ \A i \in 1 .. m : i \in 1 .. m + r
      /\ \A i \in m + 1 .. m + r : i \in 1 .. m + r
  BY <1>1
<1>3. ASSUME NEW c \in Ids PROVE Count(outbound', c) = Count(outbound, c)
  <2>1. Positions(outbound', c) = Positions(outbound, c)
    BY <1>1, <1>2 DEF Positions
  <2> QED BY <2>1 DEF Count
<1>4. Count(outbound', n) = r
  <2>1. Positions(outbound', n) = m + 1 .. m + r
    BY <1>0, <1>1, <1>2 DEF Positions
  <2>2. Cardinality(m + 1 .. m + r) = r
    <3>1. m + 1 \in Int /\ m + r \in Int /\ ~(m + 1 > m + r) /\ (m + r) - (m + 1) + 1 = r
      BY <1>1
    <3> QED BY <3>1, FS_Interval
  <2> QED BY <2>1, <2>2 DEF Count
<1>5. Count(wire, n) = 0 /\ Count(Pending, n) = 0
  <2>1. Positions(wire, n) = {} /\ Positions(Pending, n) = {}
    BY <1>0, <1>2 DEF Positions
  <2> QED BY <2>1, FS_EmptySet DEF Count
<1> QED BY <1>3, <1>4, <1>5 DEF n, r

LEMMA CountStep == FlowInv /\ CountInv /\ [Next]_vars => CountInv'
<1> SUFFICES ASSUME FlowInv, CountInv, [Next]_vars PROVE CountInv'
  OBVIOUS
<1>0. /\ wire \in Seq(Nat) /\ Pending \in Seq(Nat) /\ outbound \in Seq(Nat)
      /\ Ids = 1 .. Len(command) /\ Len(command) \in Nat
  BY PipeTypes
<1>c. ASSUME NEW c
      PROVE  Count(wire, c) \in Nat /\ Count(Pending, c) \in Nat /\ Count(outbound, c) \in Nat
  BY <1>0, CountType
<1>r. \A k : RequestsOf(k) \in Nat
  BY DEF RequestsOf
<1>1. CASE PipeKept
  BY <1>1 DEF PipeKept, CountInv, Ids
<1>2. CASE PipeEnqueues
  <2>1. PICK kind \in AllKinds, order \in Orders : Enqueue(kind, order)
    BY <1>2 DEF PipeEnqueues
  <2> DEFINE n == Len(command) + 1
  <2>2. /\ Ids' = 1 .. n /\ command'[n].kind = kind
        /\ \A c \in Ids : command'[c] = command[c]
    BY <2>1, EnqueueFacts
  <2>3. /\ \A c \in Ids : Count(outbound', c) = Count(outbound, c)
        /\ Count(outbound', n) = RequestsOf(kind)
        /\ Count(wire, n) = 0 /\ Count(Pending, n) = 0
    BY <2>1, CountEnqueue
  <2>4. UNCHANGED <<wire, Pending>>
    BY <1>2 DEF PipeEnqueues
  <2> SUFFICES ASSUME NEW c \in Ids'
               PROVE  Count(wire, c) + Count(Pending, c) + Count(outbound', c)
                         <= RequestsOf(command'[c].kind)
    BY <2>4 DEF CountInv
  <2>5. CASE c \in Ids
    BY <2>2, <2>3, <2>5 DEF CountInv
  <2>6. CASE c = n
    <3>1. /\ Count(wire, c) = 0 /\ Count(Pending, c) = 0
          /\ Count(outbound', c) = RequestsOf(command'[c].kind)
      BY <2>2, <2>3, <2>6
    <3> QED BY <1>r, <3>1
  <2> QED BY <1>0, <2>2, <2>5, <2>6
<1>3. CASE PipeDrains
  <2>1. /\ Pending = << >> /\ outbound' = << >> /\ UNCHANGED <<command, wire>>
        /\ Pending' = outbound \/ Pending' = << >>
    BY <1>3 DEF PipeDrains
  <2> SUFFICES ASSUME NEW c \in Ids
               PROVE  Count(wire, c) + Count(Pending', c) + Count(outbound', c)
                         <= RequestsOf(command[c].kind)
    BY <2>1 DEF CountInv, Ids
  <2>2. /\ Count(outbound', c) = 0
        /\ Count(Pending', c) = Count(outbound, c) \/ Count(Pending', c) = 0
    BY <2>1, CountEmpty
  <2>3. Count(wire, c) + Count(Pending, c) + Count(outbound, c) <= RequestsOf(command[c].kind)
    BY DEF CountInv
  <2> QED BY <1>c, <1>r, <2>2, <2>3
<1>4. CASE PipeSends
  <2> DEFINE h == Head(Pending)
  <2>1. /\ Pending # << >> /\ wire' = Append(wire, h) /\ UNCHANGED <<command, outbound>>
        /\ Pending' = Tail(Pending) \/ Pending' = << >>
    BY <1>4 DEF PipeSends
  <2>2. h \in Nat
    BY <1>0, <2>1, HeadTail
  <2> SUFFICES ASSUME NEW c \in Ids
               PROVE  Count(wire', c) + Count(Pending', c) + Count(outbound, c)
                         <= RequestsOf(command[c].kind)
    BY <2>1 DEF CountInv, Ids
  <2> DEFINE one == IF h = c THEN 1 ELSE 0
  <2>3. Count(wire', c) = Count(wire, c) + one /\ one \in {0, 1}
    BY <1>0, <2>1, <2>2, CountAppend
  <2>4. Count(Pending, c) = Count(Tail(Pending), c) + one
    BY <1>0, <2>1, CountTail
  <2>5. Tail(Pending) \in Seq(Nat) /\ Count(Tail(Pending), c) \in Nat
    BY <1>0, <2>1, HeadTail, CountType
  <2>6. Count(Pending', c) = Count(Tail(Pending), c) \/ Count(Pending', c) = 0
    BY <2>1, CountEmpty
  <2>7. Count(wire, c) + Count(Pending, c) + Count(outbound, c) <= RequestsOf(command[c].kind)
    BY DEF CountInv
  <2> HIDE DEF one, h
  <2> QED BY <1>c, <1>r, <2>3, <2>4, <2>5, <2>6, <2>7
<1>5. CASE PipeDrops
  <2> SUFFICES ASSUME NEW c \in Ids
               PROVE  Count(wire, c) + Count(Pending', c) + Count(outbound, c)
                         <= RequestsOf(command[c].kind)
    BY <1>5 DEF PipeDrops, CountInv, Ids
  <2>1. Count(Pending', c) = 0
    BY <1>5, CountEmpty DEF PipeDrops
  <2>2. Count(wire, c) + Count(Pending, c) + Count(outbound, c) <= RequestsOf(command[c].kind)
    BY DEF CountInv
  <2> QED BY <1>c, <1>r, <2>1, <2>2
<1> QED BY <1>1, <1>2, <1>3, <1>4, <1>5, EveryPipeStep

(* However flushes fail, are dropped while a send is awaited, or the       *)
(* connection is replaced, no request is handed to a route twice.          *)
THEOREM SentAtMostOnce == Spec => []AtMostOnceOnWire
<1>1. Init => CountInv
  <2> SUFFICES ASSUME Init PROVE CountInv
    OBVIOUS
  <2>1. Ids = {}
    BY DEF Init, Ids
  <2> QED BY <2>1 DEF CountInv
<1>2. FlowInv /\ CountInv => AtMostOnceOnWire
  <2> SUFFICES ASSUME FlowInv, CountInv, NEW c \in Ids
               PROVE  Count(wire, c) <= RequestsOf(command[c].kind)
    BY DEF AtMostOnceOnWire, Count, Positions
  <2>1. Count(wire, c) + Count(Pending, c) + Count(outbound, c) <= RequestsOf(command[c].kind)
    BY DEF CountInv
  <2>2. Count(wire, c) \in Nat /\ Count(Pending, c) \in Nat /\ Count(outbound, c) \in Nat
    BY PipeTypes, CountType
  <2>3. RequestsOf(command[c].kind) \in Nat
    BY DEF RequestsOf
  <2> QED BY <2>1, <2>2, <2>3
<1> QED BY <1>1, <1>2, FlowInvariant, CountStep, PTL DEF Spec

-----------------------------------------------------------------------------
(* What a step does to statuses and orders.                                *)

(* The order in the tree after the step supports status s of command c, or *)
(* the status is recorded from outside.                                    *)
Supported(c, s) ==
    LET order == orders'[command[c].order]
    IN  \/ c \in outside'
        \/ /\ s = "completed" /\ command[c].kind \in {"insert", "cancel"} =>
                 order.status = "FINISHED" /\ (command[c].kind = "insert" => order.onExchange)
           /\ s = "rejected" => order.status = "FINISHED" /\ ~order.onExchange

Records ==
    /\ UNCHANGED command
    /\ \/ UNCHANGED ledgerVars
       \/ \E c \in Ids, s \in Statuses : Record(c, s) /\ Supported(c, s)

Submits ==
    /\ \E kind \in AllKinds, order \in Orders : Enqueue(kind, order)
    /\ UNCHANGED orders

FinishedKept ==
    /\ \A o \in Orders : orders[o].status = "FINISHED" => orders'[o] = orders[o]
    /\ outside \subseteq outside'

LEMMA EveryLedgerStep ==
    ASSUME FlowInv, [Next]_vars
    PROVE  (Records \/ Submits) /\ FinishedKept
<1> DEFINE Goal == (Records \/ Submits) /\ FinishedKept
<1>q. ASSUME UNCHANGED <<command, ledgerVars, orders, outside>> PROVE Goal
  BY <1>q DEF Records, FinishedKept
<1>r. ASSUME NEW c \in Ids, NEW s \in Statuses, Record(c, s) \/ UNCHANGED ledgerVars,
             UNCHANGED <<command, orders>>, outside \subseteq outside',
             \/ c \in outside' \/ s \notin {"completed", "rejected"}
             \/ s # "rejected" /\ command[c].kind = "request"
      PROVE  Goal
  <2>1. Supported(c, s)
    BY <1>r DEF Supported
  <2> QED BY <1>r, <2>1 DEF Records, FinishedKept
<1>s. {"sent", "failed", "completed", "rejected", "acked", "partially_applied"} \subseteq Statuses
  BY DEF Statuses, Terminal
<1>h. ASSUME driver.at # "idle"
      PROVE  /\ Head(driver.queue) \in Ids
             /\ driver.at = "recording" =>
                   /\ command[Head(driver.queue)].kind = "request"
                   /\ driver.status \in {"completed", "failed"}
  <2>1. driver.queue \in Seq(Nat) /\ driver.queue # << >>
    BY <1>h DEF FlowInv, FlowType, QueueInv, DriverType
  <2> QED BY <2>1, HeadTail DEF FlowInv, QueueInv
<1>1. ASSUME NEW kind \in AllKinds, NEW order \in Orders, Enqueue(kind, order),
             UNCHANGED <<orders, outside>>
      PROVE  Goal
  BY <1>1 DEF Submits, FinishedKept
<1>2. CASE Drain \/ DispatchCancelled \/ TakeRequests \/ ExecutedInVain
           \/ \E s \in {"completed", "failed"} : Executed(s)
  BY <1>2, <1>q DEF Drain, DispatchCancelled, TakeRequests, ExecutedInVain, Executed
<1>3. CASE DispatchOk
  <2>1. /\ driver.at # "idle" /\ UNCHANGED <<command, orders, outside>>
        /\ Record(Head(driver.queue), "sent") \/ UNCHANGED ledgerVars
    BY <1>3 DEF DispatchOk
  <2> QED BY <1>h, <1>r, <1>s, <2>1
<1>4. CASE DispatchFail
  <2>1. /\ driver.at # "idle" /\ UNCHANGED <<command, orders, outside>>
        /\ Record(Head(driver.queue), "failed") \/ UNCHANGED ledgerVars
    BY <1>4 DEF DispatchFail
  <2> QED BY <1>h, <1>r, <1>s, <2>1
<1>5. CASE RecordNext
  <2>1. /\ driver.at = "recording" /\ UNCHANGED <<command, orders, outside>>
        /\ Record(Head(driver.queue), driver.status) \/ UNCHANGED ledgerVars
    BY <1>5 DEF RecordNext
  <2> QED BY <1>h, <1>r, <1>s, <2>1
<1>6. ASSUME NEW o \in Orders, NEW st \in {"ALIVE", "FINISHED"}, NEW x \in BOOLEAN,
             NEW c \in Ids \cup {0}, OrderUpdate(o, st, x, c)
      PROVE  Goal
  <2> DEFINE new == [status |-> st, onExchange |-> x, updates |-> orders[o].updates + 1]
  <2>1. /\ orders' = [orders EXCEPT ![o] = new] /\ orders[o].status # "FINISHED"
        /\ UNCHANGED <<command, outside>>
    BY <1>6 DEF OrderUpdate
  <2>2. orders \in [Orders -> Order] /\ new.status = st /\ new.onExchange = x
    BY DEF FlowInv, FlowType
  <2> HIDE DEF new
  <2>3. orders'[o] = new /\ \A p \in Orders \ {o} : orders'[p] = orders[p]
    BY <2>1, <2>2
  <2>4. FinishedKept
    BY <2>1, <2>3 DEF FinishedKept
  <2>5. CASE UNCHANGED ledgerVars
    BY <2>1, <2>4, <2>5 DEF Records
  <2>6. CASE ~UNCHANGED ledgerVars
    <3> DEFINE d == Derived(c, o, new)
               s == IF d # NoStatus THEN d ELSE "partially_applied"
    <3>1. c \in Ids /\ Record(c, s)
      BY <1>6, <2>6, <2>2 DEF OrderUpdate, RecordDerived, new
    <3>2. s \in Statuses
      BY <1>s DEF Derived, NoStatus
    <3>3. Supported(c, s)
      <4>1. CASE d = NoStatus
        BY <4>1 DEF Supported
      <4>2. CASE d # NoStatus
        <5>1. command[c].kind \in {"insert", "cancel"} /\ command[c].order = o
          BY <4>2 DEF Derived
        <5>2. /\ d \in {"acked", "rejected", "completed"}
              /\ d = "completed" => st # "ALIVE" /\ (command[c].kind = "insert" => x)
              /\ d = "rejected" => st # "ALIVE" /\ ~x
          BY <2>2, <4>2, <5>1 DEF Derived
        <5>3. s = d /\ orders'[command[c].order] = new
          BY <2>3, <4>2, <5>1
        <5> QED BY <2>2, <5>1, <5>2, <5>3 DEF Supported
      <4> QED BY <4>1, <4>2
    <3> QED BY <2>1, <2>4, <3>1, <3>2, <3>3 DEF Records
  <2> QED BY <2>5, <2>6
<1>7. ASSUME NEW c \in Ids, OtherUpdate(c) PROVE Goal
  <2>1. /\ Record(c, "partially_applied") \/ UNCHANGED ledgerVars
        /\ UNCHANGED <<command, orders, outside>>
    BY <1>7 DEF OtherUpdate, RecordDerived
  <2> QED BY <1>r, <1>s, <2>1
<1>8. CASE Recover
  <2>1. CASE \E c \in Ids : command[c].kind = "subscribe"
    <3>1. Orders # {}
      BY <2>1 DEF Ids, FlowInv, FlowType, CommandType
    <3>2. (CHOOSE o \in Orders : TRUE) \in Orders
      BY <3>1
    <3> QED BY <1>1, <1>8, <2>1, <3>2 DEF Recover, AllKinds
  <2>2. CASE ~\E c \in Ids : command[c].kind = "subscribe"
    BY <1>8, <1>q, <2>2 DEF Recover
  <2> QED BY <2>1, <2>2
<1>9. ASSUME NEW k \in Kinds, NEW o \in Orders, Submit(k, o) PROVE Goal
  BY <1>1, <1>9, FlowAssumption DEF Submit
<1>10. ASSUME NEW c \in Ids, NEW s \in OutsideStatuses, RecordOutside(c, s) PROVE Goal
  <2>1. /\ Record(c, s) /\ UNCHANGED <<command, orders>> /\ s \in Statuses
        /\ outside' = IF s \in Terminal /\ ~Ignored(c, s) THEN outside \cup {c} ELSE outside
    BY <1>10, FlowAssumption DEF RecordOutside
  <2>2. CASE Ignored(c, s)
    BY <1>q, <2>1, <2>2 DEF Record
  <2>3. CASE ~Ignored(c, s)
    <3>1. c \in outside' \/ s \notin {"completed", "rejected"}
      BY <2>1, <2>3 DEF Terminal
    <3>2. outside \subseteq outside'
      BY <2>1
    <3> QED BY <1>r, <2>1, <3>1, <3>2
  <2> QED BY <2>2, <2>3
<1>11. CASE Lose \/ UNCHANGED vars
  BY <1>11, <1>q DEF Lose, vars
<1> QED BY <1>2, <1>3, <1>4, <1>5, <1>6, <1>7, <1>8, <1>9, <1>10, <1>11 DEF Next, Drive

(* Under the ledger's invariant only a command in the ledger gets a new    *)
(* status, and only one that may follow.                                   *)
LEMMA OnlyLiveCommit ==
    ASSUME LedgerInv, NEW c \in Ids, NEW s \in Statuses, Record(c, s)
    PROVE  \/ UNCHANGED ledgerVars
           \/ Commit(c, s) /\ c \in DOMAIN ledger /\ CanFollow(ledger[c], s)
<1>1. CASE c \in DOMAIN ledger
  <2>1. Known(c) /\ CurrentStatus(c) = ledger[c]
    BY <1>1 DEF Known, CurrentStatus
  <2> QED BY <1>1, <2>1 DEF Record, Refused
<1>2. CASE c \notin DOMAIN ledger
  <2>1. CASE c \in Range(evicted)
    BY <1>2, <2>1 DEF Record, Ignored
  <2>2. CASE c \notin Range(evicted)
    <3>1. Known(c) /\ CanFollow(CurrentStatus(c), s)
      BY <1>2, <2>2 DEF Record, Refused
    <3>2. c \in DOMAIN tree /\ CurrentStatus(c) = tree[c]
      BY <1>2, <3>1 DEF Known, CurrentStatus
    <3>3. tree[c] \in Terminal
      BY <1>2, <3>2 DEF LedgerInv
    <3>4. s = tree[c]
      BY <3>1, <3>2, <3>3 DEF CanFollow, Terminal
    <3> QED BY <1>2, <2>2, <3>1, <3>2, <3>3, <3>4 DEF Record, Ignored
  <2> QED BY <2>1, <2>2
<1> QED BY <1>1, <1>2

-----------------------------------------------------------------------------
(* Lists without repetition.                                               *)

LEMMA RangeAppend ==
    ASSUME NEW s \in Seq(Nat), NEW e \in Nat
    PROVE  /\ Range(Append(s, e)) = Range(s) \cup {e}
           /\ Unrepeated(s) /\ e \notin Range(s) => Unrepeated(Append(s, e))
<1> DEFINE n == Len(s)
           t == Append(s, e)
<1>1. /\ n \in Nat /\ DOMAIN s = 1 .. n /\ DOMAIN t = 1 .. n + 1
      /\ t[n + 1] = e /\ \A i \in 1 .. n : t[i] = s[i]
  BY AppendFacts
<1> HIDE DEF n, t
<1>2. \A i \in 1 .. n + 1 : i \in 1 .. n \/ i = n + 1
  BY <1>1
<1>3. n + 1 \in 1 .. n + 1 /\ \A i \in 1 .. n : i \in 1 .. n + 1
  BY <1>1
<1>4. Range(t) = Range(s) \cup {e}
  BY <1>1, <1>2, <1>3 DEF Range
<1>5. ASSUME Unrepeated(s), e \notin Range(s) PROVE Unrepeated(t)
  <2>1. \A i \in 1 .. n : t[i] # e
    BY <1>1, <1>5 DEF Range
  <2> QED BY <1>1, <1>2, <1>5, <2>1 DEF Unrepeated
<1> QED BY <1>4, <1>5 DEF t

LEMMA RangeTail ==
    ASSUME NEW s \in Seq(Nat), s # << >>, Unrepeated(s)
    PROVE  /\ Range(Tail(s)) = Range(s) \ {Head(s)} /\ Head(s) \in Range(s)
           /\ Unrepeated(Tail(s)) /\ Tail(s) \in Seq(Nat)
           /\ Len(Tail(s)) = Len(s) - 1 /\ Head(s) \in Nat
<1> DEFINE n == Len(s)
           t == Tail(s)
           h == Head(s)
<1>1. /\ h = s[1] /\ 1 \in DOMAIN s /\ n \in Nat /\ n >= 1 /\ h \in Nat
      /\ t \in Seq(Nat) /\ DOMAIN s = 1 .. n /\ DOMAIN t = 1 .. n - 1
      /\ \A i \in 1 .. n - 1 : t[i] = s[i + 1]
  BY HeadTail
<1>2. Len(t) = n - 1
  BY HeadTailProperties
<1> HIDE DEF n, t, h
<1>3. /\ \A i \in 1 .. n - 1 : i + 1 \in 1 .. n /\ i + 1 # 1
      /\ \A j \in 1 .. n : j = 1 \/ (j - 1 \in 1 .. n - 1 /\ (j - 1) + 1 = j)
  BY <1>1
<1>4. \A x \in Range(t) : x \in Range(s) /\ x # h
  <2> SUFFICES ASSUME NEW x \in Range(t) PROVE x \in Range(s) /\ x # h
    OBVIOUS
  <2>1. PICK i \in 1 .. n - 1 : t[i] = x
    BY <1>1 DEF Range
  <2>2. i + 1 \in 1 .. n /\ i + 1 # 1 /\ s[i + 1] = x
    BY <1>1, <1>3, <2>1
  <2>3. s[i + 1] # s[1]
    BY <1>1, <2>2 DEF Unrepeated
  <2> QED BY <1>1, <2>2, <2>3 DEF Range
<1>5. \A x \in Range(s) \ {h} : x \in Range(t)
  <2> SUFFICES ASSUME NEW x \in Range(s), x # h PROVE x \in Range(t)
    OBVIOUS
  <2>1. PICK j \in 1 .. n : s[j] = x
    BY <1>1 DEF Range
  <2>2. j - 1 \in 1 .. n - 1 /\ (j - 1) + 1 = j
    BY <1>1, <1>3, <2>1
  <2>3. t[j - 1] = x
    BY <1>1, <2>1, <2>2
  <2> QED BY <1>1, <2>2, <2>3 DEF Range
<1>6. h \in Range(s)
  BY <1>1 DEF Range
<1>7. Unrepeated(t)
  <2> SUFFICES ASSUME NEW i \in 1 .. n - 1, NEW j \in 1 .. n - 1, t[i] = t[j]
               PROVE  i = j
    BY <1>1 DEF Unrepeated
  <2>1. i + 1 = j + 1
    BY <1>1, <1>3 DEF Unrepeated
  <2> QED BY <1>1, <2>1
<1> QED BY <1>1, <1>2, <1>4, <1>5, <1>6, <1>7 DEF n, t, h

(* A list without repetition has as many elements as entries.              *)
LEMMA UnrepeatedCardinality ==
    ASSUME NEW s \in Seq(Nat), Unrepeated(s)
    PROVE  Cardinality(Range(s)) = Len(s)
<1>1. Len(s) \in Nat /\ DOMAIN s = 1 .. Len(s) /\ s \in [1 .. Len(s) -> Nat]
  BY LenProperties
<1>2. s \in [1 .. Len(s) -> Range(s)]
  BY <1>1 DEF Range
<1>3. s \in Bijection(1 .. Len(s), Range(s))
  BY <1>1, <1>2 DEF Bijection, Injection, Surjection, IsInjective, Unrepeated, Range
<1> QED BY <1>1, <1>3, FS_CountingElements DEF ExistsBijection

(* The oldest retained command that a terminal status pushes out.          *)
LEMMA EvictionFacts ==
    ASSUME LedgerInv, NEW c \in DOMAIN ledger
    PROVE  /\ Evictable(c) = IF Len(retained) >= MaxRetained THEN {Head(retained)} ELSE {}
           /\ c \notin Range(retained) /\ c \notin Range(evicted)
<1>1. c \notin Range(retained)
  <2>1. c \in DOMAIN tree => tree[c] = ledger[c]
    BY DEF LedgerInv
  <2>2. ledger[c] \notin Terminal
    BY DEF LedgerInv, Live
  <2> QED BY <2>1, <2>2 DEF LedgerInv
<1>2. c \notin Range(evicted)
  BY DEF LedgerInv, Range
<1> QED BY <1>1, <1>2 DEF Evictable

(* A new command enters the ledger as queued.                              *)
LEMMA LedgerEnqueue ==
    ASSUME FlowInv, LedgerInv, NEW kind \in AllKinds, NEW order \in Orders, Enqueue(kind, order)
    PROVE  LedgerInv'
<1> DEFINE n == Len(command) + 1
           T == Terminal \cup {NoOutcome}
<1>1. /\ n \in Nat \ {0} /\ Ids = 1 .. n - 1 /\ Ids' = 1 .. n /\ Len(command') = n
  BY EnqueueFacts
<1>2. UNCHANGED <<retained, evicted, tree>> /\ ledger' = With(ledger, n, "queued")
  BY DEF Enqueue
<1>3. outcome' = Append(outcome, NoOutcome) /\ outcome \in Seq(T) /\ NoOutcome \in T
      /\ Len(outcome) = n - 1
  BY <1>1 DEF Enqueue, LedgerInv, EnqueueFacts
<1> HIDE DEF n, T
<1>4. /\ outcome' \in Seq(T) /\ Len(outcome') = n /\ outcome'[n] = NoOutcome
      /\ \A c \in Ids : outcome'[c] = outcome[c]
  <2>1. /\ outcome' \in Seq(T) /\ Len(outcome') = Len(outcome) + 1
        /\ outcome'[Len(outcome) + 1] = NoOutcome
        /\ \A i \in 1 .. Len(outcome) : outcome'[i] = outcome[i]
    BY <1>3, AppendFacts
  <2> QED BY <1>1, <1>3, <2>1
<1>5. n \notin Ids /\ Ids' = Ids \cup {n}
  BY <1>1
<1>6. n \notin DOMAIN ledger /\ n \notin DOMAIN tree
  BY <1>5 DEF LedgerInv
<1>7. /\ DOMAIN ledger' = DOMAIN ledger \cup {n} /\ ledger'[n] = "queued"
      /\ \A c \in DOMAIN ledger : ledger'[c] = ledger[c]
      /\ ledger' = [c \in DOMAIN ledger' |-> ledger'[c]]
  BY <1>2, <1>6 DEF With
<1>8. "queued" \in Live
  BY DEF Live, Statuses, Terminal
<1>9. ledger' \in [DOMAIN ledger' -> Live]
  BY <1>7, <1>8 DEF LedgerInv
<1>10. DOMAIN ledger' = {c \in Ids' : outcome'[c] = NoOutcome}
  BY <1>4, <1>5, <1>7 DEF LedgerInv
<1>11. \A c \in DOMAIN ledger' :
         IF c \in DOMAIN tree' THEN tree'[c] = ledger'[c] ELSE ledger'[c] = "queued"
  BY <1>2, <1>6, <1>7 DEF LedgerInv
<1>12. \A c \in DOMAIN tree' \ DOMAIN ledger' :
         tree'[c] \in Terminal /\ tree'[c] = outcome'[c]
  BY <1>2, <1>4, <1>7 DEF LedgerInv
<1>13. \A i \in DOMAIN evicted' : /\ evicted'[i] \in Ids' \ DOMAIN tree'
                                  /\ outcome'[evicted'[i]] # NoOutcome
  BY <1>2, <1>4, <1>5 DEF LedgerInv
<1>14. DOMAIN tree' \subseteq Ids'
  BY <1>2, <1>5 DEF LedgerInv
<1> QED BY <1>1, <1>2, <1>4, <1>9, <1>10, <1>11, <1>12, <1>13, <1>14 DEF LedgerInv, T

(* What a committed status does to the outcomes.                           *)
LEMMA OutcomeCommit ==
    ASSUME FlowInv, LedgerInv, NEW c \in DOMAIN ledger, NEW s \in Terminal,
           outcome' = [outcome EXCEPT ![c] = s]
    PROVE  /\ outcome' \in Seq(Terminal \cup {NoOutcome}) /\ Len(outcome') = Len(outcome)
           /\ c \in Ids /\ outcome'[c] = s /\ outcome[c] = NoOutcome
           /\ \A d \in Ids \ {c} : outcome'[d] = outcome[d]
<1> DEFINE T == Terminal \cup {NoOutcome}
<1>1. /\ outcome \in Seq(T) /\ c \in Ids /\ outcome[c] = NoOutcome /\ s \in T
      /\ Len(outcome) = Len(command)
  BY DEF LedgerInv
<1>2. DOMAIN outcome = 1 .. Len(outcome) /\ Ids = 1 .. Len(outcome)
  BY <1>1, LenProperties DEF Ids
<1> HIDE DEF T
<1>3. outcome' \in Seq(T) /\ Len(outcome') = Len(outcome)
  BY <1>1, <1>2, ExceptSeq
<1>4. outcome'[c] = s /\ \A d \in Ids \ {c} : outcome'[d] = outcome[d]
  BY <1>1, <1>2
<1> QED BY <1>1, <1>3, <1>4 DEF T

(* A status that is not terminal changes one row and one ledger entry.     *)
LEMMA LedgerLiveCommit ==
    ASSUME FlowInv, LedgerInv, UNCHANGED command, NEW c \in DOMAIN ledger, NEW s \in Live,
           Commit(c, s)
    PROVE  LedgerInv'
<1>1. s \notin Terminal /\ s \in Statuses
  BY DEF Live
<1>2. /\ tree' = [d \in DOMAIN tree \cup {c} |-> IF d = c THEN s ELSE tree[d]]
      /\ ledger' = With(ledger, c, s) /\ UNCHANGED <<retained, evicted, outcome>>
  BY <1>1 DEF Commit
<1>3. /\ DOMAIN ledger' = DOMAIN ledger /\ ledger'[c] = s
      /\ \A d \in DOMAIN ledger \ {c} : ledger'[d] = ledger[d]
      /\ ledger' \in [DOMAIN ledger' -> Live]
  BY <1>2 DEF With, LedgerInv
<1>4. /\ DOMAIN tree' = DOMAIN tree \cup {c} /\ tree'[c] = s
      /\ \A d \in DOMAIN tree \ {c} : tree'[d] = tree[d]
      /\ tree' \in [DOMAIN tree' -> Statuses]
  BY <1>1, <1>2 DEF LedgerInv
<1>5. Ids' = Ids /\ c \in Ids
  BY DEF Ids, LedgerInv
<1>6. c \notin Range(retained) /\ c \notin Range(evicted)
  BY EvictionFacts
<1>7. \A d \in DOMAIN ledger' :
         IF d \in DOMAIN tree' THEN tree'[d] = ledger'[d] ELSE ledger'[d] = "queued"
  BY <1>3, <1>4 DEF LedgerInv
<1>8. Range(retained') = {d \in DOMAIN tree' : tree'[d] \in Terminal}
  BY <1>1, <1>2, <1>4, <1>6 DEF LedgerInv
<1>9. \A d \in DOMAIN tree' \ DOMAIN ledger' : tree'[d] \in Terminal /\ tree'[d] = outcome'[d]
  BY <1>2, <1>3, <1>4 DEF LedgerInv
<1>10. \A i \in DOMAIN evicted' : /\ evicted'[i] \in Ids' \ DOMAIN tree'
                                  /\ outcome'[evicted'[i]] # NoOutcome
  BY <1>2, <1>4, <1>5, <1>6 DEF LedgerInv, Range
<1>11. DOMAIN tree' \subseteq Ids'
  BY <1>4, <1>5 DEF LedgerInv
<1>12. DOMAIN ledger' = {d \in Ids' : outcome'[d] = NoOutcome}
  BY <1>2, <1>3, <1>5 DEF LedgerInv
<1> QED BY <1>2, <1>3, <1>4, <1>7, <1>8, <1>9, <1>10, <1>11, <1>12 DEF LedgerInv

(* The list of evicted commands takes in the one whose row is removed.     *)
LEMMA EvictedFacts ==
    ASSUME LedgerInv, NEW h \in Nat, h \notin Range(evicted)
    PROVE  /\ EvictedWith(h) \in Seq(Nat) /\ Unrepeated(EvictedWith(h))
           /\ Len(EvictedWith(h)) <= MaxRetained
           /\ Range(EvictedWith(h)) \subseteq Range(evicted) \cup {h}
<1> DEFINE all == Append(evicted, h)
<1>1. evicted \in Seq(Nat) /\ Unrepeated(evicted) /\ Len(evicted) <= MaxRetained
  BY DEF LedgerInv
<1>2. /\ all \in Seq(Nat) /\ Len(all) = Len(evicted) + 1 /\ Len(evicted) \in Nat
      /\ Range(all) = Range(evicted) \cup {h} /\ Unrepeated(all)
  BY <1>1, AppendFacts, RangeAppend
<1>3. EvictedWith(h) = IF Len(all) > MaxRetained THEN Tail(all) ELSE all
  BY DEF EvictedWith
<1> HIDE DEF all
<1>4. MaxRetained \in Nat
  BY FlowAssumption
<1>5. CASE Len(all) > MaxRetained
  <2>1. all # << >>
    BY <1>2, EmptySeq
  <2>2. /\ Range(Tail(all)) \subseteq Range(all) /\ Unrepeated(Tail(all))
        /\ Tail(all) \in Seq(Nat) /\ Len(Tail(all)) = Len(all) - 1
    BY <1>2, <2>1, RangeTail
  <2>3. Len(all) - 1 <= MaxRetained
    BY <1>1, <1>2, <1>4
  <2> QED BY <1>2, <1>3, <1>5, <2>2, <2>3
<1>6. CASE ~(Len(all) > MaxRetained)
  BY <1>2, <1>3, <1>4, <1>6
<1> QED BY <1>5, <1>6

(* A terminal status takes the command out of the ledger and, at the       *)
(* limit, the oldest terminal row out of the tree.                         *)
LEMMA LedgerTerminalCommit ==
    ASSUME FlowInv, LedgerInv, UNCHANGED command, NEW c \in DOMAIN ledger, NEW s \in Terminal,
           Commit(c, s)
    PROVE  LedgerInv'
<1> DEFINE out == Evictable(c)
           kept == IF out = {} THEN retained ELSE Tail(retained)
<1>1. /\ tree' = [d \in (DOMAIN tree \cup {c}) \ out |-> IF d = c THEN s ELSE tree[d]]
      /\ ledger' = Without(ledger, c)
      /\ retained' = Append(kept, c)
      /\ evicted' = IF out = {} THEN evicted ELSE EvictedWith(Head(retained))
      /\ outcome' = [outcome EXCEPT ![c] = s]
  BY DEF Commit
<1>2. /\ out = IF Len(retained) >= MaxRetained THEN {Head(retained)} ELSE {}
      /\ c \notin Range(retained) /\ c \notin Range(evicted)
  BY EvictionFacts
<1>3. /\ outcome' \in Seq(Terminal \cup {NoOutcome}) /\ Len(outcome') = Len(outcome)
      /\ c \in Ids /\ outcome'[c] = s /\ outcome[c] = NoOutcome
      /\ \A d \in Ids \ {c} : outcome'[d] = outcome[d]
  BY <1>1, OutcomeCommit
<1> HIDE DEF out
<1>4. /\ retained \in Seq(Nat) /\ Unrepeated(retained) /\ Len(retained) <= MaxRetained
      /\ evicted \in Seq(Nat) /\ Unrepeated(evicted) /\ Len(evicted) <= MaxRetained
      /\ MaxRetained \in Nat \ {0} /\ Len(retained) \in Nat
  BY FlowAssumption, LenProperties DEF LedgerInv
<1>5. /\ kept \in Seq(Nat) /\ Unrepeated(kept) /\ Len(kept) < MaxRetained
      /\ Range(kept) = Range(retained) \ out /\ out \subseteq Range(retained)
      /\ out = {} \/ out = {Head(retained)}
  <2>1. CASE Len(retained) >= MaxRetained
    <3>1. retained # << >>
      BY <1>4, <2>1, EmptySeq
    <3>2. /\ Range(Tail(retained)) = Range(retained) \ {Head(retained)}
          /\ Head(retained) \in Range(retained)
          /\ Unrepeated(Tail(retained)) /\ Tail(retained) \in Seq(Nat)
          /\ Len(Tail(retained)) = Len(retained) - 1
      BY <1>4, <3>1, RangeTail
    <3>3. out = {Head(retained)} /\ kept = Tail(retained)
      BY <1>2, <2>1
    <3>4. Len(retained) - 1 < MaxRetained
      BY <1>4
    <3> QED BY <3>2, <3>3, <3>4
  <2>2. CASE ~(Len(retained) >= MaxRetained)
    BY <1>2, <1>4, <2>2
  <2> QED BY <2>1, <2>2
<1> HIDE DEF kept
<1>6. c \in Nat
  BY <1>3, LenProperties DEF Ids, FlowInv, FlowType
<1>7. /\ retained' \in Seq(Nat) /\ Unrepeated(retained') /\ Len(retained') <= MaxRetained
      /\ Range(retained') = (Range(retained) \ out) \cup {c}
  <2>1. /\ retained' \in Seq(Nat) /\ Len(retained') = Len(kept) + 1
        /\ Range(retained') = Range(kept) \cup {c} /\ Len(kept) \in Nat
    BY <1>1, <1>5, <1>6, AppendFacts, RangeAppend
  <2>2. Unrepeated(retained')
    BY <1>1, <1>2, <1>5, <1>6, RangeAppend
  <2>3. Len(kept) + 1 <= MaxRetained
    BY <1>4, <1>5, <2>1
  <2> QED BY <1>5, <2>1, <2>2, <2>3
<1>8. /\ c \notin out /\ out \subseteq DOMAIN tree /\ out \cap DOMAIN ledger = {}
      /\ out \subseteq Ids
      /\ out \cap Range(evicted) = {}
  <2>1. \A d \in Range(retained) : d \in DOMAIN tree /\ tree[d] \in Terminal
    BY DEF LedgerInv
  <2>2. \A d \in DOMAIN ledger : d \in DOMAIN tree => tree[d] \notin Terminal
    BY DEF LedgerInv, Live
  <2>3. \A d \in Range(evicted) : d \notin DOMAIN tree
    BY DEF LedgerInv, Range
  <2>4. DOMAIN tree \subseteq Ids
    BY DEF LedgerInv
  <2> QED BY <1>2, <1>5, <2>1, <2>2, <2>3, <2>4
<1>9. /\ evicted' \in Seq(Nat) /\ Unrepeated(evicted') /\ Len(evicted') <= MaxRetained
      /\ Range(evicted') \subseteq Range(evicted) \cup out
  <2>1. CASE out = {}
    BY <1>1, <1>4, <2>1
  <2>2. CASE out = {Head(retained)}
    <3>1. Head(retained) \in Nat /\ Head(retained) \notin Range(evicted)
      BY <1>8, <2>2 DEF Ids
    <3>2. evicted' = EvictedWith(Head(retained))
      BY <1>1, <2>2
    <3> QED BY <2>2, <3>1, <3>2, EvictedFacts
  <2> QED BY <1>5, <2>1, <2>2
<1>10. /\ DOMAIN tree' = (DOMAIN tree \cup {c}) \ out /\ c \in DOMAIN tree' /\ tree'[c] = s
       /\ \A d \in DOMAIN tree' \ {c} : d \in DOMAIN tree /\ tree'[d] = tree[d]
  BY <1>1, <1>8
<1>11. tree' \in [DOMAIN tree' -> Statuses]
  <2>1. \A d \in DOMAIN tree' : tree'[d] \in Statuses
    BY <1>10 DEF LedgerInv, Statuses
  <2> QED BY <1>1, <2>1
<1>12. /\ DOMAIN ledger' = DOMAIN ledger \ {c}
       /\ \A d \in DOMAIN ledger' : ledger'[d] = ledger[d]
       /\ ledger' \in [DOMAIN ledger' -> Live]
  BY <1>1 DEF Without, LedgerInv
<1>13. Ids' = Ids /\ NoOutcome \notin Terminal
  BY DEF Ids, NoOutcome, Terminal
<1>14. DOMAIN ledger' = {d \in Ids' : outcome'[d] = NoOutcome}
  BY <1>3, <1>12, <1>13 DEF LedgerInv
<1>15. \A d \in DOMAIN ledger' :
          IF d \in DOMAIN tree' THEN tree'[d] = ledger'[d] ELSE ledger'[d] = "queued"
  BY <1>8, <1>10, <1>12 DEF LedgerInv
<1>16. Range(retained') = {d \in DOMAIN tree' : tree'[d] \in Terminal}
  <2>1. Range(retained) = {d \in DOMAIN tree : tree[d] \in Terminal}
    BY DEF LedgerInv
  <2> QED BY <1>7, <1>8, <1>10, <2>1
<1>17. \A d \in DOMAIN tree' \ DOMAIN ledger' : tree'[d] \in Terminal /\ tree'[d] = outcome'[d]
  BY <1>3, <1>10, <1>12 DEF LedgerInv
<1>18. \A i \in DOMAIN evicted' : /\ evicted'[i] \in Ids' \ DOMAIN tree'
                                  /\ outcome'[evicted'[i]] # NoOutcome
  <2>1. \A d \in Range(evicted) : d \in Ids \ DOMAIN tree /\ outcome[d] # NoOutcome
    BY DEF LedgerInv, Range
  <2>2. \A d \in out : outcome[d] # NoOutcome
    BY <1>8 DEF LedgerInv
  <2>3. \A d \in Range(evicted') : d \in Ids \ DOMAIN tree' /\ outcome'[d] # NoOutcome
    BY <1>2, <1>3, <1>8, <1>9, <1>10, <2>1, <2>2
  <2> QED BY <1>13, <2>3 DEF Range
<1>19. DOMAIN tree' \subseteq Ids' /\ Len(outcome') = Len(command')
  BY <1>3, <1>10, <1>13 DEF LedgerInv
<1> QED BY <1>3, <1>7, <1>9, <1>11, <1>12, <1>14, <1>15, <1>16, <1>17, <1>18, <1>19 DEF LedgerInv

LEMMA LedgerStep == FlowInv /\ LedgerInv /\ [Next]_vars => LedgerInv'
<1> SUFFICES ASSUME FlowInv, LedgerInv, [Next]_vars PROVE LedgerInv'
  OBVIOUS
<1>1. CASE Submits
  BY <1>1, LedgerEnqueue DEF Submits
<1>2. ASSUME UNCHANGED <<command, ledgerVars>> PROVE LedgerInv'
  BY <1>2 DEF LedgerInv, ledgerVars, Ids, Range, Unrepeated
<1>3. CASE Records
  <2>1. UNCHANGED command
    BY <1>3 DEF Records
  <2>2. CASE UNCHANGED ledgerVars
    BY <1>2, <2>1, <2>2
  <2>3. CASE ~UNCHANGED ledgerVars
    <3>1. PICK c \in Ids, s \in Statuses : Record(c, s)
      BY <1>3, <2>3 DEF Records
    <3>2. c \in DOMAIN ledger /\ Commit(c, s)
      BY <2>3, <3>1, OnlyLiveCommit
    <3>3. s \in Live \/ s \in Terminal
      BY DEF Live
    <3> QED BY <2>1, <3>2, <3>3, LedgerLiveCommit, LedgerTerminalCommit
  <2> QED BY <2>2, <2>3
<1> QED BY <1>1, <1>3, EveryLedgerStep

LEMMA LedgerInvariant == Spec => [](FlowInv /\ LedgerInv)
<1>1. Init => LedgerInv
  <2> SUFFICES ASSUME Init PROVE LedgerInv
    OBVIOUS
  <2>1. /\ Len(<< >>) = 0 /\ DOMAIN << >> = {} /\ \A T : << >> \in Seq(T)
        /\ \A T : << >> \in [{} -> T]
    OBVIOUS
  <2>2. Ids = {} /\ Range(<< >>) = {}
    BY <2>1 DEF Init, Ids, Range
  <2> QED BY <2>1, <2>2, FlowAssumption DEF Init, LedgerInv, Unrepeated
<1> QED BY <1>1, FlowInvariant, LedgerStep, PTL DEF Spec

(* However submissions, flushes, answers, cancellations and recoveries     *)
(* interleave, the ledger and the rows of the state tree agree after every *)
(* commit, and what is kept of finished commands stays within the limit.   *)
THEOREM LedgerAgreesWithTree == Spec => []LedgerMatchesTree
<1>1. FlowInv /\ LedgerInv => LedgerMatchesTree
  <2> SUFFICES ASSUME FlowInv, LedgerInv PROVE LedgerMatchesTree
    OBVIOUS
  <2>1. /\ Cardinality(Range(retained)) = Len(retained)
        /\ Cardinality(Range(evicted)) = Len(evicted)
    BY UnrepeatedCardinality DEF LedgerInv
  <2>2. \A c \in Range(retained) : tree[c] = outcome[c]
    BY DEF LedgerInv, Live
  <2>3. Range(evicted) \cap DOMAIN tree = {}
    BY DEF LedgerInv, Range
  <2> QED BY <2>1, <2>2, <2>3 DEF LedgerInv, LedgerMatchesTree
<1> QED BY <1>1, LedgerInvariant, PTL

(* A command that has its outcome keeps it: no later answer, failure,      *)
(* cancellation or recovery gives it another, and its row is not written   *)
(* again, only removed.                                                    *)
THEOREM OutcomeIsFinal == Spec => TerminalIsFinal
<1> DEFINE Final == \A c \in Ids : outcome[c] # NoOutcome =>
              /\ outcome'[c] = outcome[c]
              /\ c \in DOMAIN tree' => c \in DOMAIN tree /\ tree'[c] = tree[c]
<1>1. FlowInv /\ LedgerInv /\ [Next]_vars => Final
  <2> SUFFICES ASSUME FlowInv, LedgerInv, [Next]_vars,
                      NEW c \in Ids, outcome[c] # NoOutcome
               PROVE  /\ outcome'[c] = outcome[c]
                      /\ c \in DOMAIN tree' => c \in DOMAIN tree /\ tree'[c] = tree[c]
    OBVIOUS
  <2>1. CASE Submits
    <3>1. outcome' = Append(outcome, NoOutcome) /\ tree' = tree
      BY <2>1 DEF Submits, Enqueue
    <3>2. outcome \in Seq(Terminal \cup {NoOutcome}) /\ Ids = 1 .. Len(outcome)
      BY DEF LedgerInv, Ids
    <3>3. outcome'[c] = outcome[c]
      BY <3>1, <3>2, AppendFacts
    <3> QED BY <3>1, <3>3
  <2>2. CASE Records /\ ~UNCHANGED ledgerVars
    <3>1. PICK d \in Ids, s \in Statuses : Record(d, s)
      BY <2>2 DEF Records
    <3>2. d \in DOMAIN ledger /\ Commit(d, s)
      BY <2>2, <3>1, OnlyLiveCommit
    <3>3. c # d
      BY <3>2 DEF LedgerInv
    <3>4. c \in DOMAIN tree' => c \in DOMAIN tree /\ tree'[c] = tree[c]
      BY <3>2, <3>3 DEF Commit
    <3>5. outcome' = outcome \/ outcome' = [outcome EXCEPT ![d] = s]
      BY <3>2 DEF Commit
    <3>6. outcome'[c] = outcome[c]
      <4>1. c \in DOMAIN outcome
        BY LenProperties DEF LedgerInv, Ids
      <4> QED BY <3>3, <3>5, <4>1
    <3> QED BY <3>4, <3>6
  <2>3. CASE UNCHANGED ledgerVars
    BY <2>3 DEF ledgerVars
  <2> QED BY <2>1, <2>2, <2>3, EveryLedgerStep
<1>2. FlowInv /\ LedgerInv /\ [Next]_vars => [Final]_vars
  BY <1>1
<1> QED BY <1>2, LedgerInvariant, PTL DEF Spec, TerminalIsFinal

(* Whatever statuses others record through the handle, an outcome that the *)
(* session runtime records for an insert_order or cancel_order is that of  *)
(* its order in the state tree: completed or rejected only by a finished   *)
(* order, and which of the two by whether the exchange had accepted it.    *)
THEOREM OutcomeAgreesWithOrder == Spec => []OutcomeMatchesOrder
<1> DEFINE Agrees(c) ==
        LET order == orders[command[c].order]
        IN  /\ command[c].kind \in {"insert", "cancel"} /\ outcome[c] = "completed" =>
                   /\ order.status = "FINISHED"
                   /\ command[c].kind = "insert" => order.onExchange
            /\ outcome[c] = "rejected" => order.status = "FINISHED" /\ ~order.onExchange
<1>1. Init => OutcomeMatchesOrder
  <2> SUFFICES ASSUME Init PROVE Ids = {}
    BY DEF OutcomeMatchesOrder
  <2> QED BY DEF Init, Ids
<1>2. FlowInv /\ LedgerInv /\ OutcomeMatchesOrder /\ [Next]_vars => OutcomeMatchesOrder'
  <2> SUFFICES ASSUME FlowInv, LedgerInv, OutcomeMatchesOrder, [Next]_vars, NEW c \in Ids',
                      c \notin outside'
               PROVE  Agrees(c)'
    BY DEF OutcomeMatchesOrder
  <2>1. FinishedKept /\ (Records \/ Submits)
    BY EveryLedgerStep
  <2>2. ASSUME c \in Ids, command'[c] = command[c], outcome'[c] = outcome[c]
        PROVE  Agrees(c)'
    <3>1. command[c] \in CommandType
      BY <2>2, ElementOfSeq DEF Ids, FlowInv, FlowType
    <3>2. command[c].order \in Orders
      BY <3>1 DEF CommandType
    <3>3. Agrees(c)
      BY <2>1, <2>2 DEF OutcomeMatchesOrder, FinishedKept
    <3> QED BY <2>1, <2>2, <3>2, <3>3 DEF FinishedKept
  <2>3. CASE Submits
    <3>1. PICK kind \in AllKinds, order \in Orders : Enqueue(kind, order)
      BY <2>3 DEF Submits
    <3> DEFINE n == Len(command) + 1
    <3>2. /\ n \in Nat \ {0} /\ Ids = 1 .. n - 1 /\ Ids' = 1 .. n
          /\ \A d \in Ids : command'[d] = command[d]
      BY <3>1, EnqueueFacts
    <3>3. outcome' = Append(outcome, NoOutcome) /\ Len(outcome) = n - 1
          /\ outcome \in Seq(Terminal \cup {NoOutcome}) /\ Ids = 1 .. Len(outcome)
      BY <3>1, <3>2 DEF Enqueue, LedgerInv, Ids
    <3>4. outcome'[Len(outcome) + 1] = NoOutcome /\ \A d \in Ids : outcome'[d] = outcome[d]
      BY <3>3, AppendFacts
    <3> HIDE DEF n
    <3>5. CASE c \in Ids
      BY <2>2, <3>2, <3>4, <3>5
    <3>6. CASE c \notin Ids
      <4>1. c = Len(outcome) + 1
        BY <3>2, <3>3, <3>6
      <4> QED BY <3>4, <4>1 DEF NoOutcome
    <3> QED BY <3>5, <3>6
  <2>4. CASE Records
    <3>1. command' = command /\ c \in Ids
      BY <2>4 DEF Records, Ids
    <3>2. CASE UNCHANGED ledgerVars
      BY <2>2, <3>1, <3>2 DEF ledgerVars
    <3>3. CASE ~UNCHANGED ledgerVars
      <4>1. PICK d \in Ids, s \in Statuses : Record(d, s) /\ Supported(d, s)
        BY <2>4, <3>3 DEF Records
      <4>2. d \in DOMAIN ledger /\ Commit(d, s)
        BY <3>3, <4>1, OnlyLiveCommit
      <4>3. outcome' = outcome \/ outcome' = [outcome EXCEPT ![d] = s]
        BY <4>2 DEF Commit
      <4>4. DOMAIN outcome = Ids
        BY LenProperties DEF LedgerInv, Ids
      <4>5. outcome'[c] = outcome[c] \/ (c = d /\ outcome'[c] = s)
        BY <3>1, <4>3, <4>4
      <4>6. CASE c = d /\ outcome'[c] = s
        BY <3>1, <4>1, <4>6 DEF Supported
      <4> QED BY <2>2, <3>1, <4>5, <4>6
    <3> QED BY <3>2, <3>3
  <2> QED BY <2>1, <2>3, <2>4
<1> QED BY <1>1, <1>2, LedgerInvariant, PTL DEF Spec
=============================================================================
