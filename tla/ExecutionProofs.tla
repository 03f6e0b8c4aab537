-------------------------- MODULE ExecutionProofs --------------------------
(***************************************************************************)
(* Proofs about Execution for every room in the queues, every limit, every *)
(* span of the clocks and every bound: the type invariant, PriceFresh,     *)
(* CommandsAccounted and the action property SettledOnce.                  *)
(*                                                                         *)
(* A command is named by its place, so "once and in order" says that what  *)
(* was sent, what is in hand and what is queued count up to what was       *)
(* accepted.  That a report is lost only with its order sent, and that no  *)
(* command is lost with the thread that carries it, needs where each       *)
(* thread is in its life.                                                  *)
(***************************************************************************)
EXTENDS Execution, SequenceTheorems, FiniteSetTheorems, TLAPS

(* The I/O thread lives from connect() until disconnect() has joined it.   *)
ThreadLife ==
    /\ hpc = "join" => ~running
    /\ iopc = "none" <=> ~running /\ hpc # "join"

(* What was sent, what is in hand and what is queued, in order.            *)
InOrder ==
    /\ Len(sent) + (IF iopc = "send" THEN 1 ELSE 0) + Len(orderQ) = Len(accepted)
    /\ \A i \in 1 .. Len(sent) : sent[i] = i
    /\ iopc = "send" => inHand = Len(sent) + 1
    /\ \A i \in 1 .. Len(orderQ) : orderQ[i] = Len(accepted) - Len(orderQ) + i

(* The order being reported is the last command sent.                      *)
Reporting ==
    iopc = "report" =>
        /\ Len(sent) >= 1 /\ inHand = Len(sent)
        /\ accepted[inHand].kind = "new"

(* The reports that arrived, or are about to, count up, the lost ones are  *)
(* others, and together with the one to come they answer what was posted.  *)
ReportsCount ==
    /\ \A i, j \in 1 .. Len(Arriving) : i < j => Arriving[i] < Arriving[j]
    /\ Posted = RangeOf(Arriving) \cup lost \cup Unanswered
    /\ \A c \in RangeOf(Arriving) \cup lost : iopc = "report" => c < inHand
    /\ IsFiniteSet(lost)
    /\ Len(Arriving) + Cardinality(lost) + Cardinality(Unanswered) = Cardinality(Posted)

(* No order got past the guards on a stale price.                          *)
AcceptedFresh == \A c \in RangeOf(accepted) : c.kind = "new" => c.age \in 0 .. StaleAfter

RoutingInv == TypeOK /\ ThreadLife /\ InOrder /\ Reporting /\ ReportsCount /\ AcceptedFresh

(* Each paper order: untouched while NEW, and what is filled is all of it. *)
PaperOrders ==
    [order : [type : Types, side : Sides, price : LimitPrices \cup {0}, qty : Qtys],
     status : {"NEW", "FILLED", "CANCELED"}, filled : Nat, avg : Nat]

Settling(o) ==
    /\ o.status = "NEW" => o.filled = 0
    /\ o.filled > 0 => o.filled = o.order.qty /\ (o.order.type = "STOP_LOSS" => Beyond(o))

PaperInv ==
    /\ active \in [Ids -> PaperOrders \cup {NoOrder}]
    /\ \A id \in Ids : active[id] # NoOrder => Settling(active[id])

PlacedFresh ==
    /\ placed \in Seq([id : Ids, age : Int])
    /\ \A p \in RangeOf(placed) : p.age \in 0 .. StaleAfter

IInv == RoutingInv /\ PaperInv /\ PlacedFresh

----------------------------------------------------------------------------
(* Sequences: what appending does to the elements and to a concatenation.  *)

LEMMA AppendFacts ==
    ASSUME NEW S, NEW s \in Seq(S), NEW x \in S
    PROVE  /\ Append(s, x) \in Seq(S) /\ Len(Append(s, x)) = Len(s) + 1
           /\ \A i \in 1 .. Len(s) : Append(s, x)[i] = s[i]
           /\ Append(s, x)[Len(s) + 1] = x
           /\ RangeOf(Append(s, x)) = RangeOf(s) \cup {x}
<1>1. /\ Append(s, x) \in Seq(S) /\ Len(Append(s, x)) = Len(s) + 1 /\ Len(s) \in Nat
      /\ \A i \in 1 .. Len(s) : Append(s, x)[i] = s[i]
      /\ Append(s, x)[Len(s) + 1] = x
  OBVIOUS
<1>2. DOMAIN s = 1 .. Len(s) /\ DOMAIN Append(s, x) = 1 .. Len(s) + 1
  BY <1>1, LenProperties
<1>3. RangeOf(Append(s, x)) \subseteq RangeOf(s) \cup {x}
  BY <1>1, <1>2 DEF RangeOf
<1>4. RangeOf(s) \cup {x} \subseteq RangeOf(Append(s, x))
  <2>1. Len(s) + 1 \in DOMAIN Append(s, x) /\ DOMAIN s \subseteq DOMAIN Append(s, x)
    BY <1>1, <1>2
  <2>2. QED
    BY <1>1, <1>2, <2>1 DEF RangeOf
<1>5. QED
  BY <1>1, <1>3, <1>4

LEMMA RangeFacts ==
    ASSUME NEW S, NEW s \in Seq(S)
    PROVE  /\ \A i \in 1 .. Len(s) : s[i] \in RangeOf(s)
           /\ \A c \in RangeOf(s) : \E i \in 1 .. Len(s) : s[i] = c
           /\ RangeOf(s) \subseteq S
<1>1. DOMAIN s = 1 .. Len(s) /\ s \in [1 .. Len(s) -> S]
  BY LenProperties
<1>2. QED
  BY <1>1 DEF RangeOf

LEMMA AppendConcat ==
    ASSUME NEW S, NEW s \in Seq(S), NEW t \in Seq(S), NEW x \in S
    PROVE  s \o Append(t, x) = Append(s \o t, x)
<1>1. Append(t, x) \in Seq(S) /\ Len(Append(t, x)) = Len(t) + 1
      /\ Len(s) \in Nat /\ Len(t) \in Nat
  OBVIOUS
<1>2. /\ s \o t \in Seq(S) /\ Len(s \o t) = Len(s) + Len(t)
      /\ \A i \in 1 .. Len(s) + Len(t) :
            (s \o t)[i] = IF i <= Len(s) THEN s[i] ELSE t[i - Len(s)]
  BY ConcatProperties
<1>3. /\ s \o Append(t, x) \in Seq(S) /\ Len(s \o Append(t, x)) = Len(s) + Len(t) + 1
      /\ \A i \in 1 .. Len(s) + Len(t) + 1 :
            (s \o Append(t, x))[i] = IF i <= Len(s) THEN s[i] ELSE Append(t, x)[i - Len(s)]
  BY <1>1, ConcatProperties
<1>4. /\ Append(s \o t, x) \in Seq(S) /\ Len(Append(s \o t, x)) = Len(s) + Len(t) + 1
      /\ \A i \in 1 .. Len(s) + Len(t) : Append(s \o t, x)[i] = (s \o t)[i]
      /\ Append(s \o t, x)[Len(s) + Len(t) + 1] = x
  BY <1>2
<1>5. ASSUME NEW i \in 1 .. Len(s) + Len(t) + 1
      PROVE  (s \o Append(t, x))[i] = Append(s \o t, x)[i]
  <2>1. CASE i <= Len(s)
    BY <1>1, <1>2, <1>3, <1>4, <2>1
  <2>2. CASE i > Len(s) /\ i <= Len(s) + Len(t)
    <3>1. i - Len(s) \in 1 .. Len(t)
      BY <1>1, <2>2
    <3>2. Append(t, x)[i - Len(s)] = t[i - Len(s)]
      BY <3>1
    <3>3. QED
      BY <1>1, <1>2, <1>3, <1>4, <2>2, <3>2
  <2>3. CASE i = Len(s) + Len(t) + 1
    <3>1. i - Len(s) = Len(t) + 1 /\ Append(t, x)[Len(t) + 1] = x
      BY <1>1, <2>3
    <3>2. QED
      BY <1>1, <1>3, <1>4, <2>3, <3>1
  <2>4. QED
    BY <1>1, <2>1, <2>2, <2>3
<1>6. QED
  BY <1>3, <1>4, <1>5, SeqEqual

LEMMA HeadMoves ==
    ASSUME NEW S, NEW s \in Seq(S), NEW t \in Seq(S), t # <<>>
    PROVE  Append(s, Head(t)) \o Tail(t) = s \o t
<1>1. /\ Head(t) \in S /\ Tail(t) \in Seq(S) /\ Len(Tail(t)) = Len(t) - 1
      /\ Len(t) \in Nat /\ Len(t) >= 1 /\ Len(s) \in Nat
      /\ Head(t) = t[1] /\ \A i \in 1 .. Len(t) - 1 : Tail(t)[i] = t[i + 1]
  OBVIOUS
<1>2. /\ Append(s, Head(t)) \in Seq(S) /\ Len(Append(s, Head(t))) = Len(s) + 1
      /\ \A i \in 1 .. Len(s) : Append(s, Head(t))[i] = s[i]
      /\ Append(s, Head(t))[Len(s) + 1] = Head(t)
  BY <1>1, AppendFacts
<1>3. /\ s \o t \in Seq(S) /\ Len(s \o t) = Len(s) + Len(t)
      /\ \A i \in 1 .. Len(s) + Len(t) :
            (s \o t)[i] = IF i <= Len(s) THEN s[i] ELSE t[i - Len(s)]
  BY ConcatProperties
<1> DEFINE u == Append(s, Head(t))
           v == Tail(t)
<1>4. /\ u \o v \in Seq(S) /\ Len(u \o v) = Len(u) + Len(v)
      /\ \A i \in 1 .. Len(u) + Len(v) :
            (u \o v)[i] = IF i <= Len(u) THEN u[i] ELSE v[i - Len(u)]
  BY <1>1, <1>2, ConcatProperties
<1>5. Len(u) + Len(v) = Len(s) + Len(t)
  BY <1>1, <1>2
<1>6. ASSUME NEW i \in 1 .. Len(s) + Len(t) PROVE (u \o v)[i] = (s \o t)[i]
  <2>1. CASE i <= Len(s)
    BY <1>1, <1>2, <1>3, <1>4, <1>5, <2>1
  <2>2. CASE i = Len(s) + 1
    BY <1>1, <1>2, <1>3, <1>4, <1>5, <2>2
  <2>3. CASE i > Len(s) + 1
    <3>1. i - Len(u) \in 1 .. Len(t) - 1 /\ i - Len(u) + 1 = i - Len(s)
      BY <1>1, <1>2, <2>3
    <3>2. v[i - Len(u)] = t[i - Len(s)]
      BY <1>1, <3>1
    <3> HIDE DEF u, v
    <3>3. QED
      BY <1>1, <1>2, <1>3, <1>4, <1>5, <2>3, <3>1, <3>2
  <2>4. QED
    BY <1>1, <2>1, <2>2, <2>3
<1>7. QED
  BY <1>3, <1>4, <1>5, <1>6, SeqEqual

----------------------------------------------------------------------------
(* What the invariant says of the histories.                               *)

LEMMA RoutingFacts ==
    ASSUME TypeOK, InOrder
    PROVE  /\ Len(sent) \in Nat /\ Len(accepted) \in Nat /\ Len(orderQ) \in Nat
           /\ Len(sent) <= Len(accepted)
           /\ RangeOf(sent) = 1 .. Len(sent)
           /\ Posted = {c \in 1 .. Len(sent) : accepted[c].kind = "new"}
           /\ IsFiniteSet(Posted)
           /\ Arriving \in Seq(Commands) /\ Len(Arriving) \in Nat
<1>1. /\ sent \in Seq(Commands) /\ accepted \in Seq(Orders \cup Cancels)
      /\ orderQ \in Seq(Commands) /\ reported \in Seq(Commands) /\ reportQ \in Seq(Commands)
  BY DEF TypeOK
<1>2. Len(sent) \in Nat /\ Len(accepted) \in Nat /\ Len(orderQ) \in Nat
  BY <1>1
<1>3. Len(sent) <= Len(accepted)
  BY <1>2 DEF InOrder
<1>4. RangeOf(sent) = 1 .. Len(sent)
  <2>1. DOMAIN sent = 1 .. Len(sent)
    BY <1>1, LenProperties
  <2>2. QED
    BY <2>1 DEF RangeOf, InOrder
<1>5. Posted = {c \in 1 .. Len(sent) : accepted[c].kind = "new"}
  BY <1>4 DEF Posted
<1>6. IsFiniteSet(Posted)
  <2>1. IsFiniteSet(1 .. Len(sent))
    BY <1>2, FS_Interval
  <2>2. Posted \in SUBSET (1 .. Len(sent))
    BY <1>5
  <2>3. QED
    BY <2>1, <2>2, FS_Subset
<1>7. Arriving \in Seq(Commands) /\ Len(Arriving) \in Nat
  BY <1>1, ConcatProperties DEF Arriving
<1>8. QED
  BY <1>2, <1>3, <1>4, <1>5, <1>6, <1>7

(* Division with remainder, of a negative number too.                      *)
LEMMA IntDivMod ==
    ASSUME NEW n \in Nat, n >= 1, NEW a \in Int
    PROVE  /\ a = (n * (a \div n)) + (a % n)
           /\ a % n \in 0 .. n - 1
           /\ a \div n \in Int
  OBVIOUS

(* An order let through is no older than it may be: a clock behind the     *)
(* feed's, or no tick at all, makes the unsigned age huge.                 *)
LEMMA FreshAge ==
    ASSUME NEW now \in Times, lastTick \in Times \cup {0}, ~IsPriceStale(now)
    PROVE  now - lastTick \in 0 .. StaleAfter
<1> DEFINE n == TimeSpan
           d == now - lastTick
<1>1. /\ n \in Nat /\ n >= 1 /\ StaleAfter \in Nat
      /\ now \in StaleAfter + 1 .. n - 1
      /\ lastTick \in (StaleAfter + 1 .. n - 1) \cup {0}
  BY TimeAssumption, LimitAssumption
<1>2. now \in Nat /\ lastTick \in Nat /\ d \in Int /\ d < n /\ d + n > StaleAfter
  BY <1>1
<1>3. d % n \in Int /\ d % n <= StaleAfter
  BY <1>1, <1>2 DEF IsPriceStale
<1>4. d = (n * (d \div n)) + (d % n) /\ d \div n \in Int /\ d % n \in 0 .. n - 1
  BY <1>1, <1>2, IntDivMod
<1> HIDE DEF d, n
<1>5. CASE d >= 0
  <2>1. d \div n = 0
    BY <1>1, <1>2, <1>4, <1>5
  <2>2. d % n = d
    BY <1>1, <1>2, <1>4, <2>1
  <2>3. QED
    BY <1>1, <1>2, <1>3, <1>5, <2>2 DEF d
<1>6. CASE d < 0
  <2>1. d > 0 - n
    BY <1>1, <1>2 DEF d
  <2>2. d \div n = -1
    BY <1>1, <1>2, <1>4, <1>6, <2>1
  <2>3. d % n = d + n
    BY <1>1, <1>2, <1>4, <2>2
  <2>4. QED
    BY <1>1, <1>2, <1>3, <2>3
<1>7. QED
  BY <1>2, <1>5, <1>6

----------------------------------------------------------------------------
(* Steps that move no command and no report.                               *)
LEMMA QuietStep ==
    ASSUME RoutingInv, UNCHANGED <<orderQ, reportQ, inHand, history>>,
           iopc' = iopc \/ {iopc, iopc'} \cap {"send", "report"} = {}
    PROVE  InOrder' /\ Reporting' /\ ReportsCount' /\ AcceptedFresh'
<1> USE DEF RoutingInv, history
<1>1. (iopc' = "send" <=> iopc = "send") /\ (iopc' = "report" <=> iopc = "report")
  OBVIOUS
<1>2. InOrder' /\ Reporting' /\ AcceptedFresh'
  BY <1>1 DEF InOrder, Reporting, AcceptedFresh, RangeOf
<1>3. Arriving' = Arriving /\ Posted' = Posted /\ Unanswered' = Unanswered
  BY <1>1 DEF Arriving, Posted, RangeOf, Unanswered
<1>4. ReportsCount'
  BY <1>1, <1>3 DEF ReportsCount, RangeOf
<1>5. QED
  BY <1>2, <1>4

LEMMA ConnectStep == ASSUME RoutingInv, Connect PROVE RoutingInv'
<1> USE DEF RoutingInv, Connect
<1>1. iopc = "none" /\ iopc' = "check"
  BY DEF ThreadLife
<1>2. TypeOK'
  <2>1. connects' \in 0 .. MaxConnects
    BY BoundAssumption DEF TypeOK
  <2>2. QED
    BY <2>1 DEF TypeOK, history
<1>3. ThreadLife'
  BY DEF ThreadLife
<1>4. QED
  BY <1>1, <1>2, <1>3, QuietStep

LEMMA TradingQuiet ==
    ASSUME RoutingInv,
           (\E t \in Times : OnTick(t)) \/ PollCall \/ PollReturn \/ Disconnect \/ Joined
    PROVE  RoutingInv'
<1> USE DEF RoutingInv, OnTick, PollCall, PollReturn, Disconnect, Joined
<1>1. /\ UNCHANGED <<orderQ, reportQ, inHand, history>>
      /\ iopc' = iopc \/ {iopc, iopc'} \cap {"send", "report"} = {}
  OBVIOUS
<1>2. TypeOK'
  BY DEF TypeOK, history
<1>3. ThreadLife'
  BY DEF ThreadLife
<1>4. QED
  BY <1>1, <1>2, <1>3, QuietStep

LEMMA IoQuiet == ASSUME RoutingInv, IoCheck \/ IoEmpty PROVE RoutingInv'
<1> USE DEF RoutingInv, IoCheck, IoEmpty
<1>1. /\ UNCHANGED <<orderQ, reportQ, inHand, history>>
      /\ {iopc, iopc'} \cap {"send", "report"} = {}
  OBVIOUS
<1>2. TypeOK'
  BY DEF TypeOK, history, trading
<1>3. ThreadLife'
  BY DEF ThreadLife, trading
<1>4. QED
  BY <1>1, <1>2, <1>3, QuietStep

(* A command is accepted: it queues behind all others.                     *)
LEMMA EnqueueStep ==
    ASSUME RoutingInv, NEW command \in Orders \cup Cancels, Enqueue(command),
           UNCHANGED <<trading, reportQ, iopc, inHand, sent, reported, lost>>,
           command.kind = "new" => command.age \in 0 .. StaleAfter
    PROVE  RoutingInv'
<1> USE DEF RoutingInv, trading
<1>1. /\ accepted \in Seq(Orders \cup Cancels) /\ orderQ \in Seq(Commands)
      /\ accepted' = Append(accepted, command) /\ Len(accepted) < MaxCommands
      /\ orderQ' = Append(orderQ, Len(accepted) + 1) /\ Len(orderQ) < QueueRoom
  BY DEF TypeOK, Enqueue
<1>2. /\ accepted' \in Seq(Orders \cup Cancels) /\ Len(accepted') = Len(accepted) + 1
      /\ \A i \in 1 .. Len(accepted) : accepted'[i] = accepted[i]
      /\ RangeOf(accepted') = RangeOf(accepted) \cup {command}
      /\ Len(accepted) \in Nat
  BY <1>1, AppendFacts
<1>3. Len(accepted) + 1 \in Commands
  BY <1>1, <1>2, BoundAssumption DEF Commands
<1>4. /\ orderQ' \in Seq(Commands) /\ Len(orderQ') = Len(orderQ) + 1 /\ Len(orderQ) \in Nat
      /\ \A i \in 1 .. Len(orderQ) : orderQ'[i] = orderQ[i]
      /\ orderQ'[Len(orderQ) + 1] = Len(accepted) + 1
  BY <1>1, <1>3, AppendFacts
<1>5. Len(orderQ') <= QueueRoom
  BY <1>1, <1>4, RoomAssumption
<1>6. TypeOK'
  BY <1>2, <1>4, <1>5 DEF TypeOK
<1>7. ThreadLife'
  BY DEF ThreadLife
<1>8. InOrder'
  <2>1. ASSUME NEW i \in 1 .. Len(orderQ')
        PROVE  orderQ'[i] = Len(accepted') - Len(orderQ') + i
    <3>1. CASE i \in 1 .. Len(orderQ)
      BY <1>2, <1>4, <3>1 DEF InOrder
    <3>2. CASE i = Len(orderQ) + 1
      BY <1>2, <1>4, <3>2
    <3>3. QED
      BY <1>4, <2>1, <3>1, <3>2
  <2>2. Len(sent) \in Nat
    BY RoutingFacts
  <2>3. Len(sent') + (IF iopc' = "send" THEN 1 ELSE 0) + Len(orderQ') = Len(accepted')
    <3> DEFINE k == IF iopc = "send" THEN 1 ELSE 0
    <3>1. Len(sent) + k + Len(orderQ) = Len(accepted)
      BY DEF InOrder
    <3>2. k \in Nat
      OBVIOUS
    <3> HIDE DEF k
    <3>3. Len(orderQ') = Len(orderQ) + 1 /\ Len(accepted') = Len(accepted) + 1
      BY <1>2, <1>4
    <3>4. Len(orderQ) \in Nat /\ Len(accepted) \in Nat
      BY <1>2, <1>4
    <3>5. Len(sent) + k + Len(orderQ') = Len(accepted')
      BY <2>2, <3>1, <3>2, <3>3, <3>4
    <3>6. QED
      BY <3>5 DEF k
  <2>4. QED
    BY <2>1, <2>3 DEF InOrder
<1>9. Len(sent) \in Nat /\ Len(sent) <= Len(accepted)
  BY RoutingFacts
<1>10. Reporting'
  BY <1>2, <1>9 DEF Reporting
<1>11. Posted' = Posted
  <2>1. \A c \in 1 .. Len(sent) : accepted'[c] = accepted[c]
    BY <1>2, <1>9
  <2>2. Posted = {c \in 1 .. Len(sent) : accepted[c].kind = "new"}
    BY RoutingFacts
  <2>3. RangeOf(sent) = 1 .. Len(sent)
    BY RoutingFacts
  <2>4. Posted' = {c \in 1 .. Len(sent) : accepted'[c].kind = "new"}
    BY <2>3 DEF Posted, RangeOf
  <2>5. QED
    BY <2>1, <2>2, <2>4
<1>12. ReportsCount'
  <2>1. Arriving' = Arriving /\ Unanswered' = Unanswered
    BY DEF Arriving, Unanswered
  <2>2. QED
    BY <1>11, <2>1 DEF ReportsCount, RangeOf
<1>13. AcceptedFresh'
  BY <1>2 DEF AcceptedFresh
<1>14. QED
  BY <1>6, <1>7, <1>8, <1>10, <1>12, <1>13

LEMMA PlaceOrderStep ==
    ASSUME RoutingInv, NEW halted \in BOOLEAN, NEW loss \in Losses, NEW qty \in Qtys,
           NEW now \in Times, PlaceOrder(halted, loss, qty, now)
    PROVE  RoutingInv'
<1> DEFINE command == [kind |-> "new", age |-> now - lastTick]
<1>1. now - lastTick \in 0 .. StaleAfter
  BY FreshAge DEF PlaceOrder, Passes, RoutingInv, TypeOK
<1>2. command \in Orders
  BY <1>1, LimitAssumption DEF Orders
<1>3. QED
  BY <1>1, <1>2, EnqueueStep DEF PlaceOrder

LEMMA CancelOrderStep == ASSUME RoutingInv, CancelOrder PROVE RoutingInv'
BY EnqueueStep DEF CancelOrder, Cancels

(* The I/O thread takes the oldest command queued, which is the next.      *)
LEMMA IoPopStep == ASSUME RoutingInv, IoPop PROVE RoutingInv'
<1> USE DEF RoutingInv, IoPop, trading, history
<1>1. /\ orderQ \in Seq(Commands) /\ orderQ # <<>> /\ Len(orderQ) <= QueueRoom
  BY DEF TypeOK
<1>2. /\ Len(orderQ) \in Nat /\ Len(orderQ) >= 1 /\ inHand' = orderQ[1]
      /\ inHand' \in Commands /\ orderQ' \in Seq(Commands)
      /\ Len(orderQ') = Len(orderQ) - 1
      /\ \A i \in 1 .. Len(orderQ) - 1 : orderQ'[i] = orderQ[i + 1]
  BY <1>1
<1>3. Len(sent) \in Nat /\ Len(accepted) \in Nat
  BY RoutingFacts
<1>4. TypeOK'
  <2>1. Len(orderQ') <= QueueRoom
    BY <1>1, <1>2, RoomAssumption
  <2>2. QED
    BY <1>2, <2>1 DEF TypeOK
<1>5. ThreadLife'
  BY DEF ThreadLife
<1>6. InOrder'
  <2>1. Len(sent) + Len(orderQ) = Len(accepted)
    BY <1>2, <1>3 DEF InOrder
  <2>2. inHand' = Len(sent) + 1
    BY <1>2, <1>3, <2>1 DEF InOrder
  <2>3. ASSUME NEW i \in 1 .. Len(orderQ')
        PROVE  orderQ'[i] = Len(accepted) - Len(orderQ') + i
    <3>1. i \in 1 .. Len(orderQ) - 1 /\ i + 1 \in 1 .. Len(orderQ)
      BY <1>2
    <3>2. orderQ[i + 1] = Len(accepted) - Len(orderQ) + (i + 1)
      BY <3>1 DEF InOrder
    <3>3. QED
      BY <1>2, <1>3, <3>1, <3>2
  <2>4. QED
    BY <1>2, <1>3, <2>1, <2>2, <2>3 DEF InOrder
<1>7. Reporting' /\ AcceptedFresh'
  BY DEF Reporting, AcceptedFresh, RangeOf
<1>8. ReportsCount'
  <2>1. Arriving' = Arriving /\ Posted' = Posted /\ Unanswered' = Unanswered
    BY DEF Arriving, Posted, RangeOf, Unanswered
  <2>2. QED
    BY <2>1 DEF ReportsCount, RangeOf
<1>9. QED
  BY <1>4, <1>5, <1>6, <1>7, <1>8

(* It sends the command in hand, which becomes the last one sent; an order *)
(* is then to be answered.                                                 *)
LEMMA IoSendStep == ASSUME RoutingInv, IoSend PROVE RoutingInv'
<1> USE DEF RoutingInv, IoSend, trading
<1> DEFINE n == Len(sent) + 1
           isNew == accepted[inHand].kind = "new"
<1>1. /\ Len(sent) \in Nat /\ Len(accepted) \in Nat /\ Len(orderQ) \in Nat
      /\ Len(sent) <= Len(accepted) /\ RangeOf(sent) = 1 .. Len(sent)
      /\ Posted = {c \in 1 .. Len(sent) : accepted[c].kind = "new"}
      /\ IsFiniteSet(Posted) /\ Arriving \in Seq(Commands)
  BY RoutingFacts
<1>2. inHand = n /\ Len(sent) + 1 + Len(orderQ) = Len(accepted)
  BY DEF InOrder
<1>3. n \in 1 .. Len(accepted) /\ inHand \in Commands
  <2>1. inHand \in Commands \cup {0}
    BY DEF TypeOK
  <2>2. QED
    BY <1>1, <1>2, <2>1
<1>4. sent \in Seq(Commands) /\ sent' = Append(sent, n)
  BY <1>2 DEF TypeOK
<1>5. /\ sent' \in Seq(Commands) /\ Len(sent') = n
      /\ \A i \in 1 .. Len(sent) : sent'[i] = sent[i]
      /\ sent'[n] = n
      /\ RangeOf(sent') = RangeOf(sent) \cup {n}
  BY <1>2, <1>3, <1>4, AppendFacts
<1>6. /\ iopc' = IF isNew THEN "report" ELSE "drain"
      /\ inHand' = IF isNew THEN n ELSE 0
  BY <1>2
<1>7. TypeOK'
  <2>1. inHand' \in Commands \cup {0}
    BY <1>2, <1>3, <1>6
  <2>2. QED
    BY <1>5, <1>6, <2>1 DEF TypeOK
<1>8. ThreadLife'
  BY DEF ThreadLife
<1>9. InOrder'
  <2>1. ASSUME NEW i \in 1 .. Len(sent') PROVE sent'[i] = i
    <3>1. CASE i \in 1 .. Len(sent)
      BY <1>5, <3>1 DEF InOrder
    <3>2. CASE i = n
      BY <1>5, <3>2
    <3>3. QED
      BY <1>1, <1>5, <2>1, <3>1, <3>2
  <2>2. iopc' # "send" /\ Len(sent') + 0 + Len(orderQ) = Len(accepted)
    BY <1>1, <1>2, <1>5, <1>6
  <2>3. QED
    BY <2>1, <2>2 DEF InOrder
<1>10. Reporting' /\ AcceptedFresh'
  BY <1>1, <1>2, <1>5, <1>6 DEF Reporting, AcceptedFresh, RangeOf
<1>11. Posted' = IF isNew THEN Posted \cup {n} ELSE Posted
  <2>1. Posted' = {c \in RangeOf(sent') : accepted[c].kind = "new"}
    BY DEF Posted
  <2>2. QED
    BY <1>1, <1>2, <1>5, <2>1
<1>12. Arriving' = Arriving /\ lost' = lost /\ Unanswered = {}
       /\ Unanswered' = IF isNew THEN {n} ELSE {}
  BY <1>6 DEF Arriving, Unanswered
<1>13. \A c \in RangeOf(Arriving) \cup lost : c \in Posted /\ c < n
  BY <1>1 DEF ReportsCount
<1>14. ReportsCount'
  <2> DEFINE a == Len(Arriving)
  <2>1. a \in Nat /\ Cardinality(lost) \in Nat /\ Cardinality(Posted) \in Nat
    BY <1>1, FS_CardinalityType, RoutingFacts DEF ReportsCount
  <2>2. a + Cardinality(lost) + Cardinality(Unanswered) = Cardinality(Posted)
    BY DEF ReportsCount
  <2>3. Cardinality(Unanswered) = 0 /\ (isNew => Cardinality(Unanswered') = 1)
        /\ (~isNew => Cardinality(Unanswered') = 0)
    BY <1>12, FS_EmptySet, FS_Singleton
  <2>4. Cardinality(Posted') = Cardinality(Posted) + (IF isNew THEN 1 ELSE 0)
    <3>1. n \notin Posted
      BY <1>1
    <3>2. Cardinality(Posted \cup {n}) = Cardinality(Posted) + 1
      BY <1>1, <3>1, FS_AddElement
    <3>3. QED
      BY <1>11, <2>1, <3>2
  <2>5. Len(Arriving') + Cardinality(lost') + Cardinality(Unanswered') = Cardinality(Posted')
    <3> HIDE DEF a, isNew
    <3>1. a + Cardinality(lost) + Cardinality(Unanswered') = Cardinality(Posted')
      BY <2>1, <2>2, <2>3, <2>4
    <3>2. QED
      BY <1>12, <3>1 DEF a
  <2>6. Posted' = RangeOf(Arriving') \cup lost' \cup Unanswered'
    BY <1>11, <1>12 DEF ReportsCount
  <2>7. \A c \in RangeOf(Arriving') \cup lost' : iopc' = "report" => c < inHand'
    BY <1>6, <1>12, <1>13
  <2>8. /\ \A i, j \in 1 .. Len(Arriving') : i < j => Arriving'[i] < Arriving'[j]
        /\ IsFiniteSet(lost')
    BY <1>12 DEF ReportsCount
  <2>9. QED
    BY <2>5, <2>6, <2>7, <2>8 DEF ReportsCount
<1>15. QED
  BY <1>7, <1>8, <1>9, <1>10, <1>14

(* It answers the order it sent: the report goes behind all others, or is  *)
(* lost.                                                                   *)
LEMMA IoReportStep == ASSUME RoutingInv, IoReport PROVE RoutingInv'
<1> USE DEF RoutingInv, IoReport, trading
<1>1. /\ inHand = Len(sent) /\ Len(sent) >= 1
      /\ iopc' = "drain" /\ inHand' = 0
      /\ UNCHANGED <<trading, orderQ, accepted, sent, reported>>
  BY DEF Reporting
<1>2. /\ Len(sent) \in Nat /\ Arriving \in Seq(Commands) /\ Len(Arriving) \in Nat
      /\ IsFiniteSet(Posted)
  BY RoutingFacts
<1>3. reportQ \in Seq(Commands) /\ reported \in Seq(Commands) /\ lost \subseteq Commands
      /\ Len(reportQ) <= ReportRoom
  BY DEF TypeOK
<1>4. inHand \in Commands
  <2>1. inHand \in Commands \cup {0}
    BY DEF TypeOK
  <2>2. QED
    BY <1>1, <1>2, <2>1
<1>5. ThreadLife' /\ InOrder' /\ Reporting' /\ AcceptedFresh'
  BY <1>1 DEF ThreadLife, InOrder, Reporting, AcceptedFresh, RangeOf
<1>6. Posted' = Posted /\ Unanswered = {inHand} /\ Unanswered' = {}
  BY <1>1 DEF Posted, RangeOf, Unanswered
<1>7. \A c \in RangeOf(Arriving) \cup lost : c < inHand
  BY DEF ReportsCount
<1>8. /\ Cardinality(Unanswered) = 1 /\ Cardinality(Unanswered') = 0
      /\ Cardinality(lost) \in Nat /\ Cardinality(Posted) \in Nat /\ IsFiniteSet(lost)
  BY <1>2, <1>6, FS_EmptySet, FS_Singleton, FS_CardinalityType DEF ReportsCount
<1>9. /\ Len(Arriving) + Cardinality(lost) + 1 = Cardinality(Posted)
      /\ Posted = RangeOf(Arriving) \cup lost \cup {inHand}
      /\ \A i, j \in 1 .. Len(Arriving) : i < j => Arriving[i] < Arriving[j]
  BY <1>6, <1>8 DEF ReportsCount
<1>10. CASE Len(reportQ) < ReportRoom /\ reportQ' = Append(reportQ, inHand) /\ lost' = lost
  <2>1. reportQ' \in Seq(Commands) /\ Len(reportQ') <= ReportRoom
    BY <1>3, <1>4, <1>10, AppendFacts, RoomAssumption
  <2>2. TypeOK'
    BY <1>1, <1>10, <2>1 DEF TypeOK
  <2>3. Arriving' = Append(Arriving, inHand)
    BY <1>1, <1>3, <1>4, <1>10, AppendConcat DEF Arriving
  <2>4. /\ Len(Arriving') = Len(Arriving) + 1
        /\ \A i \in 1 .. Len(Arriving) : Arriving'[i] = Arriving[i]
        /\ Arriving'[Len(Arriving) + 1] = inHand
        /\ RangeOf(Arriving') = RangeOf(Arriving) \cup {inHand}
    BY <1>2, <1>4, <2>3, AppendFacts
  <2>5. ASSUME NEW i \in 1 .. Len(Arriving'), NEW j \in 1 .. Len(Arriving'), i < j
        PROVE  Arriving'[i] < Arriving'[j]
    <3>1. i \in 1 .. Len(Arriving)
      BY <1>2, <2>4, <2>5
    <3>2. CASE j \in 1 .. Len(Arriving)
      BY <1>9, <2>4, <2>5, <3>1, <3>2
    <3>3. CASE j = Len(Arriving) + 1
      <4>1. Arriving[i] \in RangeOf(Arriving)
        BY <1>2, <3>1, RangeFacts
      <4>2. QED
        BY <1>7, <2>4, <3>1, <3>3, <4>1
    <3>4. QED
      BY <1>2, <2>4, <2>5, <3>2, <3>3
  <2>6. Len(Arriving') + Cardinality(lost') + Cardinality(Unanswered') = Cardinality(Posted')
    BY <1>2, <1>6, <1>8, <1>9, <1>10, <2>4
  <2>7. ReportsCount'
    BY <1>1, <1>6, <1>8, <1>9, <1>10, <2>4, <2>5, <2>6 DEF ReportsCount
  <2>8. QED
    BY <1>5, <2>2, <2>7
<1>11. CASE reportQ' = reportQ /\ lost' = lost \cup {inHand}
  <2>1. TypeOK'
    BY <1>1, <1>3, <1>4, <1>11 DEF TypeOK
  <2>2. Arriving' = Arriving
    BY <1>1, <1>11 DEF Arriving
  <2>3. inHand \notin lost
    <3>1. inHand \in Int
      BY <1>1, <1>2
    <3>2. QED
      BY <1>7, <3>1
  <2>4. IsFiniteSet(lost') /\ Cardinality(lost') = Cardinality(lost) + 1
    BY <1>8, <1>11, <2>3, FS_AddElement
  <2>5. Len(Arriving') + Cardinality(lost') + Cardinality(Unanswered') = Cardinality(Posted')
    BY <1>2, <1>6, <1>8, <1>9, <2>2, <2>4
  <2>6. ReportsCount'
    BY <1>1, <1>6, <1>9, <1>11, <2>2, <2>4, <2>5 DEF ReportsCount
  <2>7. QED
    BY <1>5, <2>1, <2>6
<1>12. QED
  BY <1>10, <1>11

(* Polling a report leaves what has arrived as it was.                     *)
LEMMA PollReportStep == ASSUME RoutingInv, PollReport PROVE RoutingInv'
<1> USE DEF RoutingInv, PollReport, trading
<1>1. /\ reportQ \in Seq(Commands) /\ reported \in Seq(Commands) /\ reportQ # <<>>
      /\ Len(reportQ) <= ReportRoom
  BY DEF TypeOK
<1>2. TypeOK'
  <2>1. /\ reportQ' \in Seq(Commands) /\ reported' \in Seq(Commands)
        /\ Len(reportQ') <= ReportRoom
    <3>1. /\ Head(reportQ) \in Commands /\ Tail(reportQ) \in Seq(Commands)
          /\ Len(Tail(reportQ)) = Len(reportQ) - 1 /\ Len(reportQ) \in Nat
      BY <1>1
    <3>2. QED
      BY <1>1, <3>1, AppendFacts, RoomAssumption
  <2>2. QED
    BY <2>1 DEF TypeOK
<1>3. Arriving' = Arriving
  BY <1>1, HeadMoves DEF Arriving
<1>4. Posted' = Posted /\ Unanswered' = Unanswered
  BY DEF Posted, RangeOf, Unanswered
<1>5. ReportsCount'
  BY <1>3, <1>4 DEF ReportsCount, RangeOf
<1>6. ThreadLife' /\ InOrder' /\ Reporting' /\ AcceptedFresh'
  BY DEF ThreadLife, InOrder, Reporting, AcceptedFresh, RangeOf
<1>7. QED
  BY <1>2, <1>5, <1>6

LEMMA InitRouting == Init => RoutingInv
<1> SUFFICES ASSUME Init PROVE RoutingInv
  OBVIOUS
<1> USE DEF Init
<1>1. TypeOK
  <2>1. /\ QueueRoom \in Nat /\ ReportRoom \in Nat /\ 0 \in 0 .. MaxConnects
        /\ QueueRoom >= 0 /\ ReportRoom >= 0
    BY RoomAssumption, BoundAssumption
  <2>2. Len(<<>>) = 0
    OBVIOUS
  <2>3. /\ orderQ \in Seq(Commands) /\ reportQ \in Seq(Commands)
        /\ accepted \in Seq(Orders \cup Cancels)
        /\ sent \in Seq(Commands) /\ reported \in Seq(Commands)
    OBVIOUS
  <2>4. QED
    BY <2>1, <2>2, <2>3 DEF TypeOK
<1>2. ThreadLife /\ InOrder /\ Reporting
  BY DEF ThreadLife, InOrder, Reporting
<1>3. RangeOf(accepted) = {} /\ RangeOf(sent) = {}
  BY DEF RangeOf
<1>4. Arriving = <<>> /\ Posted = {} /\ Unanswered = {}
  BY <1>3 DEF Arriving, Posted, Unanswered
<1>5. RangeOf(Arriving) = {} /\ Len(Arriving) = 0
  BY <1>4 DEF RangeOf
<1>6. ReportsCount
  BY <1>4, <1>5, FS_EmptySet DEF ReportsCount
<1>7. QED
  BY <1>1, <1>2, <1>3, <1>6 DEF RoutingInv, AcceptedFresh

LEMMA RoutingStep == RoutingInv /\ [Next]_vars => RoutingInv'
<1> SUFFICES ASSUME RoutingInv, [Next]_vars PROVE RoutingInv'
  OBVIOUS
<1>1. CASE Trading
  BY <1>1, ConnectStep, TradingQuiet, PlaceOrderStep, CancelOrderStep, PollReportStep
     DEF Trading
<1>2. CASE Io
  BY <1>2, IoQuiet, IoPopStep, IoSendStep, IoReportStep DEF Io
<1>3. CASE UNCHANGED vars
  <2>1. TypeOK' /\ ThreadLife'
    BY <1>3 DEF RoutingInv, TypeOK, ThreadLife, vars, trading, history
  <2>2. QED
    BY <1>3, <2>1, QuietStep DEF RoutingInv, vars, trading
<1>4. QED
  BY <1>1, <1>2, <1>3 DEF Next

(* From the invariant: sent, in hand and queued are the numbers in order.  *)
LEMMA Accounted == RoutingInv => CommandsAccounted
<1> SUFFICES ASSUME RoutingInv PROVE CommandsAccounted
  OBVIOUS
<1> USE DEF RoutingInv
<1> DEFINE hand == IF iopc = "send" THEN <<inHand>> ELSE <<>>
           n == Len(accepted)
           all == (sent \o hand) \o orderQ
<1>1. /\ Len(sent) \in Nat /\ n \in Nat /\ Len(orderQ) \in Nat
      /\ sent \in Seq(Int) /\ orderQ \in Seq(Int)
  <2>1. sent \in Seq(Commands) /\ orderQ \in Seq(Commands)
    BY DEF TypeOK
  <2>2. Commands \subseteq Int
    BY DEF Commands
  <2>3. QED
    BY <2>1, <2>2, RoutingFacts, SeqMonotonic
<1>2. /\ hand \in Seq(Int) /\ Len(hand) \in {0, 1}
      /\ Len(hand) = (IF iopc = "send" THEN 1 ELSE 0)
      /\ \A i \in 1 .. Len(hand) : hand[i] = Len(sent) + 1
  <2>1. CASE iopc = "send"
    <3>1. inHand = Len(sent) + 1 /\ hand = <<inHand>>
      BY <2>1 DEF InOrder
    <3>2. QED
      BY <1>1, <2>1, <3>1
  <2>2. CASE iopc # "send"
    BY <2>2
  <2>3. QED
    BY <2>1, <2>2
<1>3. Len(sent) + Len(hand) + Len(orderQ) = n
  BY <1>2 DEF InOrder
<1>4. \A i \in 1 .. Len(sent) : sent[i] = i
  BY DEF InOrder
<1>5. \A i \in 1 .. Len(orderQ) : orderQ[i] = n - Len(orderQ) + i
  BY DEF InOrder
<1> HIDE DEF hand, n
<1>6. /\ sent \o hand \in Seq(Int) /\ Len(sent \o hand) = Len(sent) + Len(hand)
      /\ \A i \in 1 .. Len(sent) + Len(hand) :
            (sent \o hand)[i] = IF i <= Len(sent) THEN sent[i] ELSE hand[i - Len(sent)]
  BY <1>1, <1>2, ConcatProperties
<1>7. \A i \in 1 .. Len(sent) + Len(hand) : (sent \o hand)[i] = i
  <2> SUFFICES ASSUME NEW i \in 1 .. Len(sent) + Len(hand) PROVE (sent \o hand)[i] = i
    OBVIOUS
  <2>1. CASE i <= Len(sent)
    BY <1>1, <1>4, <1>6, <2>1
  <2>2. CASE i > Len(sent)
    <3>1. i - Len(sent) \in 1 .. Len(hand) /\ i = Len(sent) + 1
      BY <1>1, <1>2, <2>2
    <3>2. QED
      BY <1>1, <1>2, <1>6, <2>2, <3>1
  <2>3. QED
    BY <1>1, <2>1, <2>2
<1> DEFINE front == sent \o hand
           m == Len(sent) + Len(hand)
<1>8. /\ front \in Seq(Int) /\ Len(front) = m /\ m \in Nat /\ m + Len(orderQ) = n
      /\ \A i \in 1 .. m : front[i] = i
  BY <1>1, <1>2, <1>3, <1>6, <1>7
<1>9. /\ all \in Seq(Int) /\ Len(all) = n /\ \A i \in 1 .. n : all[i] = i
  <2> HIDE DEF front, m
  <2>1. /\ front \o orderQ \in Seq(Int) /\ Len(front \o orderQ) = n
        /\ \A i \in 1 .. n : (front \o orderQ)[i] = IF i <= m THEN front[i] ELSE orderQ[i - m]
    BY <1>1, <1>8, ConcatProperties
  <2>2. ASSUME NEW i \in 1 .. n PROVE (front \o orderQ)[i] = i
    <3>1. CASE i <= m
      BY <1>1, <1>8, <2>1, <3>1
    <3>2. CASE i > m
      <4> DEFINE j == i - m
      <4>1. j \in 1 .. Len(orderQ) /\ n - Len(orderQ) + j = i
        <5>1. /\ i \in Nat /\ i <= n /\ m \in Nat /\ m + Len(orderQ) = n
              /\ Len(orderQ) \in Nat /\ n \in Nat
          BY <1>1, <1>8, <2>2
        <5>2. QED
          BY <3>2, <5>1
      <4>2. (front \o orderQ)[i] = orderQ[j]
        BY <1>1, <1>8, <2>1, <3>2
      <4> HIDE DEF j
      <4>3. QED
        BY <1>5, <4>1, <4>2
    <3>3. QED
      BY <1>1, <1>8, <3>1, <3>2
  <2>3. QED
    BY <2>1, <2>2 DEF front
<1>10. all = [i \in 1 .. n |-> i]
  <2> DEFINE count == [i \in 1 .. n |-> i]
  <2>1. count \in Seq(Int) /\ Len(count) = n
    BY <1>1
  <2>2. QED
    BY <1>9, <2>1, SeqEqual
<1>11. \A i \in 1 .. Len(Arriving) - 1 : Arriving[i] < Arriving[i + 1]
  <2> SUFFICES ASSUME NEW i \in 1 .. Len(Arriving) - 1 PROVE Arriving[i] < Arriving[i + 1]
    OBVIOUS
  <2>1. i \in 1 .. Len(Arriving) /\ i + 1 \in 1 .. Len(Arriving) /\ i < i + 1
    BY RoutingFacts
  <2>2. QED
    BY <2>1 DEF ReportsCount
<1>12. QED
  BY <1>10, <1>11 DEF CommandsAccounted, ReportsCount, hand, n

----------------------------------------------------------------------------
(* The paper connector.                                                    *)

(* What was submitted is an order of its connector, settled or new.        *)
LEMMA SubmitFacts ==
    ASSUME PaperInv, NEW id \in Ids, NEW type \in Types, NEW side \in Sides,
           NEW price \in LimitPrices \cup {0}, NEW qty \in Qtys,
           type # "STOP_LOSS" \/ price # 0,
           Submit(id, type, side, price, qty)
    PROVE  /\ PaperInv'
           /\ \A other \in Ids \ {id} : active'[other] = active[other]
<1> DEFINE order == [type |-> type, side |-> side, price |-> price, qty |-> qty]
           filled == type = "MARKET"
           new == [order |-> order, status |-> IF filled THEN "FILLED" ELSE "NEW",
                   filled |-> IF filled THEN qty ELSE 0, avg |-> IF filled THEN price ELSE 0]
<1>1. active' = [active EXCEPT ![id] = new] /\ active \in [Ids -> PaperOrders \cup {NoOrder}]
  BY DEF Submit, PaperInv
<1>2. qty \in Nat /\ price \in Nat
  BY LimitAssumption, PricesAssumption
<1>3. new \in PaperOrders
  <2>1. order \in [type : Types, side : Sides, price : LimitPrices \cup {0}, qty : Qtys]
    OBVIOUS
  <2> HIDE DEF order
  <2>2. /\ (IF filled THEN "FILLED" ELSE "NEW") \in {"NEW", "FILLED", "CANCELED"}
        /\ (IF filled THEN qty ELSE 0) \in Nat /\ (IF filled THEN price ELSE 0) \in Nat
    BY <1>2
  <2>3. QED
    BY <2>1, <2>2 DEF PaperOrders
<1>4. Settling(new)
  BY DEF Settling
<1> HIDE DEF new
<1>5. /\ active'[id] = new
      /\ \A other \in Ids \ {id} : active'[other] = active[other]
  BY <1>1
<1>6. active' \in [Ids -> PaperOrders \cup {NoOrder}]
  BY <1>1, <1>3
<1>7. \A i \in Ids : active'[i] # NoOrder => Settling(active'[i])
  BY <1>4, <1>5 DEF PaperInv
<1>8. QED
  BY <1>5, <1>6, <1>7 DEF PaperInv

LEMMA CancelFacts ==
    ASSUME PaperInv, NEW id \in Ids, Cancel(id)
    PROVE  /\ PaperInv'
           /\ \A i \in Ids : active[i] # NoOrder
                 => active'[i].filled = active[i].filled /\ active'[i].avg = active[i].avg
<1> DEFINE new == [active[id] EXCEPT !.status = "CANCELED"]
<1>1. active' = [active EXCEPT ![id] = new] /\ active \in [Ids -> PaperOrders \cup {NoOrder}]
  BY DEF Cancel, PaperInv
<1>2. active[id] \in PaperOrders /\ Settling(active[id])
  BY DEF Cancel, PaperInv
<1>3. /\ new \in PaperOrders /\ new.status = "CANCELED" /\ new.order = active[id].order
      /\ new.filled = active[id].filled /\ new.avg = active[id].avg
  BY <1>2 DEF PaperOrders
<1> HIDE DEF new
<1>4. Settling(new)
  BY <1>2, <1>3 DEF Settling, Beyond
<1>5. active'[id] = new /\ \A other \in Ids \ {id} : active'[other] = active[other]
  BY <1>1
<1>6. active' \in [Ids -> PaperOrders \cup {NoOrder}]
  BY <1>1, <1>3
<1>7. \A i \in Ids : active'[i] # NoOrder => Settling(active'[i])
  BY <1>4, <1>5 DEF PaperInv
<1>8. QED
  BY <1>3, <1>5, <1>6, <1>7 DEF PaperInv

(* A tick fills new stop orders only, at or beyond their price.            *)
LEMMA MatchFacts ==
    ASSUME PaperInv, NEW bid \in TickPrices, NEW ask \in TickPrices,
           MatchAgainstTick(bid, ask)
    PROVE  /\ PaperInv'
           /\ \A i \in Ids : active[i].status # "NEW" => active'[i] = active[i]
<1>1. bid \in Nat /\ ask \in Nat
  BY PricesAssumption
<1>2. ASSUME NEW i \in Ids
      PROVE  /\ active'[i] \in PaperOrders \cup {NoOrder}
             /\ active'[i] # NoOrder => Settling(active'[i])
             /\ active[i].status # "NEW" => active'[i] = active[i]
  <2> DEFINE o == active[i]
             price == IF o.order.side = "BUY" THEN ask ELSE bid
             new == [o EXCEPT !.status = "FILLED", !.filled = o.order.qty, !.avg = price]
  <2>1. active'[i] = IF Triggered(o, bid, ask) THEN new ELSE o
    BY DEF MatchAgainstTick
  <2>2. o \in PaperOrders \cup {NoOrder} /\ (o # NoOrder => Settling(o))
    BY DEF PaperInv
  <2>3. CASE Triggered(o, bid, ask)
    <3>1. /\ o.status = "NEW" /\ o.order.type = "STOP_LOSS"
          /\ IF o.order.side = "BUY" THEN ask >= o.order.price ELSE bid <= o.order.price
      BY <2>3 DEF Triggered
    <3>2. NoOrder.status = "REJECTED"
      BY DEF NoOrder
    <3>3. o \in PaperOrders
      BY <2>2, <3>1, <3>2
    <3>4. o.order.qty \in Nat
      <4>1. o.order \in [type : Types, side : Sides, price : LimitPrices \cup {0}, qty : Qtys]
        BY <3>3 DEF PaperOrders
      <4>2. QED
        BY <4>1, LimitAssumption
    <3>5. price \in Nat
      BY <1>1
    <3> HIDE DEF price
    <3>6. /\ new \in PaperOrders /\ new.status = "FILLED" /\ new.order = o.order
          /\ new.filled = o.order.qty /\ new.avg = price
      BY <3>3, <3>4, <3>5 DEF PaperOrders
    <3> HIDE DEF new
    <3>7. Beyond(new)
      BY <3>1, <3>6 DEF Beyond, price
    <3>8. Settling(new)
      BY <3>6, <3>7 DEF Settling
    <3>9. QED
      BY <2>1, <2>3, <3>1, <3>6, <3>8
  <2>4. CASE ~Triggered(o, bid, ask)
    BY <2>1, <2>2, <2>4
  <2>5. QED
    BY <2>3, <2>4
<1>3. active' \in [Ids -> PaperOrders \cup {NoOrder}]
  BY <1>2 DEF MatchAgainstTick
<1>4. QED
  BY <1>2, <1>3 DEF PaperInv

----------------------------------------------------------------------------
(* The manager over either connector.                                      *)

(* What a paper order adds to the history.                                 *)
LEMMA PlacedStep ==
    ASSUME PlacedFresh, NEW id \in Ids, NEW age \in 0 .. StaleAfter,
           placed' = Append(placed, [id |-> id, age |-> age])
    PROVE  PlacedFresh' /\ Serial(id)' # Serial(id)
<1> DEFINE entry == [id |-> id, age |-> age]
           Entries == [id : Ids, age : Int]
<1>1. entry \in Entries
  BY LimitAssumption
<1>2. entry.age = age /\ entry.id = id
  OBVIOUS
<1>3. placed \in Seq(Entries) /\ placed' = Append(placed, entry)
  BY DEF PlacedFresh
<1> HIDE DEF entry, Entries
<1>4. /\ placed' \in Seq(Entries) /\ Len(placed') = Len(placed) + 1
      /\ RangeOf(placed') = RangeOf(placed) \cup {entry}
      /\ placed'[Len(placed) + 1] = entry /\ Len(placed) \in Nat
  BY <1>1, <1>3, AppendFacts
<1>5. PlacedFresh'
  BY <1>2, <1>4 DEF PlacedFresh, Entries
<1>6. DOMAIN placed = 1 .. Len(placed) /\ DOMAIN placed' = 1 .. Len(placed) + 1
  BY <1>3, <1>4, LenProperties
<1>7. Len(placed) + 1 \in Serial(id)' /\ Len(placed) + 1 \notin Serial(id)
  BY <1>2, <1>4, <1>6 DEF Serial
<1>8. QED
  BY <1>5, <1>7

(* Settled orders stay settled in a step, and what is filled is whole.     *)
Settles ==
    /\ PaperInv' /\ PlacedFresh'
    /\ \A id \in Ids :
          (Serial(id)' = Serial(id) /\ active[id] # NoOrder /\ active[id].status # "NEW")
             => active'[id].filled = active[id].filled /\ active'[id].avg = active[id].avg

LEMMA PaperOrderStep ==
    ASSUME IInv, NEW id \in Ids, NEW side \in Sides, NEW qty \in Qtys,
           NEW price \in LimitPrices \cup {0}, NEW halted \in BOOLEAN, NEW loss \in Losses,
           NEW now \in Times, PaperOrder(id, side, price, qty, halted, loss, now)
    PROVE  Settles
<1> USE DEF IInv, PaperOrder, Paper
<1> DEFINE type == IF price <= 0 THEN "MARKET" ELSE "LIMIT"
<1>1. type \in Types /\ type # "STOP_LOSS"
  BY DEF Types
<1>2. PaperInv' /\ \A other \in Ids \ {id} : active'[other] = active[other]
  <2> HIDE DEF type
  <2>1. Submit(id, type, side, price, qty)
    BY DEF type
  <2>2. QED
    BY <1>1, <2>1, SubmitFacts
<1>3. now - lastTick \in 0 .. StaleAfter
  BY FreshAge DEF Passes, RoutingInv, TypeOK
<1>4. PlacedFresh' /\ Serial(id)' # Serial(id)
  BY <1>3, PlacedStep
<1>5. QED
  BY <1>2, <1>4 DEF Settles

LEMMA PaperDirectStep ==
    ASSUME IInv, NEW id \in Ids, NEW side \in Sides, NEW qty \in Qtys,
           NEW price \in LimitPrices, NEW type \in {"STOP_LOSS", "TAKE_PROFIT"},
           PaperDirect(id, type, side, price, qty)
    PROVE  Settles
<1> USE DEF IInv, PaperDirect, Paper
<1>1. type \in Types /\ type # "MARKET" /\ price # 0
  BY PricesAssumption DEF Types
<1>2. PaperInv' /\ \A other \in Ids \ {id} : active'[other] = active[other]
  BY <1>1, SubmitFacts
<1>3. 0 \in 0 .. StaleAfter
  BY LimitAssumption
<1>4. PlacedFresh' /\ Serial(id)' # Serial(id)
  BY <1>3, PlacedStep
<1>5. QED
  BY <1>2, <1>4 DEF Settles

LEMMA PaperCancelStep ==
    ASSUME IInv, NEW id \in Ids, PaperCancel(id)
    PROVE  Settles
<1>1. PlacedFresh'
  BY DEF IInv, PaperCancel, Paper, PlacedFresh, RangeOf
<1>2. QED
  BY <1>1, CancelFacts DEF IInv, PaperCancel, Paper, Settles

LEMMA PaperMatchStep ==
    ASSUME IInv, NEW bid \in TickPrices, NEW ask \in TickPrices, PaperMatch(bid, ask)
    PROVE  Settles
<1>1. PlacedFresh'
  BY DEF IInv, PaperMatch, Paper, PlacedFresh, RangeOf
<1>2. QED
  BY <1>1, MatchFacts DEF IInv, PaperMatch, Paper, Settles

(* A step that leaves the paper connector alone.                           *)
LEMMA PaperUntouched ==
    ASSUME IInv, UNCHANGED <<active, placed>>
    PROVE  Settles
BY DEF IInv, PaperInv, PlacedFresh, RangeOf, Settles

LEMMA StepInv == IInv /\ [ExecNext]_execVars => IInv' /\ Settles
<1> SUFFICES ASSUME IInv, [ExecNext]_execVars PROVE IInv' /\ Settles
  OBVIOUS
<1>1. Settles => PaperInv' /\ PlacedFresh'
  BY DEF Settles
<1>2. [Next]_vars => RoutingInv'
  BY RoutingStep DEF IInv
<1>3. CASE Binance
  BY <1>1, <1>2, <1>3, PaperUntouched DEF IInv, Binance
<1>4. ASSUME NEW t \in Times, PaperTick(t) PROVE IInv' /\ Settles
  <2>1. Next
    BY <1>4 DEF PaperTick, Paper, Next, Trading
  <2>2. QED
    BY <1>1, <1>2, <1>4, <2>1, PaperUntouched DEF IInv, PaperTick, Paper
<1>5. ASSUME NEW id \in Ids, NEW side \in Sides, NEW qty \in Qtys,
             NEW price \in LimitPrices \cup {0}, NEW halted \in BOOLEAN, NEW loss \in Losses,
             NEW now \in Times, PaperOrder(id, side, price, qty, halted, loss, now)
      PROVE  IInv' /\ Settles
  BY <1>1, <1>2, <1>5, PaperOrderStep DEF IInv, PaperOrder
<1>6. ASSUME NEW id \in Ids, NEW side \in Sides, NEW qty \in Qtys,
             NEW price \in LimitPrices, NEW type \in {"STOP_LOSS", "TAKE_PROFIT"},
             PaperDirect(id, type, side, price, qty)
      PROVE  IInv' /\ Settles
  BY <1>1, <1>2, <1>6, PaperDirectStep DEF IInv, PaperDirect
<1>7. ASSUME NEW id \in Ids, PaperCancel(id) PROVE IInv' /\ Settles
  BY <1>1, <1>2, <1>7, PaperCancelStep DEF IInv, PaperCancel
<1>8. ASSUME NEW bid \in TickPrices, NEW ask \in TickPrices, PaperMatch(bid, ask)
      PROVE  IInv' /\ Settles
  BY <1>1, <1>2, <1>8, PaperMatchStep DEF IInv, PaperMatch
<1>9. CASE UNCHANGED execVars
  BY <1>1, <1>2, <1>9, PaperUntouched DEF IInv, execVars
<1>10. QED
  BY <1>3, <1>4, <1>5, <1>6, <1>7, <1>8, <1>9 DEF ExecNext

LEMMA InitIInv == ExecInit => IInv
<1> SUFFICES ASSUME ExecInit PROVE IInv
  OBVIOUS
<1>1. RoutingInv
  BY InitRouting DEF ExecInit
<1>2. PaperInv
  BY DEF ExecInit, PaperInit, PaperInv
<1>3. PlacedFresh
  BY DEF ExecInit, PlacedFresh, RangeOf
<1>4. QED
  BY <1>1, <1>2, <1>3 DEF IInv

LEMMA Inductive == ExecSpec => []IInv
BY InitIInv, StepInv, PTL DEF ExecSpec

(* Queues within their rooms, commands that exist, and each thread where   *)
(* it can be, over either connector.                                       *)
THEOREM RoutingTypes == ExecSpec => []TypeOK
<1>1. IInv => TypeOK
  BY DEF IInv, RoutingInv
<1>2. QED
  BY <1>1, Inductive, PTL

(* Every command accepted is sent once and in order or still queued, over  *)
(* disconnections, and every order sent has one report.                    *)
THEOREM AllAccounted == ExecSpec => []CommandsAccounted
<1>1. IInv => CommandsAccounted
  BY Accounted DEF IInv
<1>2. QED
  BY <1>1, Inductive, PTL

(* No order is let through on a stale price or on one of the future.       *)
THEOREM PricesFresh == ExecSpec => []PriceFresh
<1>1. IInv => PriceFresh
  BY DEF IInv, RoutingInv, AcceptedFresh, PlacedFresh, PriceFresh
<1>2. QED
  BY <1>1, Inductive, PTL

(* An order is settled once, whole, and a stop beyond its price.           *)
THEOREM OrdersSettleOnce == ExecSpec => SettledOnce
<1> DEFINE Step ==
      \A id \in Ids :
        LET before == active[id]
            after == active'[id]
        IN /\ (Serial(id)' = Serial(id) /\ before # NoOrder /\ before.status # "NEW")
                 => after.filled = before.filled /\ after.avg = before.avg
           /\ (after # NoOrder /\ after.filled > 0)
                 => after.filled = after.order.qty
                       /\ (after.order.type = "STOP_LOSS" => Beyond(after))
<1>1. IInv /\ [ExecNext]_execVars => [Step]_execVars
  <2> SUFFICES ASSUME IInv, [ExecNext]_execVars PROVE Step
    OBVIOUS
  <2>1. Settles
    BY StepInv
  <2>2. QED
    BY <2>1 DEF Settles, PaperInv, Settling
<1>2. QED
  BY <1>1, Inductive, PTL DEF ExecSpec, SettledOnce
=============================================================================
