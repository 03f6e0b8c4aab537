---------------------------- MODULE OrderRouting ----------------------------
(***************************************************************************)
(* OrderManager (include/goldmine/execution/order_manager.hpp) over        *)
(* BinanceConnector (binance_connector.hpp): the trading thread passes an  *)
(* order through the guards into a queue, an I/O thread sends what it      *)
(* finds there to the exchange and queues a report, which the trading      *)
(* thread polls.  The connector may be disconnected and connected again.   *)
(*                                                                         *)
(* LockFreeOrderQueue is SpscQueue without the cached indices, so a queue  *)
(* is the bounded FIFO that module implements; a load of the other side's  *)
(* index may be old, which makes a queue look full, or empty, when it is   *)
(* not.  An order or a cancellation is named by its place among the        *)
(* commands accepted.  A refused order changes nothing and is no step.     *)
(***************************************************************************)
EXTENDS Integers, Sequences, FiniteSets

CONSTANTS
    QueueRoom,     \* commands the order queue holds, 1023 in the code
    ReportRoom,    \* reports the report queue holds, 1023 in the code
    DailyLoss,     \* daily_loss_limit_
    MaxPosition,   \* max_position_size_
    StaleAfter,    \* age at which a price is stale, 30000 ms in the code
    TimeSpan,      \* number of values of the clock, 2^64 in the code
    Times,         \* what the trading thread's and the feed's clock may show
    Losses,        \* realized loss of the account
    Qtys,          \* quantities asked for
    MaxCommands,   \* bound: commands accepted
    MaxConnects    \* bound: connections made

ASSUME RoomAssumption == {QueueRoom, ReportRoom} \subseteq Nat \ {0}
ASSUME LimitAssumption ==
    /\ {DailyLoss, MaxPosition, StaleAfter} \subseteq Nat
    /\ Losses \subseteq Int /\ Qtys \subseteq Nat
ASSUME TimeAssumption ==    \* clocks count from an epoch long past
    /\ TimeSpan \in Nat \ {0}
    /\ \A t \in Times : t \in StaleAfter + 1 .. TimeSpan - 1
ASSUME BoundAssumption == MaxCommands \in Nat /\ MaxConnects \in Nat

VARIABLES
    hpc,                   \* trading thread: inside poll() or disconnect()
    lastTick,              \* last_tick_time_
    running, connects,     \* running_, and how often it was set
    orderQ, reportQ,       \* the two queues
    iopc, inHand,          \* I/O thread: where it is, the command popped
    accepted, sent,        \* history: commands queued, commands sent
    reported, lost         \* history: reports polled, reports that found no room

trading == <<hpc, lastTick, connects, running>>
history == <<accepted, sent, reported, lost>>
vars == <<trading, orderQ, reportQ, iopc, inHand, history>>

(* An order carries how old the price was it was let through on, on the    *)
(* two clocks as they really are.                                          *)
Orders == [kind : {"new"}, age : Int]
Cancels == [kind : {"cancel"}]
Commands == 1 .. MaxCommands

TypeOK ==
    /\ hpc \in {"trade", "poll", "join"}
    /\ lastTick \in Times \cup {0}
    /\ running \in BOOLEAN /\ connects \in 0 .. MaxConnects
    /\ orderQ \in Seq(Commands) /\ Len(orderQ) <= QueueRoom
    /\ reportQ \in Seq(Commands) /\ Len(reportQ) <= ReportRoom
    /\ iopc \in {"none", "check", "drain", "send", "report", "done"}
    /\ inHand \in Commands \cup {0}
    /\ accepted \in Seq(Orders \cup Cancels)
    /\ sent \in Seq(Commands) /\ reported \in Seq(Commands)
    /\ lost \subseteq Commands

Init ==
    /\ hpc = "trade" /\ lastTick = 0
    /\ running = FALSE /\ connects = 0
    /\ orderQ = <<>> /\ reportQ = <<>>
    /\ iopc = "none" /\ inHand = 0
    /\ accepted = <<>> /\ sent = <<>> /\ reported = <<>> /\ lost = {}

----------------------------------------------------------------------------
(* The trading thread.                                                     *)

Connect ==
    /\ hpc = "trade" /\ ~running
    /\ connects < MaxConnects /\ connects' = connects + 1
    /\ running' = TRUE
    /\ iopc' = "check"
    /\ UNCHANGED <<hpc, lastTick, orderQ, reportQ, inHand, history>>

OnTick(t) ==
    /\ hpc = "trade"
    /\ lastTick' = t
    /\ UNCHANGED <<hpc, connects, running, orderQ, reportQ, iopc, inHand, history>>
(* Wrong variant: the difference of the clocks is signed.                  *)
IsPriceStaleSigned(now) == now - lastTick > StaleAfter

(* The difference is unsigned: a clock behind the last tick makes it huge. *)
IsPriceStale(now) == (now - lastTick) % TimeSpan > StaleAfter

Enqueue(command) ==
    /\ Len(accepted) < MaxCommands
    /\ Len(orderQ) < QueueRoom
    /\ orderQ' = Append(orderQ, Len(accepted) + 1)
    /\ accepted' = Append(accepted, command)

(* The four guards: breaker, daily loss, size, stale price.                *)
Passes(halted, loss, qty, now) ==
    ~halted /\ loss < DailyLoss /\ qty <= MaxPosition /\ ~IsPriceStale(now)

PlaceOrder(halted, loss, qty, now) ==
    /\ hpc = "trade"
    /\ Passes(halted, loss, qty, now)
    /\ running
    /\ Enqueue([kind |-> "new", age |-> now - lastTick])
    /\ UNCHANGED <<trading, reportQ, iopc, inHand, sent, reported, lost>>

(* Cancellations are queued without a guard, connected or not.             *)
CancelOrder ==
    /\ hpc = "trade"
    /\ Enqueue([kind |-> "cancel"])
    /\ UNCHANGED <<trading, reportQ, iopc, inHand, sent, reported, lost>>

PollCall ==
    /\ hpc = "trade" /\ hpc' = "poll"
    /\ UNCHANGED <<lastTick, connects, running, orderQ, reportQ, iopc, inHand, history>>

PollReport ==
    /\ hpc = "poll" /\ reportQ # <<>>
    /\ reportQ' = Tail(reportQ)
    /\ reported' = Append(reported, Head(reportQ))
    /\ UNCHANGED <<trading, orderQ, iopc, inHand, accepted, sent, lost>>

(* The queue is, or on an old index looks, empty.                          *)
PollReturn ==
    /\ hpc = "poll" /\ hpc' = "trade"
    /\ UNCHANGED <<lastTick, connects, running, orderQ, reportQ, iopc, inHand, history>>

Disconnect ==
    /\ hpc = "trade" /\ running
    /\ running' = FALSE
    /\ hpc' = "join"
    /\ UNCHANGED <<lastTick, connects, orderQ, reportQ, iopc, inHand, history>>

Joined ==
    /\ hpc = "join" /\ iopc = "done"
    /\ hpc' = "trade" /\ iopc' = "none"
    /\ UNCHANGED <<lastTick, connects, running, orderQ, reportQ, inHand, history>>

----------------------------------------------------------------------------
(* The I/O thread: io_worker.                                              *)

IoCheck ==
    /\ iopc = "check"
    /\ iopc' = IF running THEN "drain" ELSE "done"
    /\ UNCHANGED <<trading, orderQ, reportQ, inHand, history>>

IoPop ==
    /\ iopc = "drain" /\ orderQ # <<>>
    /\ inHand' = Head(orderQ) /\ orderQ' = Tail(orderQ)
    /\ iopc' = "send"
    /\ UNCHANGED <<trading, reportQ, history>>

IoEmpty ==    \* or looks so, on an old index
    /\ iopc = "drain" /\ iopc' = "check"
    /\ UNCHANGED <<trading, orderQ, reportQ, inHand, history>>
(* Wrong variant: a command popped while disconnecting is thrown away.     *)
IoSendIfRunning ==
    /\ iopc = "send" /\ inHand' = 0
    /\ IF running THEN sent' = Append(sent, inHand) /\ iopc' = "drain"
                  ELSE UNCHANGED sent /\ iopc' = "check"
    /\ UNCHANGED <<trading, orderQ, reportQ, accepted, reported, lost>>

(* DELETE or POST; a POST is answered at once.                             *)
IoSend ==
    /\ iopc = "send"
    /\ sent' = Append(sent, inHand)
    /\ iopc' = IF accepted[inHand].kind = "new" THEN "report" ELSE "drain"
    /\ inHand' = IF accepted[inHand].kind = "new" THEN inHand ELSE 0
    /\ UNCHANGED <<trading, orderQ, reportQ, accepted, reported, lost>>
(* Wrong variant: the report waits for room.                               *)
IoReportWaits ==
    /\ iopc = "report" /\ Len(reportQ) < ReportRoom
    /\ reportQ' = Append(reportQ, inHand)
    /\ iopc' = "drain" /\ inHand' = 0
    /\ UNCHANGED <<trading, orderQ, accepted, sent, reported, lost>>

(* The report's push is not checked: full, or full on an index from before *)
(* reports were polled, and the report is gone.                            *)
IoReport ==
    /\ iopc = "report"
    /\ \/ /\ Len(reportQ) < ReportRoom
          /\ reportQ' = Append(reportQ, inHand) /\ lost' = lost
       \/ /\ Len(reportQ \o reported) >= ReportRoom
          /\ reportQ' = reportQ /\ lost' = lost \cup {inHand}
    /\ iopc' = "drain" /\ inHand' = 0
    /\ UNCHANGED <<trading, orderQ, accepted, sent, reported>>

----------------------------------------------------------------------------
Trading ==
    \/ Connect
    \/ \E t \in Times : OnTick(t)
    \/ \E halted \in BOOLEAN, loss \in Losses, qty \in Qtys, now \in Times :
          PlaceOrder(halted, loss, qty, now)
    \/ CancelOrder \/ PollCall \/ PollReport \/ PollReturn \/ Disconnect \/ Joined
Io == IoCheck \/ IoPop \/ IoEmpty \/ IoSend \/ IoReport
Next == Trading \/ Io

Spec == Init /\ [][Next]_vars

(* The I/O thread polls, and what is queued becomes visible in finite time;*)
(* the trading thread finishes the calls it is in.                         *)
IoFairness == WF_vars(Io) /\ SF_vars(IoPop)
CallFairness == WF_vars(PollReport) /\ WF_vars(PollReturn) /\ WF_vars(Joined)

(***************************************************************************)
(* Properties                                                              *)
(***************************************************************************)
RangeOf(s) == {s[i] : i \in DOMAIN s}
Posted == {c \in RangeOf(sent) : accepted[c].kind = "new"}
Unanswered == IF iopc = "report" THEN {inHand} ELSE {}
Arriving == reported \o reportQ

(* Every command accepted is sent once and in order or still queued, over  *)
(* disconnections with commands waiting, so no cancellation overtakes its  *)
(* order; and every order sent has one report, in order, polled, waiting   *)
(* or lost to a full queue (submit_order, cancel_order, io_worker, poll).  *)
CommandsAccounted ==
    /\ sent \o (IF iopc = "send" THEN <<inHand>> ELSE <<>>) \o orderQ
          = [i \in 1 .. Len(accepted) |-> i]
    /\ \A i \in 1 .. Len(Arriving) - 1 : Arriving[i] < Arriving[i + 1]
    /\ Posted = RangeOf(Arriving) \cup lost \cup Unanswered
    /\ Len(Arriving) + Cardinality(lost) + Cardinality(Unanswered)
          = Cardinality(Posted)

(* disconnect() returns, however full the two queues are: the I/O thread   *)
(* never waits for a trading thread that is waiting for it.                *)
DisconnectReturns == (hpc = "join") ~> (hpc = "trade")
=============================================================================
