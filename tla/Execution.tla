----------------------------- MODULE Execution -----------------------------
(***************************************************************************)
(* OrderManager over either of its two connectors: BinanceConnector, the   *)
(* module OrderRouting, or PaperConnector.  Which one is fixed when the    *)
(* manager is built (its template parameter).  The trading thread also     *)
(* submits stop orders to the paper connector itself: OrderManager places  *)
(* market and limit orders only.                                           *)
(***************************************************************************)
EXTENDS OrderRouting, PaperConnector

CONSTANTS
    LimitPrices,     \* prices of limit and stop orders
    TickPrices,      \* bids and asks of a tick
    MaxPaper         \* bound: orders submitted to the paper connector

ASSUME PricesAssumption == LimitPrices \cup TickPrices \subseteq Nat \ {0} /\ MaxPaper \in Nat

VARIABLES
    venue,           \* the connector OrderManager was built over
    placed           \* history: how each paper order came about, in order

execVars == <<vars, active, venue, placed>>

ExecInit ==
    /\ Init /\ PaperInit
    /\ venue \in {"binance", "paper"}
    /\ placed = <<>>

----------------------------------------------------------------------------
Binance == venue = "binance" /\ Next /\ UNCHANGED <<active, venue, placed>>

Paper(action) == venue = "paper" /\ action /\ UNCHANGED venue
Room == Len(placed) < MaxPaper

PaperTick(t) == Paper(OnTick(t) /\ UNCHANGED <<active, placed>>)

(* place_order: a price of 0 or less makes it a market order.              *)
PaperOrder(id, side, price, qty, halted, loss, now) ==
    /\ Room
    /\ Passes(halted, loss, qty, now)
    /\ Paper(Submit(id, IF price <= 0 THEN "MARKET" ELSE "LIMIT", side, price, qty))
    /\ placed' = Append(placed, [id |-> id, age |-> now - lastTick])
    /\ UNCHANGED vars

(* The connector's own interface, past the guards, takes the other types.  *)
PaperDirect(id, type, side, price, qty) ==
    /\ Room
    /\ Paper(Submit(id, type, side, price, qty))
    /\ placed' = Append(placed, [id |-> id, age |-> 0])
    /\ UNCHANGED vars

PaperCancel(id) == Paper(Cancel(id)) /\ UNCHANGED <<vars, placed>>

PaperMatch(bid, ask) == Paper(MatchAgainstTick(bid, ask)) /\ UNCHANGED <<vars, placed>>

ExecNext ==
    \/ Binance
    \/ \E t \in Times : PaperTick(t)
    \/ \E id \in Ids, side \in Sides, qty \in Qtys :
          \/ \E price \in LimitPrices \cup {0}, halted \in BOOLEAN, loss \in Losses, now \in Times :
                PaperOrder(id, side, price, qty, halted, loss, now)
          \/ \E price \in LimitPrices, type \in {"STOP_LOSS", "TAKE_PROFIT"} :
                PaperDirect(id, type, side, price, qty)
    \/ \E id \in Ids : PaperCancel(id)
    \/ \E bid \in TickPrices, ask \in TickPrices : PaperMatch(bid, ask)

ExecSpec == ExecInit /\ [][ExecNext]_execVars

(* The threads of OrderRouting are scheduled as there; the paper connector *)
(* has none.                                                               *)
ExecFairSpec == ExecSpec /\ IoFairness /\ CallFairness

(***************************************************************************)
(* Properties                                                              *)
(***************************************************************************)

(* Whichever connector, and whichever way the trading thread's clock and   *)
(* the feed's differ, an order is let through only on a price of the past  *)
(* that is not stale (place_order, is_price_stale).                        *)
PriceFresh ==
    /\ \A c \in RangeOf(accepted) : c.kind = "new" => c.age \in 0 .. StaleAfter
    /\ \A p \in RangeOf(placed) : p.age \in 0 .. StaleAfter

(* The last order an id was submitted with.                                *)
Serial(id) == {k \in DOMAIN placed : placed[k].id = id}

(* An order is settled once: after a fill or a cancellation no tick and no *)
(* cancellation changes what was filled and at which price, although a     *)
(* cancellation does rewrite the status of a filled order; and what is     *)
(* filled is the whole order, a stop on the far side of its price          *)
(* (impl_cancel_order, match_against_tick).                                *)
Beyond(o) == IF o.order.side = "BUY" THEN o.avg >= o.order.price ELSE o.avg <= o.order.price

SettledOnce ==
    [][\A id \in Ids :
          LET before == active[id]
              after == active'[id]
          IN /\ (Serial(id)' = Serial(id) /\ before # NoOrder /\ before.status # "NEW")
                   => after.filled = before.filled /\ after.avg = before.avg
             /\ (after # NoOrder /\ after.filled > 0)
                   => after.filled = after.order.qty
                         /\ (after.order.type = "STOP_LOSS" => Beyond(after))]_execVars
=============================================================================
