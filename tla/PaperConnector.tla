--------------------------- MODULE PaperConnector ---------------------------
(***************************************************************************)
(* PaperConnector (include/goldmine/execution/paper_connector.hpp): orders *)
(* by client id.  A market order is filled on submission at the price it   *)
(* carries; any other waits, and only stop orders are ever matched against *)
(* a tick.  connect, disconnect and poll do nothing.                       *)
(***************************************************************************)
EXTENDS Integers

CONSTANT Ids        \* client order ids

VARIABLE active     \* active_orders_, NoOrder where the map has no entry

Sides == {"BUY", "SELL"}
Types == {"MARKET", "LIMIT", "STOP_LOSS", "TAKE_PROFIT"}
NoOrder == [status |-> "REJECTED"]     \* what query_status says of it

PaperInit == active = [id \in Ids |-> NoOrder]

(* An order with the same id is overwritten.                               *)
Submit(id, type, side, price, qty) ==
    LET order == [type |-> type, side |-> side, price |-> price, qty |-> qty]
        filled == type = "MARKET"
    IN active' = [active EXCEPT ![id] =
          [order |-> order, status |-> IF filled THEN "FILLED" ELSE "NEW",
           filled |-> IF filled THEN qty ELSE 0, avg |-> IF filled THEN price ELSE 0]]

(* Whatever the order's status was, FILLED included.                       *)
Cancel(id) ==
    /\ active[id] # NoOrder
    /\ active' = [active EXCEPT ![id].status = "CANCELED"]

(* Wrong variant: a stop is matched whatever its status.                   *)
TriggeredAnyway(o, bid, ask) ==
    /\ o # NoOrder
    /\ o.order.type = "STOP_LOSS"
    /\ IF o.order.side = "BUY" THEN ask >= o.order.price ELSE bid <= o.order.price

Triggered(o, bid, ask) ==
    /\ o.status = "NEW"
    /\ o.order.type = "STOP_LOSS"
    /\ IF o.order.side = "BUY" THEN ask >= o.order.price ELSE bid <= o.order.price

MatchAgainstTick(bid, ask) ==
    active' = [id \in Ids |->
        LET o == active[id]
        IN IF Triggered(o, bid, ask)
           THEN [o EXCEPT !.status = "FILLED", !.filled = o.order.qty,
                          !.avg = IF o.order.side = "BUY" THEN ask ELSE bid]
           ELSE o]
=============================================================================
