---------------------------- MODULE PaperEngine ----------------------------
(***************************************************************************)
(* PaperEngine (core/include/goldmine/pipeline.hpp): the dry-run execution *)
(* of the risk thread.  Each signal first marks the open position against  *)
(* its bracket, then may open a new one; a close updates the summary and   *)
(* queues the outcome for the learner.                                     *)
(*                                                                         *)
(* Money is a small integer; the slippage of 0.5 bps is a constant of the  *)
(* price range.  The bid and the ask are read from the unsynchronised      *)
(* latest tick, so they may belong to different ticks and are chosen       *)
(* independently.  This module has the state and its two operations;       *)
(* LearningLoop runs them with the logic thread.                           *)
(***************************************************************************)
EXTENDS Integers, Sequences, FiniteSetsExt

CONSTANTS
    LongRules,      \* the registered rules of positive ...
    ShortRules,     \* ... and of negative weight
    Prices,         \* what a bid or an ask may be
    Slip,           \* simulated slippage on entry
    Commission,     \* per round trip
    StartCapital,   \* current_equity at the beginning
    Stops,          \* stop distances a signal may suggest
    OutcomeCap,     \* room in the outcome queue
    MaxTrades       \* bound: trades closed

ASSUME MoneyAssumption ==
    /\ Prices \subseteq Nat \ {0} /\ {Slip, Commission, StartCapital} \subseteq Nat
    /\ Stops \subseteq Nat \ {0}
(* No trade of an ounce costs the starting capital: 10,000 dollars         *)
(* (types.hpp), more than an ounce of gold.                                *)
ASSUME CapitalAssumption ==
    \A bought, sold \in Prices : (bought - sold) + Slip + Commission <= StartCapital
ASSUME RulesAssumption == LongRules \cap ShortRules = {}
ASSUME SizesAssumption == OutcomeCap \in Nat \ {0} /\ MaxTrades \in Nat

VARIABLES
    pos,              \* pos_
    summary,          \* summary_
    fillCount,        \* fill_count_
    outcomes,         \* the outcome queue
    openers,          \* history: the rules of each signal that opened a position
    dropped,          \* history: the trades whose outcome found the queue full
    curve             \* history: equity after each close, the start first

paperVars == <<pos, summary, fillCount, outcomes, openers, dropped, curve>>

Rules == LongRules \cup ShortRules
Directions == {"LONG", "SHORT", "NONE"}
Outcomes == [label : {-1, 1}, rules : SUBSET Rules]

PaperTypeOK ==
    /\ pos \in [open : BOOLEAN, direction : Directions, entry : Int, sl : Int, tp : Int,
                rules : SUBSET Rules, heard : Nat]
    /\ summary \in [trades : Nat, winners : Nat, losers : Nat, pnl : Int, equity : Int,
                    peak : Int, drawdown : Nat]
    /\ fillCount \in Nat
    /\ outcomes \in Seq(Outcomes) /\ Len(outcomes) <= OutcomeCap
    /\ openers \in Seq(SUBSET Rules)
    /\ dropped \subseteq 1 .. summary.trades
    /\ curve \in Seq(Int)

PaperInit ==
    /\ pos = [open |-> FALSE, direction |-> "NONE", entry |-> 0, sl |-> 0, tp |-> 0,
              rules |-> {}, heard |-> 0]
    /\ summary = [trades |-> 0, winners |-> 0, losers |-> 0, pnl |-> 0,
                  equity |-> StartCapital, peak |-> 0, drawdown |-> 0]
    /\ fillCount = 0
    /\ outcomes = <<>>
    /\ openers = <<>> /\ dropped = {}
    /\ curve = <<StartCapital>>

----------------------------------------------------------------------------
Mark(bid, ask) == IF pos.direction = "LONG" THEN bid ELSE ask
(* Wrong variant: a short's bracket is compared as a long's.               *)
HitOneSided(mark) == mark <= pos.sl \/ mark >= pos.tp

Hit(mark) ==
    IF pos.direction = "LONG" THEN mark <= pos.sl \/ mark >= pos.tp
                              ELSE mark >= pos.sl \/ mark <= pos.tp

(* close_position: the trade's PnL after commission ...                    *)
Pnl(exit) ==
    (IF pos.direction = "LONG" THEN exit - pos.entry ELSE pos.entry - exit) - Commission
(* Wrong variant: the drawdown is the current one, not the deepest.        *)
BookedCurrent(pnl) ==
    LET equity == summary.equity + pnl
        peak == IF equity > summary.peak THEN equity ELSE summary.peak
    IN [trades |-> summary.trades + 1,
        winners |-> summary.winners + (IF pnl > 0 THEN 1 ELSE 0),
        losers |-> summary.losers + (IF pnl > 0 THEN 0 ELSE 1),
        pnl |-> summary.pnl + pnl, equity |-> equity, peak |-> peak,
        drawdown |-> peak - equity]

(* ... and the summary with it.                                            *)
Booked(pnl) ==
    LET equity == summary.equity + pnl
        peak == IF equity > summary.peak THEN equity ELSE summary.peak
    IN [trades |-> summary.trades + 1,
        winners |-> summary.winners + (IF pnl > 0 THEN 1 ELSE 0),
        losers |-> summary.losers + (IF pnl > 0 THEN 0 ELSE 1),
        pnl |-> summary.pnl + pnl,
        equity |-> equity,
        peak |-> peak,
        drawdown |-> Max({summary.drawdown, peak - equity})]

(* Wrong variant: the rules of the position before are kept.               *)
OpenedStale(sig, bid, ask) ==
    LET long == sig.direction = "LONG"
        entry == IF long THEN ask + Slip ELSE bid - Slip
        dir == IF long THEN 1 ELSE -1
    IN [open |-> TRUE, direction |-> sig.direction, entry |-> entry,
        sl |-> entry - dir * sig.stop, tp |-> entry + dir * 2 * sig.stop,
        rules |-> pos.rules, heard |-> sig.heard]

(* The position on_signal opens, on the side of the book it would trade;   *)
(* the logic thread always suggests a target twice as far as the stop.     *)
(* "heard" is a history field of the signal (see LearningLoop).            *)
Opened(sig, bid, ask) ==
    LET long == sig.direction = "LONG"
        entry == IF long THEN ask + Slip ELSE bid - Slip
        dir == IF long THEN 1 ELSE -1
    IN [open |-> TRUE, direction |-> sig.direction, entry |-> entry,
        sl |-> entry - dir * sig.stop, tp |-> entry + dir * 2 * sig.stop,
        rules |-> sig.rules, heard |-> sig.heard]

MustClose(bid, ask) == pos.open /\ Hit(Mark(bid, ask))

(* close_position: the outcome names the rules that opened the position;   *)
(* it is lost when the queue is full.                                      *)
ClosePosition(exit) ==
    LET outcome == [label |-> IF Pnl(exit) > 0 THEN 1 ELSE -1, rules |-> pos.rules]
        room == Len(outcomes) < OutcomeCap
    IN /\ summary' = Booked(Pnl(exit))
       /\ curve' = Append(curve, summary.equity + Pnl(exit))
       /\ outcomes' = IF room THEN Append(outcomes, outcome) ELSE outcomes
       /\ dropped' = IF room THEN dropped ELSE dropped \cup {summary.trades + 1}

(* on_signal: the bracket is looked at before the signal, so one call may  *)
(* close a position and open the next.                                     *)
OnSignal(sig, bid, ask) ==
    LET stillOpen == pos.open /\ ~MustClose(bid, ask)
        opens == ~stillOpen /\ sig.direction # "NONE" /\ ~sig.blocked
    IN /\ summary.trades < MaxTrades
       /\ IF MustClose(bid, ask) THEN ClosePosition(Mark(bid, ask))
                                 ELSE UNCHANGED <<summary, curve, outcomes, dropped>>
       /\ pos' = IF opens THEN Opened(sig, bid, ask) ELSE [pos EXCEPT !.open = stillOpen]
       /\ openers' = IF opens THEN Append(openers, sig.rules) ELSE openers
       /\ fillCount' = IF opens THEN fillCount + 1 ELSE fillCount
=============================================================================
