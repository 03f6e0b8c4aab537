---------------------------- MODULE ExpertEngine ----------------------------
(***************************************************************************)
(* The trading loop of the expert engine (core/src/expert_engine.cpp) with *)
(* the account (account_state.hpp), the cost model (cost_model.hpp) and    *)
(* the parameter synchronisation (risk_engine.hpp, param_shm.hpp), run     *)
(* against the command-line thread, the signal pipeline and the parameter  *)
(* publisher, which all act between any two steps of the loop.             *)
(*                                                                         *)
(* Prices and money are small integers.  A position has size 1, or 0 when  *)
(* compute_position_size returns 0 because the risk is not positive.  The  *)
(* cost of a round trip per unit is a variable that drifts with the spread *)
(* average.  Confidence is the sign of the conviction past CONV_THRESHOLD. *)
(***************************************************************************)
EXTENDS Integers, Sequences

CONSTANTS
    Prices,          \* bids the market may show
    Spread,          \* ask - bid
    Costs,           \* what fees, slippage and spread may cost per unit
    StartEquities,   \* starting_equity, per the configuration
    Breaker,         \* circuit_breaker_equity
    BaseRisk,        \* base_risk_pct of the configuration
    KellyRisk,       \* KellyConfig's default max_risk_pct
    TypedRisks,      \* risks the operator may type
    PublishedRisks,  \* risks the publisher may choose
    MaxRisk,         \* MAX_ALLOWABLE_RISK_PCT
    Persist,         \* SIGNAL_PERSIST
    FallbackSl,      \* stop distance when this tick brought no signal
    SignalSls,       \* stop distances a signal may suggest, if wide enough (0.5)
    Overrides,       \* "sl" / "tp" distances the operator may type
    Hopeless,        \* min_profit_price of an empty position, 1e9 in the code
    MaxTicks,        \* bound: ticks processed
    MaxCommands      \* bound: commands typed and parameters published

ASSUME PersistAssumption == Persist \in Nat \ {0}
ASSUME MoneyAssumption ==
    /\ Prices \subseteq Nat \ {0} /\ Costs \subseteq Nat \ {0} /\ Spread \in Nat
    /\ StartEquities \subseteq Nat /\ Breaker \in Nat
    /\ BaseRisk \in Nat /\ KellyRisk \in Nat /\ MaxRisk \in Nat
    /\ TypedRisks \subseteq Int /\ PublishedRisks \subseteq Int
    /\ FallbackSl \in Nat \ {0} /\ SignalSls \subseteq Nat \ {0}
    /\ Overrides \subseteq Int
    /\ Hopeless \in Nat
ASSUME HurdleAssumption ==    \* nobody suggests or types a distance of 1e9 / 2
    \A d \in Overrides \cup SignalSls \cup {FallbackSl} : 2 * d < Hopeless
ASSUME BoundAssumption == MaxTicks \in Nat /\ MaxCommands \in Nat

VARIABLES
    pc,                                     \* where main is in its loop
    ticks, bid, cost,                       \* tick_count, the tick, the cost model
    account,                                \* AccountState
    pos,                                    \* Position
    manualBuy, manualSell,                  \* the loop's copies of the flags
    algoConv, atrStop,                      \* from the signals drained
    longConfirm, shortConfirm,
    loaded,                                 \* sl_dist, and which overrides to load
    lastVersion, cfgRisk,                   \* RiskEngine
    cliClose, cliBuy, cliSell,              \* the operator's flags
    cliSl, cliTp, cliRisk,                  \* and settings
    signals,                                \* the final signal queue
    params,                                 \* DynamicParams in shared memory
    commands,                               \* how many were typed or published
    recent,                                 \* history: the last Persist convictions
    typedRisk                               \* history: risk typed last, 0 if none

market == <<ticks, bid, cost>>
orders == <<manualBuy, manualSell>>
view == <<algoConv, atrStop, longConfirm, shortConfirm, recent>>
riskGate == <<lastVersion, cfgRisk, loaded>>
flags == <<cliClose, cliBuy, cliSell>>
settings == <<cliSl, cliTp, cliRisk, typedRisk>>
outside == <<signals, params, commands>>
loopVars == <<pc, market, account, pos, orders, view, riskGate>>
vars == <<loopVars, flags, settings, outside>>

Convictions == {-1, 0, 1}
SignalType == [conv : Convictions, stop : SignalSls \cup {0}]   \* 0: too narrow

TypeOK ==
    /\ pc \in {"tick", "manage", "buy", "sell", "drain", "sync", "sl", "tp", "size",
              "stopped"}
    /\ ticks \in 0 .. MaxTicks /\ bid \in Prices /\ cost \in Costs
    /\ account \in [current : Int, peak : Int, realized : Int, start : StartEquities]
    /\ pos \in [open : BOOLEAN, long : BOOLEAN, entry : Int, sl : Int, tp : Int,
                qty : {0, 1}, entryTick : 0 .. MaxTicks, entryCost : Costs,
                manual : BOOLEAN, risk : Int]
    /\ {manualBuy, manualSell, cliClose, cliBuy, cliSell} \subseteq BOOLEAN
    /\ algoConv \in Convictions /\ atrStop \in SignalSls \cup {FallbackSl}
    /\ longConfirm \in 0 .. MaxTicks /\ shortConfirm \in 0 .. MaxTicks
    /\ loaded \in [sl : BOOLEAN, tp : BOOLEAN, slDist : Int]
    /\ lastVersion \in 0 .. MaxCommands
    /\ {cfgRisk, cliRisk, typedRisk} \subseteq Int
    /\ {cliSl, cliTp} \subseteq Overrides \cup {0}
    /\ signals \in Seq(SignalType)
    /\ params \in [version : 0 .. MaxCommands, risk : Int, gateOpen : BOOLEAN]
    /\ commands \in 0 .. MaxCommands
    /\ recent \in Seq(Convictions) /\ Len(recent) <= Persist

NoPosition == [open |-> FALSE, long |-> FALSE, entry |-> 0, sl |-> 0, tp |-> 0,
               qty |-> 0, entryTick |-> 0, entryCost |-> cost,
               manual |-> FALSE, risk |-> 0]

NotLoaded == [sl |-> FALSE, tp |-> FALSE, slDist |-> 0]

Init ==
    /\ pc = "tick" /\ ticks = 0
    /\ bid \in Prices /\ cost \in Costs
    /\ \E e \in StartEquities :
          account = [current |-> e, peak |-> e, realized |-> 0, start |-> e]
    /\ pos = NoPosition
    /\ manualBuy = FALSE /\ manualSell = FALSE
    /\ algoConv = 0 /\ atrStop = FallbackSl
    /\ longConfirm = 0 /\ shortConfirm = 0
    /\ loaded = NotLoaded
    /\ lastVersion = 0 /\ cfgRisk = KellyRisk
    /\ cliClose = FALSE /\ cliBuy = FALSE /\ cliSell = FALSE
    /\ cliSl = 0 /\ cliTp = 0 /\ cliRisk = BaseRisk
    /\ signals = <<>>
    /\ params = [version |-> 0, risk |-> KellyRisk, gateOpen |-> TRUE]
    /\ commands = 0
    /\ recent = <<>>
    /\ typedRisk = 0

----------------------------------------------------------------------------
(* The command-line thread: each command stores into one atomic.  Nothing  *)
(* outside matters once main has left its loop.                            *)

Typing ==
    /\ pc # "stopped"
    /\ commands < MaxCommands /\ commands' = commands + 1
    /\ UNCHANGED <<loopVars, signals, params>>

CliClose == Typing /\ cliClose' = TRUE /\ UNCHANGED <<cliBuy, cliSell, settings>>
CliBuy == Typing /\ cliBuy' = TRUE /\ UNCHANGED <<cliClose, cliSell, settings>>
CliSell == Typing /\ cliSell' = TRUE /\ UNCHANGED <<cliClose, cliBuy, settings>>
CliSl(d) == Typing /\ cliSl' = d /\ UNCHANGED <<flags, cliTp, cliRisk, typedRisk>>
CliTp(d) == Typing /\ cliTp' = d /\ UNCHANGED <<flags, cliSl, cliRisk, typedRisk>>
CliRisk(r) ==
    Typing /\ cliRisk' = r /\ typedRisk' = r /\ UNCHANGED <<flags, cliSl, cliTp>>

(* The pipeline's output: one signal may be waiting at a time.  Only Drain *)
(* looks at the queue, so an arrival at any time before Drain is the same  *)
(* as one right before it.                                                 *)
Signal(sig) ==
    /\ pc = "drain" /\ signals = <<>>
    /\ signals' = <<sig>>
    /\ UNCHANGED <<loopVars, flags, settings, params, commands>>

(* The parameter publisher (external): new values under a new version.     *)
Publish(r, open) ==
    /\ pc # "stopped"
    /\ commands < MaxCommands /\ commands' = commands + 1
    /\ params' = [version |-> params.version + 1, risk |-> r, gateOpen |-> open]
    /\ UNCHANGED <<loopVars, flags, settings, signals>>

----------------------------------------------------------------------------
(* AccountState and CostModel.                                             *)

Halted == account.current <= Breaker

RecordTrade(pnl) ==
    LET equity == account.current + pnl
    IN [account EXCEPT !.current = equity, !.realized = @ + pnl,
                       !.peak = IF equity > @ THEN equity ELSE @]

NetPnl(exit) ==
    ((IF pos.long THEN exit - pos.entry ELSE pos.entry - exit) - cost) * pos.qty

PositionSize(slDist, risk) ==
    IF slDist <= 0 \/ risk <= 0 \/ account.current <= 0 THEN 0 ELSE 1
(* Wrong variant: an empty position is given the ordinary hurdle.          *)
MinProfitPriceAny(qty) == cost

MinProfitPrice(qty) == IF qty = 0 THEN Hopeless ELSE cost

----------------------------------------------------------------------------
(* The main loop.                                                          *)

(* spin_wait_next (or the replay file) yields a tick, which also moves the *)
(* cost model's spread average a little and goes to the pipeline.          *)
NextTick(p, c) ==
    /\ pc = "tick" /\ pc' = "manage"
    /\ ticks < MaxTicks /\ ticks' = ticks + 1
    /\ bid' = p
    /\ c \in {cost - 1, cost, cost + 1} /\ cost' = c
    /\ UNCHANGED <<account, pos, orders, view, riskGate, flags, settings, outside>>

EndOfFile ==
    /\ pc = "tick" /\ pc' = "stopped"
    /\ UNCHANGED <<market, account, pos, orders, view, riskGate,
                   flags, settings, outside>>

Mark == IF pos.long THEN bid ELSE bid + Spread
(* Wrong variant: a short's stop is compared as a long's.                  *)
HitSlOneSided == Mark <= pos.sl

HitSl == IF pos.long THEN Mark <= pos.sl ELSE Mark >= pos.sl
HitTp == IF pos.long THEN Mark >= pos.tp ELSE Mark <= pos.tp
(* Wrong variant: the operator's "close" is not asked for.                 *)
MustCloseUnasked == pos.open /\ (HitSl \/ HitTp)

MustClose == pos.open /\ (cliClose \/ HitSl \/ HitTp)

(* Close the open position on SL, TP or the operator's "close" (TradeStore *)
(* logs it); leave main when the circuit breaker trips.                    *)
(* "close" is consumed only here, and only while a position is open.       *)
Manage ==
    /\ pc = "manage"
    /\ account' = IF MustClose THEN RecordTrade(NetPnl(Mark)) ELSE account
    /\ pos' = [pos EXCEPT !.open = @ /\ ~MustClose]
    /\ pc' = IF MustClose /\ account'.current <= Breaker THEN "stopped" ELSE "buy"
    /\ cliClose' = (cliClose /\ ~pos.open)
    /\ UNCHANGED <<market, orders, view, riskGate, cliBuy, cliSell, settings, outside>>

(* cli_force_buy.exchange(false), then cli_force_sell.exchange(false).     *)
TakeBuy ==
    /\ pc = "buy" /\ pc' = "sell"
    /\ manualBuy' = cliBuy /\ cliBuy' = FALSE
    /\ UNCHANGED <<market, account, pos, manualSell, view, riskGate,
                   cliClose, cliSell, settings, outside>>

TakeSell ==
    /\ pc = "sell" /\ pc' = "drain"
    /\ manualSell' = cliSell /\ cliSell' = FALSE
    /\ UNCHANGED <<market, account, pos, manualBuy, view, riskGate,
                   cliClose, cliBuy, settings, outside>>

(* Take the signal waiting, if any, and count for how many ticks the       *)
(* conviction has pointed one way.  Without a signal the old conviction    *)
(* counts again, but the stop distance falls back to its default, as it    *)
(* does when the stop suggested is too narrow.                             *)
Drain ==
    /\ pc = "drain" /\ pc' = "sync"
    /\ algoConv' = IF signals = <<>> THEN algoConv ELSE signals[1].conv
    /\ atrStop' = IF signals = <<>> \/ signals[1].stop = 0 THEN FallbackSl
                  ELSE signals[1].stop
    /\ signals' = <<>>
    /\ longConfirm' = IF algoConv' = 1 THEN longConfirm + 1 ELSE 0
    /\ shortConfirm' = IF algoConv' = -1 THEN shortConfirm + 1 ELSE 0
    /\ recent' = LET r == Append(recent, algoConv')
                 IN IF Len(r) > Persist THEN Tail(r) ELSE r
    /\ UNCHANGED <<market, account, pos, orders, riskGate, flags, settings,
                   params, commands>>

SigLong == longConfirm >= Persist
SigShort == shortConfirm >= Persist
Manual == manualBuy \/ manualSell
(* Wrong variant: the circuit breaker is not looked at before an entry.    *)
CanTradeHalted == ~pos.open /\ (Manual \/ SigLong \/ SigShort)

CanTrade == ~Halted /\ ~pos.open /\ (Manual \/ SigLong \/ SigShort)
GoLong == manualBuy \/ (~manualSell /\ SigLong)

(* RiskEngine::sync_parameters: a newer version is applied, capped.        *)
SyncedRisk ==
    IF params.version > lastVersion
      THEN IF params.risk > MaxRisk THEN MaxRisk ELSE params.risk
      ELSE cfgRisk
(* Wrong variant: the confirmations survive an entry.                      *)
KeepConfirm == UNCHANGED view

ResetConfirm == longConfirm' = 0 /\ shortConfirm' = 0
                  /\ UNCHANGED <<algoConv, atrStop, recent>>

(* No reason to trade: on to the next tick.                                *)
NoTrade ==
    /\ pc = "sync" /\ ~CanTrade
    /\ pc' = "tick"
    /\ UNCHANGED <<market, account, pos, orders, view, riskGate,
                   flags, settings, outside>>

(* Synchronise the parameters (ParamShm takes the loads apart) and store   *)
(* the risk over the operator's; the gate rejects automatic entries.       *)
Sync ==
    /\ pc = "sync" /\ CanTrade
    /\ cfgRisk' = SyncedRisk /\ cliRisk' = SyncedRisk
    /\ lastVersion' = IF params.version > lastVersion THEN params.version ELSE lastVersion
    /\ IF ~Manual /\ ~params.gateOpen
         THEN pc' = "tick" /\ ResetConfirm
         ELSE pc' = "sl" /\ UNCHANGED view
    /\ UNCHANGED <<market, account, pos, orders, loaded, flags, cliSl, cliTp,
                   typedRisk, outside>>

(* Each override is loaded once to see whether it is set and once more to  *)
(* use it; the operator may type another in between.                       *)
SeeSl ==
    /\ pc = "sl" /\ pc' = "tp"
    /\ loaded' = [loaded EXCEPT !.sl = cliSl > 0]
    /\ UNCHANGED <<market, account, pos, orders, view, lastVersion, cfgRisk,
                   flags, settings, outside>>

LoadSl ==
    /\ pc = "tp" /\ pc' = "size"
    /\ loaded' = [loaded EXCEPT !.slDist = IF loaded.sl THEN cliSl ELSE atrStop,
                                !.tp = cliTp > 0]
    /\ UNCHANGED <<market, account, pos, orders, view, lastVersion, cfgRisk,
                   flags, settings, outside>>

TpDistRaw == IF loaded.tp THEN cliTp ELSE 2 * loaded.slDist
(* Wrong variant: the buffer over break-even is left out.                  *)
TpDistUnbuffered(breakeven) == TpDistRaw

(* max(tp_dist_raw, breakeven * 1.5), rounded up to an integer.            *)
TpDist(breakeven) ==
    IF 2 * TpDistRaw >= 3 * breakeven THEN TpDistRaw ELSE (3 * breakeven + 1) \div 2

(* Size the position with the risk and the target override stored by now;  *)
(* reject an automatic entry that cannot earn its costs, else open.        *)
Size ==
    /\ pc = "size" /\ pc' = "tick"
    /\ LET qty == PositionSize(loaded.slDist, cliRisk)
           breakeven == MinProfitPrice(qty)
           entry == IF GoLong THEN bid + Spread ELSE bid
           dir == IF GoLong THEN 1 ELSE -1
       IN pos' = IF ~Manual /\ TpDistRaw < breakeven THEN pos
                 ELSE [open |-> TRUE, long |-> GoLong, entry |-> entry,
                       sl |-> entry - dir * loaded.slDist,
                       tp |-> entry + dir * TpDist(breakeven),
                       qty |-> qty, entryTick |-> ticks, entryCost |-> cost,
                       manual |-> Manual, risk |-> cliRisk]
    /\ loaded' = NotLoaded
    /\ ResetConfirm
    /\ UNCHANGED <<market, account, orders, lastVersion, cfgRisk,
                   flags, settings, outside>>

----------------------------------------------------------------------------
Tick == \E p \in Prices, c \in Costs : NextTick(p, c)
Body == Manage \/ TakeBuy \/ TakeSell \/ Drain \/ NoTrade \/ Sync
          \/ SeeSl \/ LoadSl \/ Size

Cli == CliClose \/ CliBuy \/ CliSell
         \/ (\E d \in Overrides : CliSl(d) \/ CliTp(d))
         \/ (\E r \in TypedRisks : CliRisk(r))

Environment == (\E sig \in SignalType : Signal(sig))
                 \/ (\E r \in PublishedRisks, open \in BOOLEAN : Publish(r, open))

Next == Tick \/ EndOfFile \/ Body \/ Cli \/ Environment

Spec == Init /\ [][Next]_vars

(* The market is live and the loop never waits inside its body.            *)
FairSpec == Spec /\ WF_vars(Tick) /\ WF_vars(Body)

(***************************************************************************)
(* Properties                                                              *)
(***************************************************************************)
Opens == ~pos.open /\ pos'.open
Closes == pos.open /\ ~pos'.open

(* Once equity is at or under the circuit breaker nothing is traded any    *)
(* more: no position opens and the account stands still, for every         *)
(* starting equity ("permanently halted", account_state.hpp:21).           *)
HaltIsPermanent ==
    [][Halted => ~Opens /\ account' = account]_vars

(* No position outlives the tick that reaches its stop or its target: one  *)
(* held when the loop waits for the next tick is strictly between them,    *)
(* unless it was opened at this tick (manage, open).                       *)
HeldInsideBracket ==
    (pc = "tick" /\ pos.open /\ pos.entryTick < ticks) =>
        IF pos.long THEN pos.sl < bid /\ bid < pos.tp
                    ELSE pos.tp < bid + Spread /\ bid + Spread < pos.sl

(* A position closed at its target does not lose money, whatever override  *)
(* the operator typed, as long as costs have not outgrown the 1.5 buffer   *)
(* since the entry (min_profit_price, tp_dist).                            *)
TargetReached ==
    IF pos.long THEN bid >= pos.tp ELSE bid + Spread <= pos.tp

TakeProfitPays ==
    [][(Closes /\ TargetReached /\ 2 * cost <= 3 * pos.entryCost)
          => account'.current >= account.current]_vars

(* An automatic entry follows Persist ticks of conviction its way, all     *)
(* later than the previous entry (SIGNAL_PERSIST, the confirm counters).   *)
AutoEntryConfirmed ==
    [][(Opens /\ ~pos'.manual) =>
         /\ Len(recent) = Persist
         /\ \A i \in 1 .. Persist : recent[i] = IF pos'.long THEN 1 ELSE -1
         /\ pos.entryTick = 0 \/ ticks - pos.entryTick >= Persist]_vars

(* No automatic entry is empty or has its stop on the wrong side, also     *)
(* when the operator clears an override between its two loads: the size is *)
(* then zero and the hurdle out of reach (compute_position_size,           *)
(* min_profit_price).                                                      *)
AutoEntrySound ==
    (pos.open /\ ~pos.manual) =>
        /\ pos.qty > 0
        /\ IF pos.long THEN pos.sl < pos.entry /\ pos.entry < pos.tp
                       ELSE pos.tp < pos.entry /\ pos.entry < pos.sl

(* "close" typed while a position is open closes it at the next tick the   *)
(* market brings, whatever is typed or published meanwhile.                *)
CloseHonoured ==
    (cliClose /\ pos.open /\ ticks < MaxTicks) ~> (~pos.open \/ pc = "stopped")

(* The console offers "risk <pct>" (expert_engine.cpp:68): an operator who *)
(* has typed a risk, while nothing was published, trades at that risk.     *)
TypedRiskUsed ==
    [][(Opens /\ typedRisk # 0 /\ params.version = 0) => pos'.risk = typedRisk]_vars
=============================================================================
