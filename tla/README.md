# goldmine-core: a TLA+ verification project

TLA+ models of the C++ trading core in this repository, the TLC configurations
that check them on small instances, and TLAPS proofs of what matters most for
every value of the parameters. Paths below are relative to the repository
root (`src/` in `PROJECT.json`).

1. [The system](#1-the-system)
2. [Modules and the code they model](#2-modules-and-the-code-they-model)
3. [Runs: what is checked and with which bounds](#3-runs)
4. [Fairness](#4-fairness)
5. [Proofs](#5-proofs)
6. [Findings](#6-findings)
7. [Abstractions and their price](#7-abstractions-and-their-price)
8. [Not modelled](#8-not-modelled)
9. [Plan](#9-plan)

To check a module: `tlc -config SpscQueue.cfg SpscQueue`; to check the proofs:
`tlapm M.tla` for `LockFreeQueueProofs`, `SharedMemoryProofs`, `PipelineProofs`,
`IndicatorProofs`, `LearningProofs`, `ExpertEngineProofs`, `ExecutionProofs` and
`TradeStoreProofs`.

## 1. The system

One process, `expert_engine`, holds the trading core. Around it the README of
the repository describes a feed process and a parameter server; they are not in
this repository and reach the engine only through two shared-memory blocks.

```
 feed process --SharedTick (shm)--> main loop --gold/DXY queues--> indicator thread
 param server --DynamicParams(shm)-> RiskEngine (main loop)             | ping-pong
 console thread --atomics--> main loop <--final queue-- risk thread     v buffer
                                 |                        ^--raw queue-- logic thread
                                 | log queue              |--outcome queue--^
                                 v                     PaperEngine
                            TradeStore worker --> SQLite
```

### 1.1 Inventory

| Component (source) | State | Operations | Hard behaviours | What makes it correct |
|---|---|---|---|---|
| SpscQueue (`include/goldmine/lockfree_queue.hpp`) | head_, tail_, two cached copies, N slots | try_push, try_pop, empty, approx_size | relaxed and acquire loads, cached indices, wrap-around | no slot is touched by both sides; lossless FIFO of N-1; sizes exact; items arrive |
| SpscPingPong (same file) | write_idx_, two slots, last_seen_ | store, load | the reader copies many words while the writer laps it | whole unless lapped; never older than announced; the newest arrives |
| LiveTickReader (`interfaces/cpp/goldmine/live_ingestion.hpp`) | SharedTick, last_seq_ | spin_wait_next | fields overwritten in place; bad headers; silence | one tick unless overtaken; nothing twice; last tick arrives |
| Parameter memory (`interfaces/cpp/goldmine/param_shm.hpp`, `core/include/goldmine/risk_engine.hpp`) | DynamicParams, last_version_id_, cfg_ | init, sync_parameters, load of the gate, publication (external) | publication during a sync or between sync and gate; start-up order | risk in force at least as new as its version, gate and risk of neighbouring publications; last publication applied |
| Main loop and console (`core/src/expert_engine.cpp`) | position, confirmation counters, cli_* atomics, drained conviction | per tick: manage, read flags, drain, synchronise, size, open | console and publisher act between any two loads | brackets, circuit breaker, confirmation, take-profit, close |
| AccountState, CostModel (`core/include/goldmine/`) | equity, peak, PnL; spread average | record_trade, is_trading_halted, compute_position_size, net_pnl, min_profit_price | zero and negative sizes, drifting costs | part of the main loop's properties |
| Pipeline (`core/include/goldmine/pipeline.hpp`) | running, six queues, ping-pong, latest ticks | three thread loops, stop() | four threads; full queues; lapped loads of the snapshot; unsynchronised latest tick; shutdown | order of loads, no signal on older prices, no stuck feed, stop returns |
| PaperEngine (same file) | position, summary, outcome queue | on_signal, close_position | gaps over the bracket, close and open in one call, full outcome queue | labels agree, drawdown right, gains only at targets |
| TradeStore (`include/goldmine/trade_store.hpp`) | queue, running_, transaction | init, log_trade, log_equity, worker, stop | batches, final drain, crash | accepted frames committed once, in order, none left by stop |
| RiskEngine sizing and limiter (`core/include/goldmine/risk_engine.hpp`) | Kelly and volatility state, rate window | compute_sizing, validate_execution, update_market_state, route_order | windows, clamps | limits hold for every input |
| OrderManager, connectors (`include/goldmine/execution/`) | connector, last price; order queue, report queue, orders | submit, cancel, I/O thread, match | queued orders at disconnect; clocks; cancel of a filled order | no order lost or sent twice; guards hold |
| TelemetryLogger, IpcBridge (`include/goldmine/`) | rings, running_ flag | log, drain, publish | a plain flag across threads, ring overrun | nothing lost silently, stop returns |
| Learner, rules, bitmask (`include/goldmine/online_learner.hpp`, `rule_registry.hpp`, `gold_rules.hpp`, `bitmask_engine.hpp`) | two copies of the weights, update count | add_rule, score, initialize, update, apply_to | outcomes dropped or late; copies that part; decay of all weights now and then | a position has the direction that the outcomes heard so far give its rules |
| Indicator thread (`core/include/goldmine/pipeline.hpp`, `include/goldmine/indicators.hpp`, `types.hpp`) | ring of 512 ticks, session context, day_open_ns | push, compute_all, session and range updates | laps of the ring, windows longer than the ring, sessions that drift, late co-feeds, seeds next to smoothing | every indicator over the newest ticks, once each; daily windows and ranges over the session's |
| Replay, packer, exporter (`replay_engine.hpp`, `replayer.hpp`, `tick_packer.hpp`, `feature_exporter.hpp`) | files | pack, replay, export | integer widths | packing invertible |
| Configuration, key guard, affinity, harness, scripts, vendored SQLite | - | - | - | see section 8 |

Interactions. The main loop takes a tick (`spin_wait_next` or a replay file),
pushes it into the pipeline, spinning when the queue is full, manages the open
position, reads the console's flags, drains the signals and may open a
position. The indicator thread writes `latest_tick` (a plain struct), computes a
snapshot and stores it in the ping-pong buffer; the logic thread loads it,
pairs it with the latest tick, evaluates the rules and pushes a raw signal; the
risk thread runs the paper engine on it, pushes outcomes back to the logic
thread and the signal on to the main loop. Each closed trade goes to the
TradeStore, whose worker writes SQLite.

`PROJECT.json` lists every component and every hazard at its line.

## 2. Modules and the code they model

Every definition that stands for code has its lines in `PROJECT.json` ("map").
Each module has an action per operation or per step another thread can observe.
Operators headed "Wrong variant" are deliberately broken versions of the
definition below them (a dropped guard, a swapped order); no specification uses
them: substituted for the original they must make TLC refute a property, which
shows that the property looks at that part of the code.

| Module | Models | State and steps |
|---|---|---|
| `SpscQueue` | try_push, try_pop, empty, approx_size | Variables are the members; `ppc`/`cpc` say where each thread is between its index load, reload, slot copy and index store. An acquire load returns any value the other index held since the last one read (`tailSeen`, `headSeen`). `sent`, `rcvd` are histories. |
| `BoundedFifo` | nothing: the abstract queue | Accept when there is room, Deliver the oldest. `SpscQueue` implements it: `ImplementsFifo`. |
| `LockFreeQueueProofs`, `SharedMemoryProofs`, `PipelineProofs`, `IndicatorProofs`, `LearningProofs`, `ExpertEngineProofs`, `ExecutionProofs`, `TradeStoreProofs` | proofs | Section 5. |
| `PingPong` | store, load | A snapshot is copied word by word, in any order, while the other thread runs. |
| `TickShm` | spin_wait_next against the feed (external) | Feed fills fields in place, then raises the number. |
| `ParamShm` | init(create), sync_parameters and the load of the gate after it, against the publisher (external) | Each field an atomic; init constructs them one by one, possibly over a publication. An entry may do without the gate (the operator asked for it). |
| `ExpertEngine` | main loop, console, AccountState, CostModel's use, sync_parameters | `pc` walks the loop body; between any two of its steps the console stores an atomic or a publication arrives. The overrides' double loads (`SeeSl`, `LoadSl`, `Size`) are separate steps. |
| `Pipeline` | feed_*, poll_signal, three thread loops, stop | One step per queue operation or shared read; queues are bounded FIFOs (what `SpscQueue` is shown to be). The ping-pong buffer's slots and index are there, stored (`IndicatorStoreWord`, `IndicatorRaise`) and loaded (`LogicLoad`, `LogicCopyWord`) word by word, so that a load can be lapped. A signal carries the tick its snapshot names and, as history, the index it was loaded under. |
| `PaperEngine` | on_signal, close_position, PaperTradeSummary | State and operations only: `OnSignal` takes a signal with bid and ask chosen apart. |
| `LearningLoop` (extends `PaperEngine`) | the logic and the risk thread around it: RuleRegistry's weights and score, OnlineLearner, the raw signal queue | `Learn` per outcome, `ApplyWeights` per pass, `Evaluate` with any set of rules that hold, `Execute` per signal. History variables say which outcomes a signal's weights had heard of and what the registration and each outcome since make of a learner. |
| `TickStore` | SoATickStore and every compute_* of indicators.hpp | Constant-level: a store is a record; an indicator is the sequence of ticks (or of changes between neighbours) it reads, `None` where it returns its default. Indices are taken modulo the ring exactly as the code does. |
| `IndicatorThread` (extends `TickStore`) | indicator_thread_fn between its queues and the snapshot | `Gold` is one pass of the gold branch: session, swing low, Asian and opening range, push, compute_all, carried velocity. `CoFeed` pops a DXY, XAG or yield tick. `log` keeps every tick there was. |
| `OrderRouting` | OrderManager over BinanceConnector: place_order, on_tick, start, stop, poll, cancel, io_worker | `hpc` and `iopc` say where the trading thread and the I/O thread are; a command is its place among those accepted, so order and loss are visible. An order carries the true age of the price it passed on. |
| `PaperConnector` | submit, cancel, match_against_tick, query_status of an unknown id | One record per client id with status, filled quantity and average price. |
| `Execution` (extends both) | OrderManager's template parameter: either connector behind the same guards | `venue` is fixed at the start. Over the paper connector, stop orders are submitted past the guards, as OrderManager has none. |
| `TradeStore` | init, log_trade, log_equity, worker, stop | One step per push, insert, commit; `Crash` at any point of an open session. |

Composition. `Pipeline`, `TradeStore` and `OrderRouting` use their queues as the
FIFO `SpscQueue` implements (proved for every size; `LockFreeOrderQueue` is the same
ring without cached indices). The ping-pong buffer is in `Pipeline` as it is in
`PingPong`, but for the stale loads of its index; `PingPong` says when a load is
whole, `Pipeline` what becomes of one that is not. `ExpertEngine` takes
sync_parameters and the gate in one step; `ParamShm` takes them apart. `Pipeline`
carries signals as numbers of ticks; `IndicatorThread` says what the indicator
thread computes for such a number, `LearningLoop` what the logic and the risk
thread make of it and send back. `Execution` puts OrderManager's guards, taken from
`OrderRouting`, in front of `PaperConnector`.

## 3. Runs

All bounds are CONSTANTS. A run's cfg has its module's name (`paper` is
`LearningLoop`, `orders` is `Execution`, `indicators` is `IndicatorThread`, `engine`
is `ExpertEngine`); the two violations have `ExpertEngineRisk.cfg` and
`LearningLoopDrawdown.cfg`.

| Run | Checks | Bounds and why they suffice |
|---|---|---|
| `queue` | SlotOwnership, OccupancyExact, ImplementsFifo, EveryItemDelivered | 4 slots, 2 items, 6 pushes: both indices wrap, the ring is full and empty on different laps, caches are up to a lap behind. The proofs cover every size. |
| `ping_pong` | WholeUnlessLapped, NeverStale, LatestDelivered | 2 words, 5 stores: two stores during one copy tear it (allowed), a third reuses a slot twice. |
| `tick_shm` | WholeUnlessOvertaken, EveryReturnIsNews, LastTickDelivered | 2 fields, 4 ticks, each with a good or a bad header: overtaking by one and more ticks, bad header before, between and after good ones. |
| `param_shm` | RiskNotOlder, GateNearRisk, LastPublicationApplied | 2 fields (the risk and the gate), 4 publications, any of them begun before or during init, between two loads of a sync or between sync and gate. |
| `engine` | HeldInsideBracket, AutoEntrySound, TakeProfitPays, HaltIsPermanent, AutoEntryConfirmed, CloseHonoured | 3 ticks with 3 prices (a gap beyond both ends of a bracket), 2 costs, 2 commands or publications, 2 ticks of confirmation, a start at the breaker and one above it: enough for a confirmed entry, its close and another entry; overrides set and cleared between loads; published risk 0 and above the cap; signals with a stop distance and without (2.6 million states). |
| `pipeline` | SignalsInOrder, NeverBehindSnapshot, FeedNeverStuck, LastTickEvaluated, StopReturns | Every queue of size 1, so each is full whenever it holds anything; 3 ticks so that one can be skipped between two evaluated, and a load of the first be lapped by the third: it copies the third's tick, or a mixture, and the next load goes back to the second; stop() between any two steps (238 000 states). |
| `trade_store` | FramesInOrder, StopCommitsAll, AcceptedIsCommitted | Queue of 3, transactions of 2: frames are dropped, batches fill in mid-trade; 4 trades over any number of sessions and crashes. |
| `paper` | LearnerAgrees, TradesWhatItLearned, DrawdownOfCloses, OnlyTargetsGain (1.6 million states) | A long and a short rule, 3 prices, 3 trades, both queues of 1: gaps over the bracket, wins, losses and break-even trades, dropped outcomes, signals scored before an outcome arrived. Weights in tenths, a learning rate of 50 per cent and a decay of all weights after every second update, so that three outcomes move a rule over the threshold and back. |
| `orders` | CommandsAccounted, PriceFresh, DisconnectReturns, SettledOnce (347 000 states) | Queues of 2 commands and 1 report, 4 commands, 2 connections: both queues full, disconnection with commands queued, the rest sent after the next connection. Clocks that agree, run behind, run ahead by less and by more than the limit. Paper: 2 ids, 3 submissions, stop-loss and take-profit orders, ticks short of a stop and beyond it, an id used again. |
| `indicators` | WindowsNewest, ChangesConsecutive, SessionWindows, SessionRanges (57 000 states) | A ring of 20 and 44 ticks: more than two laps. Windows of 4 to 14, one larger than the ring (25), in the order of the code's 14 to 900. Files that begin at 0:00, 7:00 and 18:00, with ticks at once, hourly or every 9 hours: a session of one file outgrows the ring, others hold a few ticks, begin in the Asian hours, after them, or in London and drift from day to day. |
| `engine_risk` | TypedRiskUsed, **violated** | Section 6. |
| `paper_drawdown` | DrawdownIsMaximal, **violated** | Section 6. |

The type invariants are proved, not run; that of `LearningLoop` is proved except for
the weights (section 5).

`ExpertEngine` and `IndicatorThread` are checked without deadlock checking: the main
loop leaves at the end of the replay or at the circuit breaker, and the session
file ends. In all other runs no state is stuck:
threads poll, and `Pipeline` ends in `Ended` only after stop() has returned.

What the properties are about, beyond their comments: `ImplementsFifo` and
`SlotOwnership` say that cached and stale indices are harmless;
`NeverBehindSnapshot`, that the unsynchronised `latest_tick` errs only towards
newer prices, because it is written before the snapshot; `AutoEntrySound`, that
the console clearing an override between its two loads cannot open a position
with the stop on the wrong side: the size is then zero and the hurdle 1e9;
`GateNearRisk`, that the gate, loaded apart from the risk, is at most one publication
older than it (a sync may take a risk that a publication has stored ahead of its gate
and its version) and never older than the version the risk was taken under;
`SignalsInOrder`, that a signal of the same or an earlier tick than the one before it
means that a load was lapped, and that skipping and dropping never cause it; `TradesWhatItLearned`, that the registry's weights are always those the
registration and the outcomes heard so far make, though two threads' queues lie
between a trade and the next; `WindowsNewest` and `ChangesConsecutive`, that some
twenty readers of one ring, each with its own index arithmetic, agree with the
list of ticks; `SessionWindows`, which ticks VWAP and its gradient take once a session
outgrows the ring, and that none is of the session before; `SessionRanges`, that the context handed to the rules is a function
of the session's ticks, wherever in the day the session begins.

## 4. Fairness

Liveness is checked under the weakest fairness the code's loops justify.

* `SpscQueue`: both threads poll for ever (pipeline.hpp's loops); a store becomes
  visible in finite time, hence strong fairness of a reload that sees it.
* `PingPong`: the logic thread polls for ever; a store() once begun ends. Nothing
  makes the indicator thread begin one.
* `TickShm`: the reader spins; nothing is assumed of the feed.
* `ParamShm`: the engine comes up and keeps synchronising; nothing is assumed of
  the publisher.
* `ExpertEngine`: ticks arrive, until the bound, and the loop body never waits.
  The console, the pipeline and the publisher may do nothing.
* `Pipeline`: each thread is a loop that never blocks. The caller finishes a feed,
  its polling and its join, but need not get a tick or call stop().
* `Execution`: as in `OrderRouting`, the I/O thread polls, and what is queued becomes visible in finite
  time (strong fairness of `IoPop`); the trading thread finishes a poll or a
  disconnect it is in, but need not begin one.
* `TradeStore`: the worker is scheduled, a pushed frame becomes visible in finite
  time (strong fairness of `Insert`, as try_pop may say "empty" on a stale load).
  Crashes may happen for ever; then only what was committed counts.

## 5. Proofs

Every safety property a run checks, invariant or action property, is a theorem
here, for every value of the constants; only liveness is left to TLC alone. Each
inductive invariant was first checked by TLC on the run's instance.

`LockFreeQueueProofs` begins with the arithmetic of residues (`ModSucc`, `ModLap`,
`ModInjective`, `ModDistance`), from the defining fact of division. It proves about
`SpscQueue`, for every N >= 2, every set of items and every bound on the pushes,
from the module's assumptions `NAssumption`, `ItemsAssumption` and
`MaxPushAssumption`:

* `TypeCorrect`: `Spec => []TypeOK`
* `SlotsOwned`: `Spec => []SlotOwnership`
* `NoOverwrite`: `Spec => []InFlightIntact`
* `SizeExact`: `Spec => []OccupancyExact`
* `RefinesFifo`: `Spec => ImplementsFifo`, the refinement of `BoundedFifo`

The argument. None of these is inductive: the code compares residues, and a
residue does not say which lap it belongs to. The inductive invariant `IInv`
ties every index and every cached index to the count of pushes or pops it stands
for (`IndicesMatch`), orders those counts (`CountsOrdered`: popped counts known
to the producer <= popped <= pushed counts known to the consumer <= pushed, and
the producer never a lap ahead of what it knows), records what each thread
established before it may touch its slot (`RoomForPush`, `ItemForPop`) and what
is in the threads' hands (`InHand`). The lemmas `FullTest` and `EmptyTest` turn
the code's comparisons of residues into comparisons of counts, since the counts
are less than N apart; `InFlightIntact` is preserved by a copy into a slot
because two counts less than N apart never share one (`WrapInjective`). There is
one lemma per action. In the refinement the publishing store is `Accept`, the
releasing store is `Deliver`, and every other step stutters.

It proves about `PingPong`, for every set of words and every bound on the stores
(`MaxStoreAssumption`): `BufferTypeCorrect`, `NothingStale`
(`PingPongSpec => []NeverStale`) and `WholeSnapshots`
(`PingPongSpec => []WholeUnlessLapped`). The two properties speak of what a reader has copied. The invariant adds what
the slots contain: one holds the newest complete store (`NewestSlot`), the other
the store before it or, word by word, the one being made (`OtherSlot`). A word
copied is then never older than the store the load decided on, and it is newer
only when the writer has come back to the reader's slot, which it does when it
begins a second further store: that is what "lapped" means. `Indices` bounds the counters.

`SharedMemoryProofs` proves about `ParamShm`, for every set of fields and every
number of publications: `ParamTypeCorrect`, `RiskInForceNotOlder`
(`Spec => []RiskNotOlder`) and `GateJudgedNearRisk` (`Spec => []GateNearRisk`). The first property speaks of the engine's copies; the
invariant adds that a version begun since the engine was up is backed by values
in the block at least as new (`ValuesBack`), because the publisher stores them
first (`StoredSoFar`) and nothing wipes them any more, and that the same holds
of a version a sync has loaded until it has loaded the values (`LoadedBack`). The
gate is loaded last, from a block whose values only get newer; while a publication
is under way, no value is more than one behind another (`Spread`), hence the gate at
most one behind a risk that was loaded (`RiskBack`).

It proves about `TickShm`, for every set of fields and number of ticks
(`MaxTickAssumption`): `TickTypeCorrect`, `CopyIsWhole`
(`TickSpec => []WholeUnlessOvertaken`) and the action property `ReturnsAreNews`
(`TickSpec => EveryReturnIsNews`). The invariant says what the feed has stored so far of
the tick it is writing (`Filling`), that all fields hold the published tick when it
is not (`FieldsHold`), and that the numbers the reader keeps are in order
(`Numbers`: during a call, last returned = current_seq <= last_seq_ <= published).

`PipelineProofs` proves about `Pipeline`, for every capacity of the queues and number
of ticks: `PipelineTypeCorrect`, `SignalsStayInOrder` (`Spec => []SignalsInOrder`)
and `MarketNeverBehind` (`Spec => []NeverBehindSnapshot`). A tick is followed
through the threads. Gold ticks are waited for, never dropped, so they reach the
indicator thread without a gap and store number k is of tick k (`Feeding`,
`Storing`). A slot only ever gets newer ticks, so a word copied under index k is of
tick k or a later one, lapped or not, and never newer than `latest_tick`, which was
written before the store began (`Loading`). Every queue of signals holds increasing
loads between the one its consumer took last and the one its producer made last
(`Signalling`); dropping and skipping only leave loads out. If a signal's tick is the
one its load decided on, all that follow name later ticks, which is
`SignalsInOrder`.

`IndicatorProofs` proves about `IndicatorThread`, for every ring size, set of windows
and session file (`SizesAssumption`, `WarmUpAssumption`, `InputsAssumption`):

* `WindowsAreNewest`: `Spec => []WindowsNewest`
* `ChangesAreConsecutive`: `Spec => []ChangesConsecutive`
* `WindowsOfSession`: `Spec => []SessionWindows`
* `RangesOfSession`: `Spec => []SessionRanges`
* `IndicatorTypeCorrect`: `Spec => []TypeOK`

Tick k is in slot (k - 1) % Win until Win later ticks have come (`RingHolds`,
inductive with the types: `RingCorrect`), since two ticks less than Win apart never
share a slot (`ModInjective`); a reader that goes back n <= Win slots from the count
therefore reads the newest n ticks (`NewestIsRecent`), and every reader but the VWAP
gradient cuts its window to what the ring holds. Of the gradient's two windows the
slot arithmetic gives, in place of a tick that was overwritten, the newest tick a whole
number of laps later (`ModLaps`, `NewestAsHeld`), which is still one of the session's
(`HeldWithin`). The changes a reader sums over are
those of a run of consecutive ticks; seed and smoothed part are joined and cut at the
index each indicator computes for itself (`StepsJoin`, `StepsCut`), which meets the
window's ends because the warm-up is longer than what a reader needs that does not
check for itself (`WarmUpAssumption`: 15 > 10, 15 >= 5 + 3 and 50 > 10 in the code).
`SessionInv` says which tick of the log began the session and that the context counts
its ticks, `CarriedInv` that the velocities carried over are those of the pass before;
both are `SessionCorrect`. `RangesInv` says that the context's ranges are the extremes
of the session's ticks the hour lets in: one more tick joins each set or leaves it
alone (`RangeJoins`, `RangeKeeps`), and a new session starts them over.

`LearningProofs` proves about `LearningLoop`, for every set of rules, prices, stop
distances, capacities of the two queues and number of trades (`MoneyAssumption`,
`SizesAssumption`, `CapitalAssumption`):

* `LearnerGetsTheTrades`: `Spec => []LearnerAgrees`
* `DrawdownIsOfCloses`: `Spec => []DrawdownOfCloses`
* `GainsAreTargets`: `Spec => OnlyTargetsGain`
* `PositionsFollowTheLearner`: `Spec => []TradesWhatItLearned`

`LearnerAgrees` speaks of closed trades; the invariant (`BooksCorrect`) adds where the
open one is recorded: its rules are the last opener (`Opener`), the equity is the
last point of the curve (`CurveEnds`), its stop is on the losing side of an entry the
book could give (`Bracket`). A kept trade's place in what the learner gets is the
number of kept trades up to it, which later trades do not change (`RankGrows`).
`Extremes` says that peak and drawdown are the largest of what the curve gives; the
deepest fall after one more close is the old one or the one from the peak to the new
point (`FallsGrow`). That needs the first close to lift the peak off its initial 0,
which it does because no trade of an ounce costs the starting capital of 10,000
dollars (`CapitalAssumption`). `InStep` follows the weights: the learner is the last of
the replay, the registry's copy is the learner's once the outcomes of a pass are
applied, and every queued signal was scored under the replay's weights as of the
outcomes heard before it.

`ExpertEngineProofs` proves about `ExpertEngine`, for every set of prices, costs,
overrides and published or typed risks (`MoneyAssumption`, `PersistAssumption`,
`HurdleAssumption`, `BoundAssumption`): `TypeCorrect`, `HeldInside`
(`Spec => []HeldInsideBracket`), `AutoEntriesSound` (`Spec => []AutoEntrySound`) and
the action properties `HaltPermanent`, `TargetsPay` and `EntriesConfirmed`
(`Spec => HaltIsPermanent`, `TakeProfitPays`, `AutoEntryConfirmed`). Each speaks of one
moment; what makes it hold was established steps before, while console and
publisher went on. The invariant carries it there: under the breaker nothing is held
and no decision to trade is under way (`HaltedFlat`, `Deciding`); once a tick has been
compared with the bracket it is inside (`Inside`); the target clears the buffered cost
(`TargetBuffered`); the confirmation counters count the end of the history of
convictions, none older than the last entry (`CountersTell`, `CountersSinceEntry`); the
stop distance in hand is an override, a signal's or the default (`StopInHand`), so an
override cleared between its two loads gives a size of 0 and a hurdle nothing
passes. Two assumptions on the constants: a round trip costs something (fees,
slippage and spread are positive in `cost_model.hpp`), and nobody types or suggests
a distance of half the 1e9 that stands for "never" (`HurdleAssumption`).

`ExecutionProofs` proves about `Execution`, for every room in the queues, limit, span
of the clocks and bound (`RoomAssumption`, `LimitAssumption`, `TimeAssumption`,
`BoundAssumption`, `PricesAssumption`): `RoutingTypes`, `AllAccounted`
(`ExecSpec => []CommandsAccounted`), `PricesFresh` (`ExecSpec => []PriceFresh`) and the
action property `OrdersSettleOnce` (`ExecSpec => SettledOnce`). Commands are named by
their place among those accepted, so that what was sent, what is in hand and what
is queued count up (`InOrder`), across any disconnections; the reports count up and
answer what was posted (`ReportsCount`), because the order being reported is the last
command sent (`Reporting`) and the I/O thread lives exactly from connect() until it is
joined (`ThreadLife`). The freshness of a price is decided by an unsigned difference:
a clock that is behind wraps to a huge age, and before any tick the age is the clock
itself, which is past the limit since clocks count from an epoch long past
(`TimeAssumption`). Each paper order is untouched while NEW and filled whole
(`Settling`).

`TradeStoreProofs` proves about `TradeStore`, for every queue capacity, batch
size and number of trades (`SizesAssumption`, `MaxTradesAssumption`), across
stops, restarts and crashes: `StoreTypeCorrect`, `FramesKeptInOrder`
(`Spec => []FramesInOrder`) and `StopLeavesNothing` (`Spec => []StopCommitsAll`).
`FramesInOrder` is an equation between sequences; two lemmas say that a frame may
be moved from the head of one to the end of another (`MoveHead`) and that
appending commutes with concatenation (`ConcatAppend`). `StopCommitsAll` rests on
the phases of the two threads (`EnginePhase`, `WorkerPhase`): the worker enters
its last drain only when the engine no longer pushes, and is done only with an
empty queue and no open transaction.

The proofs are about the modules, with the abstractions of section 7. Those
of `TradeStore` take the queue to be a FIFO, which `RefinesFifo` proves of the
ring.

Only model-checked: all liveness (TLAPS has no rule here for liveness under fairness
or ENABLED), and the types of the learned weights, since what a fold computes is
induction over data and out of reach of the installed provers. For the same reason
`LearnerAgrees` speaks of ranks and cardinalities and `TradesWhatItLearned` of a
history variable, not of folds over what was taken; each was compared with the fold
it replaces on the run's instance.

## 6. Findings

Two runs show the code disagreeing with what the repository says of it.

* `engine_risk`: the console offers `risk <pct>` (`core/src/expert_engine.cpp:68`),
  but every entry stores the synchronised risk over the typed one (`:298`) before
  it loads it (`:311`); only a command that lands between the two lines is heard. The
  configured `base_risk_pct` (`:143`) meets the same fate.
* `paper_drawdown`: `docs/PHASE2.md:29` promises the maximum drawdown. The peak
  starts at 0 while equity starts at 10000 (`include/goldmine/types.hpp:326-327`),
  so the first close sets the peak, and the fall from the starting capital to it is
  not part of any drawdown.

Smaller disagreements met on the way, visible in the models, not given a run:

* `core/include/goldmine/pipeline.hpp:181` speaks of 5 ticks of persistence; the
  engine uses `SIGNAL_PERSIST` = 8 (`core/src/expert_engine.cpp:169`).
* `README.md:99` counts on the engine draining its queues; signals are polled
  only after a tick (`expert_engine.cpp:275`), so what comes after the last tick
  stays in the queue.
* `README.md:67` calls the writing of a tick atomic; the fields of the shared tick
  are plain and overwritten in place (`TickShm`: whole unless overtaken).
* `lockfree_queue.hpp:168` speaks of the latest completed slot; a load lapped by
  two stores returns words of several (`PingPong`). In the pipeline it may copy the
  later store's tick under the older index, and since last_seen_ is that older index,
  the next load may return the same snapshot once more or go back to the one in
  between: the caller then gets two signals of one tick, or of ticks in the wrong
  order (`Pipeline`, `Lapped`). It takes a logic thread that is held up during the copy
  for as long as two ticks take.
* An entry may be judged by a gate one publication older than the risk that sizes it
  (`ParamShm`): the gate is loaded at `expert_engine.cpp:301`, after a sync that may have
  taken a risk whose gate and version were not stored yet.
* `types.hpp:181` calls vwap_gradient the slope of VWAP over a window. The second window
  (`indicators.hpp:531`) ends at the newest tick like the first and leaves out the oldest
  20 ticks; VWAP as it was 20 ticks ago would leave out the newest (`SessionWindows`).
* A publication begun before the engine has initialised the parameter block may
  be wiped and yet announced (`ParamShm`, history variable `early`).
* `base_connector.hpp:57` says that submit_order returns true when the order was
  "dispatched to the exchange"; BinanceConnector returns true when it is queued, and
  a disconnect leaves what is queued unsent until the next connect
  (`OrderRouting`: `orderQ` survives `Joined`).
* PaperConnector expects a market order's price to be the current bid or ask
  (`paper_connector.hpp:35`), but OrderManager makes an order a market order only
  when its price is not positive (`order_manager.hpp:74`): together they fill at
  that price.
* The daily loss limit (`order_manager.hpp:53`) is compared with the PnL realized
  since the account was created; nothing starts a new day.
* `indicators.hpp:143` calls VWAP "daily, cumulative"; it covers the newest 512 ticks
  of the session (`VwapReads`). The VWAP gradient (`:516`) is not cut to the ring: in a
  longer session it reads slots several times over (`GradientReads`).
* `pipeline.hpp:111` says "first 15 ticks of London"; they are the first 15 ticks of
  the session that come after 8:00, and a session begins 24 hours after the last,
  not at a time of day (`OpeningRange`, `NewSession`).
* asian_range_set is true once a tick after 6:00 was seen, also when none before was:
  the range is then 0 to 1e9 (`AsianRange`).
* prev_atr is two updates behind atr, so "expanding" compares over two ticks
  (`AtrReads`).
* `online_learner.hpp:100` says "every 100 updates"; the decay comes every 128.
* The learner's label is whether the trade was profitable, not its direction
  (`online_learner.hpp:27`), and weights move towards it: a profitable short raises
  the negative weight of the rules that argued for it (`Updated`).
* As registered (`expert_engine.cpp:101-108`), the two rules weigh 0.30 each, exclude
  each other and never reach the 0.40 that makes a direction (`pipeline.hpp:183`): the
  paper engine does not trade until other rules are registered. `LearningLoop` is
  checked with a rule that passes the threshold.
* An order with a price goes through OrderManager as a LIMIT, which the paper
  connector keeps and never matches (`paper_connector.hpp:82`), and cancelling a filled order
  rewrites its status, though not its fill (`SettledOnce`).
* "close" typed while no position is open stays latched and closes the next one
  on its first tick (`ExpertEngine`, `Manage`).

## 7. Abstractions and their price

* Money and prices are small integers, so rounding of doubles is not seen. A
  position has size 1, or 0 when `compute_position_size` returns 0; how large it
  is otherwise is not a subject.
* In `Pipeline` the words of a snapshot are its tick and its DXY price, and the steps of a
  thread take effect in the order of the program: `NeverBehindSnapshot` rests on the logic
  thread copying the snapshot before it reads `latest_tick`, which x86 (the engine uses its
  intrinsics) keeps but the language does not promise of plain loads, and a price is read
  whole.
* The round-trip cost per unit is one number that moves by at most one per tick,
  as the spread average does; the buffer of 1.5 over break-even is kept exactly
  and rounded up.
* Confidence is reduced to the side on which the conviction passes its threshold;
  the rules' arithmetic is a free choice of signal.
* In `ExpertEngine` at most one signal waits, and arrives right before it is
  drained: only `Drain` looks at the queue, so any earlier arrival is the same. Of
  several signals the code keeps the last.
* In `ExpertEngine` the gate is loaded together with the values; the load of its own
  is in `ParamShm`.
* `TickStore` keeps which ticks a formula reads and in which order, not the formula.
  Thresholds on results (a volume sum of 0, a variance below 1e-12) are formula.
  prev_garch is left out: compute_garch11 ignores it past the warm-up.
* `IndicatorThread` counts time in hours and takes gold ticks from a family of
  session files with equal steps; a co-feed's price is the number of its ticks.
* Learned weights are integers that round down; learning rate, decay and its period
  are scaled so that three outcomes matter. Properties compare with a replay of the
  same update, so they do not depend on the rounding. Which rules hold is any set.
* The DXY queue of `Pipeline` stands for the three co-asset queues, polled alike.
  XAG and yields never reach the logic thread's shared prices.
* `PaperEngine` reads bid and ask from a struct without synchronisation, so they
  are chosen independently: a superset of what can be read.
* SQLite's statements succeed and the operating system survives (the code sets
  `PRAGMA synchronous = OFF`). The return values the code ignores are ignored.
* The feed and the publisher follow the protocol of `README.md`; a feed that
  restarts its count is a listed hazard without a property.

## 8. Not modelled

* `IpcBridge`: a ring of commands in shared memory for a reader in another program
  (an MT5 adviser) that is not in the repository; no program here constructs it. What
  an overrun or a lost command means is decided by that reader.
* `TelemetryLogger`: no program here constructs one. Its queue is `SpscQueue`, its
  shape `TradeStore`'s worker without transactions. That `running_` is a plain bool
  read by another thread is a listed hazard.
* RiskEngine's compute_sizing, validate_execution, update_market_state and
  route_order: called by no thread of any program here, so there is no interleaving
  to check; single calls are arithmetic on doubles.
* `load_weights_from_file` and the 25 default rules: nothing calls them.
* Replay, packer, exporter, backtest harness: sequential file I/O; only the end of a
  replay file reaches the engine's behaviour, and that is in `ExpertEngine`.
* A second start() of the pipeline after stop().
* The formulas of the indicators and the rules' predicates (section 7).
* `config_loader.hpp`, `security_guard.hpp`, `cpu_affinity.hpp`: parsing, masking
  and pinning; no state the properties depend on.
* Tests and scripts: read as evidence of use.
* Orchestrator, ingest, brain, risk server, dumper: described in `README.md`, not
  in the repository.
* Vendored SQLite: external to `TradeStore`.

## 9. Plan

Done: the queue, ping-pong, the two shared memories, the engine, the pipeline with
its indicator thread and learning loop, the store, and order routing over both
connectors; the proofs of section 5, of every safety property the runs check. Left,
the most important first:

1. A failing SQLite: statements of `TradeStore` whose result the code ignores, and
   what `FramesInOrder` still says then.
2. Composition: `Pipeline`, `TradeStore` and `OrderRouting` over `BoundedFifo` by
   INSTANCE, so that the refinement of the ring carries over; the position of
   `LearningLoop` inside `Pipeline`.
3. RiskEngine's limiter, TelemetryLogger and IpcBridge, once a program uses them.
