----------------------------- MODULE TickStore -----------------------------
(***************************************************************************)
(* The ring of recent ticks (SoATickStore in include/goldmine/types.hpp)   *)
(* and what every indicator of include/goldmine/indicators.hpp reads from  *)
(* it.  The statistics themselves are floating-point formulas; which ticks *)
(* they are taken over, and when an indicator gives up for want of ticks,  *)
(* is what is modelled: an indicator is the ticks it reads, in the order   *)
(* it reads them.                                                          *)
(*                                                                         *)
(* A store is [slot, count]; a slot holds all the columns of one tick.     *)
(* Indices are taken modulo the ring's size exactly as the code does, so a *)
(* reader that goes back too far reads other ticks, never nothing.         *)
(***************************************************************************)
EXTENDS Integers, Sequences

CONSTANTS
    Win,          \* INDICATOR_WIN: slots of the ring (512)
    AtrPeriod,    \* ATR_PERIOD and RSI_PERIOD (14)
    Short,        \* the 20-tick windows: bands, z-score, volatility, order flow
    Medium,       \* the 50-tick windows: returns, regression, GARCH, silver
    Long,         \* the 100-tick window of the Hurst exponent
    Corr,         \* CORR_WINDOW (900), larger than the ring
    Smooth,       \* ticks a velocity is taken over (5)
    Lookback,     \* ticks the VWAP gradient looks back (20)
    GarchSeed,    \* changes that seed the GARCH variance (10)
    HurstMin      \* ticks the Hurst exponent needs (20)

Sizes == {Win, AtrPeriod, Short, Medium, Long, Corr, Smooth, Lookback, GarchSeed, HurstMin}

ASSUME SizesAssumption ==
    /\ Sizes \subseteq Nat \ {0}
    /\ AtrPeriod + 1 <= Win /\ Short <= Win

(* The warm-up of compute_all is longer than what the readers need that do *)
(* not check for themselves (15 > 10 and 15 >= 5 + 3 in the code), and so  *)
(* is the window the GARCH seed is taken from (50 > 10).                   *)
ASSUME WarmUpAssumption ==
    /\ GarchSeed < AtrPeriod + 1 /\ GarchSeed < Medium
    /\ Smooth + 3 <= AtrPeriod + 1
    /\ 5 <= AtrPeriod + 1 /\ 5 <= Medium

None == <<>>     \* an indicator that returned its default

Lesser(a, b) == IF a <= b THEN a ELSE b

Empty(blank) == [slot |-> [i \in 0 .. Win - 1 |-> blank], count |-> 0]

Pushed(s, t) ==
    [slot |-> [s.slot EXCEPT ![s.count % Win] = t], count |-> s.count + 1]

Filled(s) == Lesser(s.count, Win)

(* Position i of the window of the newest n ticks (idx = (base + i) % N),  *)
(* the window itself, and the tick k before the last.                      *)
Position(s, n, i) == s.slot[((s.count - n) + i) % Win]

Newest(s, n) == [i \in 1 .. n |-> Position(s, n, i - 1)]

Ago(s, k) == s.slot[(s.count - 1 - k) % Win]

(* The changes from position i - 1 to i, for i = first .. last.            *)
Changes(s, n, first, last) ==
    [j \in 1 .. (last - first + 1) |->
        <<Position(s, n, first + j - 2), Position(s, n, first + j - 1)>>]

----------------------------------------------------------------------------
(* Wrong variant: the window is not cut to what the ring holds.            *)
VwapReadsAll(s, session) == Newest(s, session)

VwapReads(s, session) == Newest(s, Lesser(session, Filled(s)))

(* Wrong variant: the last change of the seed is smoothed in once more.    *)
AtrReadsTwice(s) ==
    LET n == Filled(s)
    IN IF n < AtrPeriod + 1 THEN None
       ELSE <<Changes(s, n, 1, AtrPeriod), Changes(s, n, AtrPeriod, n - 1),
              Changes(s, n, AtrPeriod, n - 3)>>

(* Wilder's smoothing: a seed, then one update a tick.  prev_atr is taken  *)
(* before update n - 2, so it is two updates behind atr.                   *)
AtrReads(s) ==
    LET n == Filled(s)
    IN IF n < AtrPeriod + 1 THEN None
       ELSE <<Changes(s, n, 1, AtrPeriod), Changes(s, n, AtrPeriod + 1, n - 1),
              Changes(s, n, AtrPeriod + 1, n - 3)>>

RsiReads(s) ==
    LET n == Filled(s)
    IN IF n < AtrPeriod + 1 THEN None
       ELSE <<Changes(s, n, 1, AtrPeriod), Changes(s, n, AtrPeriod + 1, n - 1)>>

EmaReads(s, period) ==
    LET n == Lesser(Filled(s), 3 * period)
    IN IF n < period THEN None ELSE Newest(s, n)

BollingerReads(s) == IF Filled(s) < Short THEN None ELSE Newest(s, Short)

KeltnerReads(s) == EmaReads(s, Short)

(* A window of at most `period` ticks, for indicators that need `least`.   *)
WindowReads(s, period, least) ==
    LET n == Lesser(Filled(s), period) IN IF n < least THEN None ELSE Newest(s, n)

ZscoreReads(s) == WindowReads(s, Short, 2)
VolumeReads(s) == WindowReads(s, Short, 1)
CorrelationReads(s) == WindowReads(s, Corr, 4)
OlsReads(s) == WindowReads(s, Medium, 5)

(* Ticks from before silver's first price (0) are passed over.             *)
SilverReads(s) ==
    LET Quoted(t) == t.xag # 0
        quoted == SelectSeq(WindowReads(s, Medium, 5), Quoted)
    IN IF Len(quoted) < 3 THEN None ELSE quoted

(* The changes over a window of at most `period` ticks.                    *)
ChangeReads(s, period, least) ==
    LET n == Lesser(Filled(s), period) IN IF n < least THEN None ELSE Changes(s, n, 1, n - 1)

ReturnReads(s) == ChangeReads(s, Medium, 4)
VolatilityReads(s) == ChangeReads(s, Short, 3)
TrendReads(s) == ChangeReads(s, Short, 3)
FlowReads(s) == ChangeReads(s, Short, 3)

(* The seed reads up to position min(n, 10) although the window ends at    *)
(* n - 1: only the warm-up keeps it inside.                                *)
GarchReads(s) ==
    LET n == Lesser(Filled(s), Medium)
    IN IF n < 5 THEN None
       ELSE <<Changes(s, n, 1, Lesser(n, GarchSeed)),
              Changes(s, n, GarchSeed + 1, n - 1)>>

(* Rescaled range over the window and over its two halves.                 *)
HurstReads(s) ==
    LET n == Lesser(Filled(s), Long)
        h == n \div 2
    IN IF n < HurstMin THEN None
       ELSE <<Changes(s, n, 1, n - 1), Changes(s, n, 1, h - 1), Changes(s, n, h + 1, n - 1)>>

(* Velocity, and the velocities one and two ticks ago.                     *)
KinematicReads(s) ==
    IF Filled(s) < Smooth + 3 THEN None
    ELSE [k \in 1 .. 3 |-> <<Ago(s, Smooth + k - 1), Ago(s, k - 1)>>]

(* Both windows end at the newest tick, and neither is cut to the ring.    *)
GradientReads(s, session) ==
    IF session < Lookback + 5 THEN None
    ELSE <<Newest(s, session), Newest(s, session - Lookback)>>

(* compute_all: nothing at all before the ring holds a full ATR period.    *)
ComputeAll(s, session) ==
    IF Filled(s) < AtrPeriod + 1 THEN [ready |-> FALSE]
    ELSE [ready |-> TRUE,
          atr |-> AtrReads(s), vwap |-> VwapReads(s, session),
          bollinger |-> BollingerReads(s), keltner |-> KeltnerReads(s),
          last |-> Ago(s, 0), volumes |-> VolumeReads(s), zscore |-> ZscoreReads(s),
          rsi |-> RsiReads(s), correlation |-> CorrelationReads(s),
          returns |-> ReturnReads(s), kinematics |-> KinematicReads(s),
          gradient |-> GradientReads(s, session), ols |-> OlsReads(s),
          garch |-> GarchReads(s), hurst |-> HurstReads(s),
          volatility |-> VolatilityReads(s), trend |-> TrendReads(s),
          silver |-> SilverReads(s), flow |-> FlowReads(s), before |-> Ago(s, 1)]
=============================================================================
