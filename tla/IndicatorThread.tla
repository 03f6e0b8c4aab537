-------------------------- MODULE IndicatorThread --------------------------
(***************************************************************************)
(* The indicator thread (indicator_thread_fn in core/include/goldmine/     *)
(* pipeline.hpp) between its queues and the snapshot buffer, which the     *)
(* modules SpscQueue, PingPong and Pipeline are about: the session it      *)
(* keeps count of, the ring of ticks it fills and the indicators it        *)
(* computes over it on every gold tick.                                    *)
(*                                                                         *)
(* Time is in hours, prices are small integers.  The gold ticks are those  *)
(* of a session file chosen at the start: first hour, hours between two    *)
(* ticks, and how the price moves.  The co-feeds deliver whenever they     *)
(* like; a co-feed's price is the number of its ticks so far, 0 before the *)
(* first.                                                                  *)
(***************************************************************************)
EXTENDS TickStore, FiniteSets, FiniteSetsExt

CONSTANTS
    OpeningTicks,    \* ticks of the opening range (15)
    StartHours,      \* when the first gold tick may arrive
    StepHours,       \* hours between two gold ticks
    Moves,           \* how prices may move
    Ticks,           \* bound: gold ticks
    CoTicks          \* bound: co-feed ticks, all feeds together

ASSUME InputsAssumption ==
    /\ {OpeningTicks, Ticks, CoTicks} \subseteq Nat /\ StartHours \subseteq Nat \ {0}
    /\ StepHours \subseteq Nat /\ Moves \subseteq Nat

VARIABLES
    file,          \* the session file that is played
    co,            \* dxy_last, xag_last, yield_last
    store, ctx,    \* locals of the thread: the ring, SessionContext
    dayOpen,       \* day_open_ns
    snapshot,      \* what snapshot_pp was last given
    log,           \* history: every gold tick with its co-feed prices
    began          \* history: the first tick of the current session

vars == <<file, co, store, ctx, dayOpen, snapshot, log, began>>

Huge == 1000000      \* the initial lows: 1e9 and the largest double
CoFeeds == {"dxy", "xag", "yield"}
HourOf(time) == time % 24        \* utc_sod_seconds, in hours
AsianClose == 6
LondonOpen == 8

Tick(k) ==
    LET mid == 5 + ((k * file.move) % 7)
    IN [number |-> k, time |-> file.start + ((k - 1) * file.step), bid |-> mid - 1, last |-> mid]

(* prev_garch is left out: past the warm-up compute_garch11 ignores it.     *)
NewContext ==
    [ticks |-> 0, swingLow |-> Huge, asianHigh |-> 0, asianLow |-> Huge,
     asianFinalized |-> FALSE, openingHi |-> 0, openingLo |-> Huge, openingTicks |-> 0,
     prevVelocity |-> None]

NoTick == [number |-> 0, xag |-> 0]

Init ==
    /\ file \in [start : StartHours, step : StepHours, move : Moves]
    /\ co = [f \in CoFeeds |-> 0]
    /\ store = Empty(NoTick) /\ ctx = NewContext /\ dayOpen = 0
    /\ snapshot = [at |-> 0, carried |-> None, reads |-> [ready |-> FALSE]]
    /\ log = <<>> /\ began = 1

TypeOK ==
    /\ store.count = Len(log) /\ store.count <= Ticks
    /\ DOMAIN store.slot = 0 .. Win - 1
    /\ ctx.ticks \in 0 .. Len(log) /\ ctx.openingTicks \in 0 .. OpeningTicks
    /\ co \in [CoFeeds -> 0 .. CoTicks]
    /\ dayOpen \in Nat /\ began \in Nat

----------------------------------------------------------------------------
Higher(a, b) == IF a > b THEN a ELSE b

(* The first tick, or one more than 24 hours after the session's first,    *)
(* begins a session.                                                       *)
NewSession(t) == dayOpen = 0 \/ t.time - dayOpen > 24

(* The Asian range takes the ticks before 6:00 and is final with the first *)
(* later one, whether or not it saw any.  Wrong variant: the hour of the   *)
(* close still belongs to it.                                              *)
AsianRangeLate(c, t) ==
    IF HourOf(t.time) <= AsianClose
    THEN [c EXCEPT !.asianHigh = Higher(t.last, @), !.asianLow = Lesser(t.last, @)]
    ELSE [c EXCEPT !.asianFinalized = TRUE]

AsianRange(c, t) ==
    IF HourOf(t.time) < AsianClose
    THEN [c EXCEPT !.asianHigh = Higher(t.last, @), !.asianLow = Lesser(t.last, @)]
    ELSE [c EXCEPT !.asianFinalized = TRUE]

(* The opening range takes the session's first ticks after 8:00.           *)
OpeningRange(c, t) ==
    IF HourOf(t.time) >= LondonOpen /\ c.openingTicks < OpeningTicks
    THEN [c EXCEPT !.openingHi = Higher(t.last, @), !.openingLo = Lesser(t.last, @),
                   !.openingTicks = @ + 1]
    ELSE c

SwingLow(c, t) == [c EXCEPT !.swingLow = Lesser(t.bid, @)]

(* The session as it is when the indicators are computed.  Wrong variant:  *)
(* the count of its ticks outlives the session.                            *)
InSessionCountingOn(t) ==
    LET c == IF NewSession(t) THEN [NewContext EXCEPT !.ticks = ctx.ticks] ELSE ctx
        ranged == OpeningRange(AsianRange(SwingLow(c, t), t), t)
    IN [ranged EXCEPT !.ticks = @ + 1]

InSession(t) ==
    LET c == IF NewSession(t) THEN NewContext ELSE ctx
        ranged == OpeningRange(AsianRange(SwingLow(c, t), t), t)
    IN [ranged EXCEPT !.ticks = @ + 1]

Velocity(computed) == IF computed.ready THEN computed.kinematics ELSE None

(* A co-feed's next tick is popped.                                        *)
CoFeed(f) ==
    /\ co["dxy"] + co["xag"] + co["yield"] < CoTicks
    /\ co' = [co EXCEPT ![f] = @ + 1]
    /\ UNCHANGED <<file, store, ctx, dayOpen, snapshot, log, began>>

(* A gold tick is popped: session, ring, indicators, snapshot.             *)
Gold ==
    LET t == Tick(Len(log) + 1)
        row == [number |-> t.number, time |-> t.time, bid |-> t.bid, last |-> t.last,
                dxy |-> co["dxy"], xag |-> co["xag"], yield |-> co["yield"]]
        c == InSession(t)
        pushed == Pushed(store, row)
        computed == ComputeAll(pushed, c.ticks)
    IN /\ Len(log) < Ticks
       /\ dayOpen' = IF NewSession(t) THEN t.time ELSE dayOpen
       /\ began' = IF NewSession(t) THEN t.number ELSE began
       /\ store' = pushed
       /\ log' = Append(log, row)
       /\ snapshot' = [at |-> t.time, carried |-> c.prevVelocity, reads |-> computed]
       /\ ctx' = [c EXCEPT !.prevVelocity = Velocity(computed)]
       /\ UNCHANGED <<file, co>>

Next == Gold \/ \E f \in CoFeeds : CoFeed(f)

Spec == Init /\ [][Next]_vars

(***************************************************************************)
(* Properties.  L is the newest tick, Recent(n) the newest n.              *)
(***************************************************************************)
L == Len(log)
Recent(n) == [i \in 1 .. n |-> log[(L - n) + i]]
Steps(w) == [i \in 1 .. Len(w) - 1 |-> <<w[i], w[i + 1]>>]
Reads == snapshot.reads

(* Every window an indicator sums over is the newest ticks, each once and  *)
(* in order, however often the ring has lapped; the two halves of the VWAP *)
(* gradient as long as the session still fits the ring (indicators.hpp     *)
(* over SoATickStore::push).                                               *)
WindowsNewest ==
    Reads.ready =>
        /\ \A w \in {Reads.vwap, Reads.bollinger, Reads.keltner, Reads.volumes, Reads.zscore,
                     Reads.correlation, Reads.ols} : w = Recent(Len(w))
        /\ Reads.last = log[L] /\ Reads.before = log[L - 1]
        /\ Reads.gradient # None /\ ctx.ticks <= Win =>
              \A k \in 1 .. 2 : Reads.gradient[k] = Recent(Len(Reads.gradient[k]))

(* Every list of changes is the newest changes between neighbours: no      *)
(* change is left out between seed and smoothing, none is read beyond the  *)
(* window, and the velocity handed to the next tick is this one's.         *)
NewestSteps(c) == Len(c) < L /\ c = Steps(Recent(Len(c) + 1))

Velocities(k) == [j \in 1 .. 3 |-> <<log[k - Smooth - j + 1], log[k - j + 1]>>]

ChangesConsecutive ==
    Reads.ready =>
        /\ \A c \in {Reads.returns, Reads.volatility, Reads.trend, Reads.flow} : NewestSteps(c)
        /\ \A c \in {Reads.atr, Reads.rsi, Reads.garch} : NewestSteps(c[1] \o c[2])
        /\ SubSeq(Reads.atr[2], 1, Len(Reads.atr[3])) = Reads.atr[3]
        /\ Reads.hurst # None =>
              LET whole == Reads.hurst[1]
                  left == Reads.hurst[2]
                  right == Reads.hurst[3]
              IN NewestSteps(whole) /\ NewestSteps(right)
                    /\ left = SubSeq(whole, 1, Len(whole) - Len(right) - 1)
        /\ Reads.kinematics = Velocities(L)
        /\ snapshot.carried = (IF began < L /\ L > AtrPeriod + 1 THEN Velocities(L - 1) ELSE None)

(* The daily windows hold ticks of this session only, which is over within *)
(* 24 hours of its first tick: VWAP sums over the newest ones up to the    *)
(* ring's size.  The two windows of its gradient both end at the newest    *)
(* tick: all of the session's ticks, and all but the oldest Lookback; in   *)
(* place of a tick no longer in the ring they take the one now in its slot *)
(* (session_tick_count, day_open_ns, vwap_at in indicators.hpp).           *)
AsHeld(n) == [i \in 1 .. n |-> log[L - ((n - i) % Win)]]

SessionWindows ==
    LET n == (L - began) + 1
    IN L > 0 =>
        /\ dayOpen = log[began].time
        /\ \A k \in began .. L : log[k].time <= dayOpen + 24
        /\ began > 1 => log[began].time > log[1].time + 24
        /\ Reads.ready =>
              /\ Reads.vwap = Recent(Lesser(n, Win))
              /\ Reads.gradient # None =>
                    /\ Reads.gradient = <<AsHeld(n), AsHeld(n - Lookback)>>
                    /\ n <= Win => Reads.gradient = <<Recent(n), Recent(n - Lookback)>>
                    /\ \A k \in 1 .. 2 : \A i \in DOMAIN Reads.gradient[k] :
                          \E j \in began .. L : Reads.gradient[k][i] = log[j]

(* The ranges handed to the rules are those of the session's ticks: the    *)
(* Asian one of the ticks before 6:00, final iff a later tick was seen,    *)
(* the opening one of the first ticks after 8:00, the swing low of all     *)
(* (the context updates of indicator_thread_fn).                           *)
Highest(K) == Max({0} \cup {log[k].last : k \in K})
Lowest(K) == Min({Huge} \cup {log[k].last : k \in K})

SessionRanges ==
    LET session == began .. L
        asian == {k \in session : HourOf(log[k].time) < AsianClose}
        london == {k \in session : HourOf(log[k].time) >= LondonOpen}
        opening == {k \in london : Cardinality({j \in london : j <= k}) <= OpeningTicks}
    IN L > 0 =>
        /\ ctx.asianHigh = Highest(asian) /\ ctx.asianLow = Lowest(asian)
        /\ ctx.asianFinalized <=> asian # session
        /\ ctx.openingHi = Highest(opening) /\ ctx.openingLo = Lowest(opening)
        /\ ctx.openingTicks = Cardinality(opening)
        /\ ctx.swingLow = Min({log[k].bid : k \in session})
=============================================================================
