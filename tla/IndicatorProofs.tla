-------------------------- MODULE IndicatorProofs --------------------------
(***************************************************************************)
(* For every size of the ring, every set of session files and every number *)
(* of ticks: the windows the indicators sum over are the newest ticks and  *)
(* none of them was overwritten; those that sum over changes take each     *)
(* change once; the daily windows and the ranges are those of the session. *)
(*                                                                         *)
(* The argument.  Tick k sits in slot (k - 1) % Win as long as fewer than  *)
(* Win ticks came after it (RingHolds), because two ticks less than Win    *)
(* apart never share a slot; so reading back n <= Win slots from the count *)
(* gives the newest n ticks (NewestIsRecent).  The changes are those of    *)
(* a run of consecutive ticks, split into a seed and what is smoothed      *)
(* after it.  The log says which tick began the session (SessionInv), and  *)
(* the ranges fold the ticks since then that the hour lets in (RangesInv). *)
(***************************************************************************)
EXTENDS IndicatorThread, SequenceTheorems, FiniteSetTheorems, TLAPS

(* Division with remainder.                                                *)
LEMMA DivMod ==
    ASSUME NEW n \in Nat, n >= 1, NEW a \in Nat
    PROVE  /\ a = (n * (a \div n)) + (a % n)
           /\ a % n \in 0 .. n - 1
           /\ a \div n \in Nat
  OBVIOUS

(* A whole number of laps later is the same slot.                          *)
LEMMA ModLaps ==
    ASSUME NEW n \in Nat, n >= 1, NEW a \in Nat, NEW d \in Nat
    PROVE  (a + (n * d)) % n = a % n
<1> DEFINE b == a + (n * d)
           p == a \div n
           r == a % n
           q == b \div n
           t == b % n
<1>1. a = (n * p) + r /\ p \in Nat /\ r \in 0 .. n - 1
  BY DivMod
<1>2. b \in Nat /\ n * d \in Nat
  OBVIOUS
<1>3. b = (n * q) + t /\ q \in Nat /\ t \in 0 .. n - 1
  BY <1>2, DivMod
<1>4. b = a + (n * d)
  OBVIOUS
<1> HIDE DEF b, p, r, q, t
<1>5. t - r = n * ((p + d) - q)
  BY <1>1, <1>3, <1>4
<1>6. (p + d) - q = 0
  BY <1>1, <1>3, <1>5
<1>7. t = r
  BY <1>1, <1>3, <1>5, <1>6
<1>8. QED
  BY <1>7 DEF t, r, b

(* Items less than a lap apart have different slots.                       *)
LEMMA ModInjective ==
    ASSUME NEW n \in Nat, n >= 1, NEW a \in Nat, NEW b \in Nat,
           a <= b, b - a < n, a % n = b % n
    PROVE  a = b
<1> DEFINE p == a \div n
           q == b \div n
           r == a % n
<1>1. a = (n * p) + r /\ p \in Nat /\ r \in 0 .. n - 1
  BY DivMod
<1>2. b = (n * q) + r /\ q \in Nat
  BY DivMod
<1>3. b - a = n * (q - p)
  BY <1>1, <1>2
<1>4. q - p = 0
  BY <1>1, <1>2, <1>3
<1>5. QED
  BY <1>1, <1>2, <1>4

Rows == [number : Nat, time : Int, bid : Int, last : Int, dxy : Nat, xag : Nat, yield : Nat]

(* A context whose session counts n ticks.                                 *)
Fields == {"ticks", "swingLow", "asianHigh", "asianLow", "asianFinalized", "openingHi",
           "openingLo", "openingTicks", "prevVelocity"}

Counts(c, n) == DOMAIN c = Fields /\ c = [f \in Fields |-> c[f]] /\ c.ticks = n

(* What the thread's variables are, as far as the argument needs it.       *)
Types ==
    /\ log \in Seq(Rows)
    /\ store \in [slot : [0 .. Win - 1 -> Rows \cup {NoTick}], count : Nat]
    /\ store.count = Len(log)
    /\ co \in [CoFeeds -> Nat]
    /\ file \in [start : Nat, step : Nat, move : Nat]
    /\ \E n \in 0 .. Len(log) : Counts(ctx, n)

RingHolds ==
    \A k \in 1 .. Len(log) : Len(log) - k < Win => store.slot[(k - 1) % Win] = log[k]

SnapshotFresh ==
    snapshot.reads = IF log = <<>> THEN [ready |-> FALSE] ELSE ComputeAll(store, ctx.ticks)

IInv == Types /\ RingHolds /\ SnapshotFresh

LEMMA Constants ==
    /\ Win \in Nat /\ Win >= 1 /\ AtrPeriod \in Nat /\ AtrPeriod >= 1
    /\ Short \in Nat /\ Short >= 1 /\ Medium \in Nat /\ Medium >= 1
    /\ Corr \in Nat /\ Corr >= 1 /\ Smooth \in Nat /\ Smooth >= 1
    /\ Lookback \in Nat /\ Lookback >= 1 /\ GarchSeed \in Nat /\ GarchSeed >= 1
    /\ Long \in Nat /\ Long >= 1 /\ HurstMin \in Nat /\ HurstMin >= 1
    /\ AtrPeriod + 1 <= Win /\ Short <= Win /\ 5 <= AtrPeriod + 1 /\ 5 <= Medium
    /\ GarchSeed < AtrPeriod + 1 /\ GarchSeed < Medium /\ Smooth + 3 <= AtrPeriod + 1
<1>1. \A x \in Sizes : x \in Nat /\ x >= 1
  BY SizesAssumption
<1>2. {Win, AtrPeriod, Short, Medium, Long, Corr, Smooth, Lookback, GarchSeed,
       HurstMin} \subseteq Sizes
  BY DEF Sizes
<1>3. QED
  BY <1>1, <1>2, SizesAssumption, WarmUpAssumption

(* Reading back no further than the ring is filled gives the newest ticks. *)
LEMMA NewestIsRecent ==
    ASSUME Types, RingHolds, NEW n \in 0 .. Filled(store)
    PROVE  Newest(store, n) = Recent(n)
<1> n \in Nat /\ n <= Len(log) /\ n <= Win /\ Len(log) \in Nat
  BY Constants DEF Types, Filled, Lesser
<1> SUFFICES ASSUME NEW i \in 1 .. n
             PROVE  Position(store, n, i - 1) = log[(L - n) + i]
  BY DEF Newest, Recent
<1> DEFINE k == (L - n) + i
<1>1. k \in 1 .. Len(log) /\ Len(log) - k < Win
  BY Constants DEF L
<1>2. (store.count - n) + (i - 1) = k - 1
  BY DEF Types, L
<1>3. QED
  BY <1>1, <1>2 DEF RingHolds, Position

(* The session's updates touch its ranges only, and count the tick.        *)
LEMMA NewContextCounts == Counts(NewContext, 0)
BY DEF NewContext, Counts, Fields

LEMMA RangesKeepCount ==
    ASSUME NEW c, NEW n, NEW t, Counts(c, n)
    PROVE  /\ Counts(SwingLow(c, t), n)
           /\ Counts(AsianRange(c, t), n)
           /\ Counts(OpeningRange(c, t), n)
<1>1. Counts(SwingLow(c, t), n)
  BY DEF SwingLow, Counts, Fields
<1>2. Counts(AsianRange(c, t), n)
  BY DEF AsianRange, Counts, Fields
<1>3. Counts(OpeningRange(c, t), n)
  BY DEF OpeningRange, Counts, Fields
<1>4. QED
  BY <1>1, <1>2, <1>3

LEMMA SessionCounts ==
    ASSUME NEW t, NEW n \in Nat, Counts(ctx, n)
    PROVE  Counts(InSession(t), IF NewSession(t) THEN 1 ELSE n + 1)
<1> DEFINE c == IF NewSession(t) THEN NewContext ELSE ctx
           m == IF NewSession(t) THEN 0 ELSE n
           ranged == OpeningRange(AsianRange(SwingLow(c, t), t), t)
<1>1. Counts(c, m)
  BY NewContextCounts
<1>2. Counts(ranged, m)
  <2> HIDE DEF c, m
  <2> QED
    BY <1>1, RangesKeepCount
<1>3. m \in Nat /\ m + 1 = IF NewSession(t) THEN 1 ELSE n + 1
  OBVIOUS
<1>4. Counts([ranged EXCEPT !.ticks = @ + 1], m + 1)
  <2> HIDE DEF ranged, m
  <2> QED
    BY <1>2, <1>3 DEF Counts, Fields
<1>5. InSession(t) = [ranged EXCEPT !.ticks = @ + 1]
  BY DEF InSession
<1>6. QED
  BY <1>3, <1>4, <1>5

LEMMA InitInv == Init => IInv
<1> SUFFICES ASSUME Init PROVE IInv
  OBVIOUS
<1>1. file \in [start : Nat, step : Nat, move : Nat]
  BY InputsAssumption DEF Init
<1>2. store \in [slot : [0 .. Win - 1 -> Rows \cup {NoTick}], count : Nat] /\ store.count = 0
  BY DEF Init, Empty
<1>3. log = <<>> /\ log \in Seq(Rows) /\ Len(log) = 0
  BY DEF Init
<1>4. co \in [CoFeeds -> Nat]
  BY DEF Init
<1>5. Counts(ctx, 0)
  BY NewContextCounts DEF Init
<1>6. Types
  BY <1>1, <1>2, <1>3, <1>4, <1>5 DEF Types
<1>7. RingHolds /\ SnapshotFresh
  BY <1>3 DEF RingHolds, SnapshotFresh, Init
<1>8. QED
  BY <1>6, <1>7 DEF IInv

LEMMA CoFeedStep ==
    ASSUME IInv, NEW f \in CoFeeds, CoFeed(f)
    PROVE  IInv'
<1>1. co' \in [CoFeeds -> Nat]
  BY DEF IInv, Types, CoFeed
<1>2. UNCHANGED <<file, store, ctx, dayOpen, snapshot, log, began>>
  BY DEF CoFeed
<1>3. Types'
  BY <1>1, <1>2 DEF IInv, Types, Counts, Fields
<1>4. RingHolds' /\ SnapshotFresh'
  BY <1>2 DEF IInv, RingHolds, SnapshotFresh, ComputeAll
<1>5. QED
  BY <1>3, <1>4 DEF IInv

(* The only step that touches the ring.                                    *)
LEMMA PushHolds ==
    ASSUME Types, RingHolds, NEW row \in Rows,
           store' = Pushed(store, row), log' = Append(log, row)
    PROVE  /\ log' \in Seq(Rows) /\ Len(log') = Len(log) + 1
           /\ store' \in [slot : [0 .. Win - 1 -> Rows \cup {NoTick}], count : Nat]
           /\ store'.count = Len(log')
           /\ RingHolds'
<1> DEFINE c == store.count
<1>1. c \in Nat /\ c = Len(log) /\ log \in Seq(Rows)
  BY DEF Types
<1>2. c % Win \in 0 .. Win - 1
  BY <1>1, Constants, DivMod
<1>3. /\ log' \in Seq(Rows) /\ Len(log') = c + 1
      /\ \A k \in 1 .. c : log'[k] = log[k]
      /\ log'[c + 1] = row
  BY <1>1
<1>4. /\ store'.count = c + 1
      /\ store'.slot = [store.slot EXCEPT ![c % Win] = row]
      /\ store' \in [slot : [0 .. Win - 1 -> Rows \cup {NoTick}], count : Nat]
  BY <1>1, <1>2 DEF Types, Pushed
<1>5. \A j \in 0 .. Win - 1 :
         store'.slot[j] = IF j = c % Win THEN row ELSE store.slot[j]
  BY <1>4 DEF Types
<1>6. \A k \in 1 .. c : c - k < Win => store.slot[(k - 1) % Win] = log[k]
  BY <1>1 DEF RingHolds
<1>7. ASSUME NEW k \in 1 .. c + 1, (c + 1) - k < Win
      PROVE  store'.slot[(k - 1) % Win] = log'[k]
  <2> HIDE DEF c
  <2>1. CASE k = c + 1
    <3>1. (k - 1) % Win = c % Win
      BY <2>1, <1>1
    <3>2. QED
      BY <2>1, <3>1, <1>2, <1>3, <1>5
  <2>2. CASE k # c + 1
    <3>1. c \in Nat /\ Win \in Nat /\ k \in 1 .. c + 1 /\ (c + 1) - k < Win
      BY <1>1, <1>7, Constants
    <3>2. k \in 1 .. c /\ c - k < Win /\ k - 1 \in Nat /\ k - 1 <= c /\ c - (k - 1) < Win
      BY <2>2, <3>1
    <3>3. (k - 1) % Win # c % Win
      <4> SUFFICES ASSUME (k - 1) % Win = c % Win PROVE FALSE
        OBVIOUS
      <4>1. k - 1 = c
        BY <3>1, <3>2, Constants, ModInjective
      <4>2. QED
        BY <4>1, <3>1, <2>2
    <3>4. (k - 1) % Win \in 0 .. Win - 1
      BY <3>2, Constants, DivMod
    <3>5. QED
      BY <3>2, <3>3, <3>4, <1>3, <1>5, <1>6
  <2>3. QED
    BY <2>1, <2>2
<1>8. RingHolds'
  BY <1>1, <1>3, <1>7 DEF RingHolds
<1>9. QED
  BY <1>1, <1>3, <1>4, <1>8

LEMMA GoldStep ==
    ASSUME IInv, Gold
    PROVE  IInv'
<1> DEFINE t == Tick(Len(log) + 1)
           row == [number |-> t.number, time |-> t.time, bid |-> t.bid, last |-> t.last,
                   dxy |-> co["dxy"], xag |-> co["xag"], yield |-> co["yield"]]
           c == InSession(t)
           computed == ComputeAll(Pushed(store, row), c.ticks)
<1> USE DEF IInv
<1>1. /\ store' = Pushed(store, row) /\ log' = Append(log, row)
      /\ ctx' = [c EXCEPT !.prevVelocity = Velocity(computed)]
      /\ snapshot'.reads = computed
      /\ file' = file /\ co' = co
  BY DEF Gold
<1>2. row \in Rows
  <2>1. Len(log) + 1 \in Nat
    BY DEF Types
  <2>2. \A k \in Nat : /\ Tick(k).number = k /\ Tick(k).time \in Int
                        /\ Tick(k).bid \in Int /\ Tick(k).last \in Int
    <3> SUFFICES ASSUME NEW k \in Nat
                 PROVE  /\ file.start + ((k - 1) * file.step) \in Int
                        /\ 5 + ((k * file.move) % 7) \in Int
      BY DEF Tick
    <3>1. file.start \in Nat /\ file.step \in Nat /\ file.move \in Nat
      BY DEF Types
    <3>2. k * file.move \in Nat /\ (k - 1) * file.step \in Int
      BY <3>1
    <3>3. QED
      BY <3>1, <3>2
  <2>3. co["dxy"] \in Nat /\ co["xag"] \in Nat /\ co["yield"] \in Nat
    BY DEF Types, CoFeeds
  <2>4. QED
    BY <2>1, <2>2, <2>3 DEF Rows
<1>3. /\ log' \in Seq(Rows) /\ Len(log') = Len(log) + 1
      /\ store' \in [slot : [0 .. Win - 1 -> Rows \cup {NoTick}], count : Nat]
      /\ store'.count = Len(log')
      /\ RingHolds'
  <2> HIDE DEF row
  <2> QED
    BY <1>1, <1>2, PushHolds
<1>4. PICK n \in 0 .. Len(log) : Counts(ctx, n)
  BY DEF Types
<1>5. \E m \in 0 .. Len(log) + 1 : Counts(c, m)
  <2> HIDE DEF t
  <2> QED
    BY <1>4, SessionCounts DEF Types
<1>6. \E m \in 0 .. Len(log') : Counts(ctx', m) /\ ctx'.ticks = c.ticks
  <2> HIDE DEF c, computed
  <2> QED
    BY <1>1, <1>3, <1>5 DEF Counts, Fields
<1>7. Types'
  BY <1>1, <1>3, <1>6 DEF Types, Counts, Fields
<1>8. SnapshotFresh'
  <2>1. log' # <<>>
    BY <1>1, <1>2 DEF Types
  <2>2. computed = ComputeAll(store', ctx'.ticks)
    BY <1>1, <1>6
  <2>3. QED
    BY <2>1, <2>2, <1>1 DEF SnapshotFresh, ComputeAll
<1>9. QED
  BY <1>3, <1>7, <1>8

(* The inductive invariant: whatever the ring's size, it holds the newest  *)
(* ticks of the log, each in the slot its number names, and the indicators *)
(* were computed over it (SoATickStore::push, compute_all).                *)
THEOREM RingCorrect == Spec => []IInv
<1>1. IInv /\ [Next]_vars => IInv'
  <2> SUFFICES ASSUME IInv, [Next]_vars PROVE IInv'
    OBVIOUS
  <2>1. CASE Gold
    BY <2>1, GoldStep
  <2>2. CASE \E f \in CoFeeds : CoFeed(f)
    BY <2>2, CoFeedStep
  <2>3. CASE UNCHANGED vars
    <3>1. UNCHANGED <<file, co, store, ctx, snapshot, log>>
      BY <2>3 DEF vars
    <3>2. Types'
      BY <3>1 DEF IInv, Types, Counts, Fields
    <3>3. RingHolds' /\ SnapshotFresh'
      BY <3>1 DEF IInv, RingHolds, SnapshotFresh, ComputeAll
    <3>4. QED
      BY <3>2, <3>3 DEF IInv
  <2>4. QED
    BY <2>1, <2>2, <2>3 DEF Next
<1>2. QED
  BY <1>1, InitInv, PTL DEF Spec

(* A window that is no longer than what the ring holds is the newest of    *)
(* its length.                                                             *)
LEMMA WindowFits ==
    ASSUME IInv, NEW n \in 0 .. Filled(store)
    PROVE  Newest(store, n) = Recent(Len(Newest(store, n)))
<1>1. n \in Nat /\ Len(Newest(store, n)) = n
  BY Constants DEF IInv, Types, Filled, Lesser, Newest
<1>2. QED
  BY <1>1, NewestIsRecent DEF IInv

LEMMA NoWindow == None = Recent(Len(None))
BY DEF None, Recent

(* Whatever its period and the ticks it needs.                             *)
LEMMA WindowReadsNewest ==
    ASSUME IInv, NEW period \in Nat, NEW least
    PROVE  WindowReads(store, period, least) = Recent(Len(WindowReads(store, period, least)))
<1> DEFINE n == Lesser(Filled(store), period)
<1>1. n \in 0 .. Filled(store)
  BY Constants DEF IInv, Types, Filled, Lesser
<1>2. CASE n < least
  BY <1>2, NoWindow DEF WindowReads
<1>3. CASE ~(n < least)
  <2>1. WindowReads(store, period, least) = Newest(store, n)
    BY <1>3 DEF WindowReads
  <2> HIDE DEF n
  <2>2. QED
    BY <1>1, <2>1, WindowFits
<1>4. QED
  BY <1>2, <1>3

LEMMA WindowsFollow == IInv => WindowsNewest
<1> SUFFICES ASSUME IInv, Reads.ready PROVE
      /\ \A w \in {Reads.vwap, Reads.bollinger, Reads.keltner, Reads.volumes, Reads.zscore,
                   Reads.correlation, Reads.ols} : w = Recent(Len(w))
      /\ Reads.last = log[L] /\ Reads.before = log[L - 1]
      /\ Reads.gradient # None /\ ctx.ticks <= Win =>
            \A k \in 1 .. 2 : Reads.gradient[k] = Recent(Len(Reads.gradient[k]))
  BY DEF WindowsNewest
<1> DEFINE full == Filled(store)
<1>1. /\ Reads = ComputeAll(store, ctx.ticks) /\ ~(full < AtrPeriod + 1)
      /\ log # <<>>
  BY DEF IInv, SnapshotFresh, Reads, ComputeAll
<1>2. /\ full \in Nat /\ full <= Win /\ full <= Len(log) /\ full >= 5 /\ Len(log) \in Nat
      /\ store.count = Len(log)
  BY <1>1, Constants DEF IInv, Types, Filled, Lesser
<1>3. ctx.ticks \in Nat /\ ctx.ticks <= Len(log)
  BY DEF IInv, Types, Counts
<1>4. Reads.vwap = Recent(Len(Reads.vwap))
  <2>1. Lesser(ctx.ticks, full) \in 0 .. full
    BY <1>2, <1>3 DEF Lesser
  <2>2. Reads.vwap = Newest(store, Lesser(ctx.ticks, full))
    BY <1>1 DEF ComputeAll, VwapReads
  <2>3. QED
    BY <2>1, <2>2, WindowFits
<1>5. Reads.bollinger = Recent(Len(Reads.bollinger))
  <2>1. Reads.bollinger = IF full < Short THEN None ELSE Newest(store, Short)
    BY <1>1 DEF ComputeAll, BollingerReads
  <2>2. ~(full < Short) => Short \in 0 .. full
    BY <1>2, Constants
  <2>3. QED
    BY <2>1, <2>2, WindowFits, NoWindow
<1>6. Reads.keltner = Recent(Len(Reads.keltner))
  <2> DEFINE n == Lesser(full, 3 * Short)
  <2>1. Reads.keltner = IF n < Short THEN None ELSE Newest(store, n)
    BY <1>1 DEF ComputeAll, KeltnerReads, EmaReads
  <2>2. n \in 0 .. full
    BY <1>2, Constants DEF Lesser
  <2> HIDE DEF n
  <2>3. QED
    BY <2>1, <2>2, WindowFits, NoWindow
<1>7. /\ Reads.volumes = Recent(Len(Reads.volumes)) /\ Reads.zscore = Recent(Len(Reads.zscore))
      /\ Reads.correlation = Recent(Len(Reads.correlation))
      /\ Reads.ols = Recent(Len(Reads.ols))
  <2>1. /\ Reads.volumes = WindowReads(store, Short, 1)
        /\ Reads.zscore = WindowReads(store, Short, 2)
        /\ Reads.correlation = WindowReads(store, Corr, 4)
        /\ Reads.ols = WindowReads(store, Medium, 5)
    BY <1>1 DEF ComputeAll, VolumeReads, ZscoreReads, CorrelationReads, OlsReads
  <2>2. QED
    BY <2>1, Constants, WindowReadsNewest
<1>8. Reads.last = log[L] /\ Reads.before = log[L - 1]
  <2>1. Reads.last = Ago(store, 0) /\ Reads.before = Ago(store, 1)
    BY <1>1 DEF ComputeAll
  <2>2. /\ store.slot[(L - 1) % Win] = log[L]
        /\ store.slot[((L - 1) - 1) % Win] = log[L - 1]
    <3>1. /\ L \in 1 .. Len(log) /\ Len(log) - L < Win
          /\ L - 1 \in 1 .. Len(log) /\ Len(log) - (L - 1) < Win
      BY <1>2, Constants DEF L
    <3>2. QED
      BY <3>1 DEF IInv, RingHolds
  <2>3. store.count - 1 - 0 = L - 1 /\ store.count - 1 - 1 = (L - 1) - 1
    BY <1>2 DEF L
  <2>4. QED
    BY <2>1, <2>2, <2>3 DEF Ago
<1>9. ASSUME Reads.gradient # None, ctx.ticks <= Win, NEW k \in 1 .. 2
      PROVE  Reads.gradient[k] = Recent(Len(Reads.gradient[k]))
  <2>1. /\ ~(ctx.ticks < Lookback + 5)
        /\ Reads.gradient = <<Newest(store, ctx.ticks), Newest(store, ctx.ticks - Lookback)>>
    BY <1>1, <1>9 DEF ComputeAll, GradientReads
  <2>2. ctx.ticks \in 0 .. full /\ ctx.ticks - Lookback \in 0 .. full
    BY <2>1, <1>2, <1>3, <1>9, Constants DEF Filled, Lesser
  <2>3. Newest(store, ctx.ticks) = Recent(Len(Newest(store, ctx.ticks)))
    BY <2>2, WindowFits
  <2>4. Newest(store, ctx.ticks - Lookback)
          = Recent(Len(Newest(store, ctx.ticks - Lookback)))
    BY <2>2, WindowFits
  <2>5. QED
    BY <2>1, <2>3, <2>4
<1>10. QED
  BY <1>4, <1>5, <1>6, <1>7, <1>8, <1>9

(* No indicator sums over a tick that was overwritten, or over one twice.  *)
THEOREM WindowsAreNewest == Spec => []WindowsNewest
BY RingCorrect, WindowsFollow, PTL

----------------------------------------------------------------------------
(* The changes between neighbours, m of them after tick a.                 *)
StepsAfter(a, m) == [j \in 1 .. m |-> <<log[a + j], log[a + j + 1]>>]

LEMMA SeqOf ==
    ASSUME NEW S, NEW m \in Nat, NEW f \in [1 .. m -> S]
    PROVE  f \in Seq(S) /\ Len(f) = m
BY SeqDef

LEMMA StepsSeq ==
    ASSUME Types, NEW a \in Nat, NEW m \in Nat, m = 0 \/ a + m < L
    PROVE  /\ StepsAfter(a, m) \in Seq(Rows \X Rows) /\ Len(StepsAfter(a, m)) = m
           /\ \A j \in 1 .. m : StepsAfter(a, m)[j] = <<log[a + j], log[a + j + 1]>>
<1>1. log \in Seq(Rows) /\ L = Len(log) /\ L \in Nat
  BY DEF Types, L
<1>2. ASSUME NEW j \in 1 .. m PROVE <<log[a + j], log[a + j + 1]>> \in Rows \X Rows
  <2>1. a + j \in 1 .. Len(log) /\ a + j + 1 \in 1 .. Len(log)
    BY <1>1, <1>2
  <2>2. QED
    BY <1>1, <2>1
<1>3. StepsAfter(a, m) \in [1 .. m -> Rows \X Rows]
  BY <1>2 DEF StepsAfter
<1>4. QED
  BY <1>3, SeqOf DEF StepsAfter

LEMMA StepsJoin ==
    ASSUME Types, NEW a \in Nat, NEW m \in Nat, NEW n \in Nat, m + n = 0 \/ a + m + n < L
    PROVE  StepsAfter(a, m) \o StepsAfter(a + m, n) = StepsAfter(a, m + n)
<1> DEFINE s == StepsAfter(a, m)
           t == StepsAfter(a + m, n)
           u == StepsAfter(a, m + n)
<1>1. L \in Nat
  BY DEF Types, L
<1>2. /\ s \in Seq(Rows \X Rows) /\ Len(s) = m
      /\ \A j \in 1 .. m : s[j] = <<log[a + j], log[a + j + 1]>>
  BY <1>1, StepsSeq
<1>3. /\ t \in Seq(Rows \X Rows) /\ Len(t) = n
      /\ \A j \in 1 .. n : t[j] = <<log[a + m + j], log[a + m + j + 1]>>
  BY <1>1, StepsSeq
<1>4. /\ u \in Seq(Rows \X Rows) /\ Len(u) = m + n
      /\ \A j \in 1 .. m + n : u[j] = <<log[a + j], log[a + j + 1]>>
  BY <1>1, StepsSeq
<1> HIDE DEF s, t, u
<1>5. /\ s \o t \in Seq(Rows \X Rows) /\ Len(s \o t) = m + n
      /\ \A i \in 1 .. m + n : (s \o t)[i] = IF i <= m THEN s[i] ELSE t[i - m]
  BY <1>2, <1>3, ConcatProperties
<1>6. ASSUME NEW i \in 1 .. m + n PROVE (s \o t)[i] = u[i]
  <2>1. /\ (s \o t)[i] = IF i <= m THEN s[i] ELSE t[i - m]
        /\ u[i] = <<log[a + i], log[a + i + 1]>>
    BY <1>4, <1>5, <1>6
  <2>2. i \in Nat /\ i >= 1 /\ i <= m + n
    BY <1>6
  <2>3. CASE i <= m
    <3>1. i \in 1 .. m
      BY <2>2, <2>3
    <3>2. QED
      BY <1>2, <2>1, <2>3, <3>1
  <2>4. CASE ~(i <= m)
    <3>1. i - m \in 1 .. n /\ a + m + (i - m) = a + i /\ a + m + (i - m) + 1 = a + i + 1
      BY <2>2, <2>4
    <3>2. t[i - m] = <<log[a + m + (i - m)], log[a + m + (i - m) + 1]>>
      BY <1>3, <3>1
    <3>3. QED
      BY <2>1, <2>4, <3>1, <3>2
  <2>5. QED
    BY <2>3, <2>4
<1>7. s \o t = u
  BY <1>4, <1>5, <1>6, SeqEqual
<1>8. QED
  BY <1>7 DEF s, t, u

(* The first k of them, none if k is negative.                             *)
LEMMA StepsCut ==
    ASSUME Types, NEW a \in Nat, NEW m \in Nat, m = 0 \/ a + m < L,
           NEW k \in Int, k <= m
    PROVE  SubSeq(StepsAfter(a, m), 1, k) = StepsAfter(a, k)
<1> DEFINE S == Rows \X Rows
           s == StepsAfter(a, m)
<1>1. s \in Seq(S) /\ Len(s) = m /\ \A j \in 1 .. m : s[j] = <<log[a + j], log[a + j + 1]>>
  BY StepsSeq
<1>2. CASE k >= 0
  <2>1. L \in Nat
    BY DEF Types, L
  <2>2. /\ StepsAfter(a, k) \in Seq(S) /\ Len(StepsAfter(a, k)) = k
        /\ \A j \in 1 .. k : StepsAfter(a, k)[j] = <<log[a + j], log[a + j + 1]>>
    BY <1>2, <2>1, StepsSeq
  <2> HIDE DEF s, S
  <2>3. \A i \in 1 .. k : s[i] \in S
    BY <1>1
  <2>4. /\ SubSeq(s, 1, k) \in Seq(S) /\ Len(SubSeq(s, 1, k)) = k
        /\ \A i \in 1 .. k : SubSeq(s, 1, k)[i] = s[i]
    <3>1. /\ SubSeq(s, 1, k) \in Seq(S)
          /\ Len(SubSeq(s, 1, k)) = IF 1 <= k THEN k - 1 + 1 ELSE 0
          /\ \A i \in 1 .. k - 1 + 1 : SubSeq(s, 1, k)[i] = s[1 + i - 1]
      BY <2>3, SubSeqProperties
    <3>2. k - 1 + 1 = k /\ \A i \in 1 .. k : 1 + i - 1 = i
      OBVIOUS
    <3>3. QED
      BY <1>2, <3>1, <3>2
  <2>5. ASSUME NEW i \in 1 .. k PROVE SubSeq(s, 1, k)[i] = StepsAfter(a, k)[i]
    <3>1. i \in 1 .. m
      BY <2>5
    <3>2. SubSeq(s, 1, k)[i] = s[i] /\ StepsAfter(a, k)[i] = <<log[a + i], log[a + i + 1]>>
      BY <2>2, <2>4, <2>5
    <3>3. s[i] = <<log[a + i], log[a + i + 1]>>
      BY <1>1, <3>1
    <3>4. QED
      BY <3>2, <3>3
  <2>6. SubSeq(s, 1, k) = StepsAfter(a, k)
    BY <2>2, <2>4, <2>5, SeqEqual
  <2>7. QED
    BY <2>6 DEF s
<1>3. CASE k < 0
  <2>1. SubSeq(s, 1, k) = <<>>
    BY <1>3, SubSeqEmpty
  <2>2. StepsAfter(a, k) = <<>>
    BY <1>3 DEF StepsAfter
  <2>3. QED
    BY <2>1, <2>2
<1>4. QED
  BY <1>2, <1>3

LEMMA StepsNewest ==
    ASSUME Types, NEW m \in Nat, m < L
    PROVE  NewestSteps(StepsAfter(L - m - 1, m))
<1> DEFINE w == Recent(m + 1)
<1>1. L \in Nat /\ Len(StepsAfter(L - m - 1, m)) = m
  <2>1. L \in Nat
    BY DEF Types, L
  <2>2. QED
    BY <2>1, StepsSeq
<1>2. Len(w) = m + 1 /\ \A i \in 1 .. m + 1 : w[i] = log[(L - (m + 1)) + i]
  BY DEF Recent
<1> HIDE DEF w
<1>3. ASSUME NEW i \in 1 .. m
      PROVE  <<w[i], w[i + 1]>> = <<log[(L - m - 1) + i], log[(L - m - 1) + i + 1]>>
  <2>1. (L - (m + 1)) + i = (L - m - 1) + i /\ (L - (m + 1)) + (i + 1) = (L - m - 1) + i + 1
    BY <1>1
  <2>2. i \in 1 .. m + 1 /\ i + 1 \in 1 .. m + 1
    BY <1>3
  <2>3. QED
    BY <1>2, <2>1, <2>2
<1>4. Len(w) - 1 = m
  BY <1>2
<1>5. Steps(w) = StepsAfter(L - m - 1, m)
  BY <1>3, <1>4 DEF Steps, StepsAfter
<1>6. QED
  BY <1>1, <1>5 DEF NewestSteps, w

(* Changes read from the ring within its window.                           *)
LEMMA ChangesAreSteps ==
    ASSUME Types, RingHolds, NEW n \in 0 .. Filled(store),
           NEW first \in Nat, first >= 1, NEW last \in Int, last <= n - 1
    PROVE  Changes(store, n, first, last) = StepsAfter(L - n + first - 1, last - first + 1)
<1>1. n \in Nat /\ n <= L /\ n <= Win /\ L \in Nat /\ store.count = L /\ L = Len(log)
      /\ Win \in Nat
  BY Constants DEF Types, Filled, Lesser, L
<1>2. ASSUME NEW j \in 1 .. (last - first + 1)
      PROVE  /\ Position(store, n, first + j - 2) = log[L - n + first - 1 + j]
             /\ Position(store, n, first + j - 1) = log[L - n + first - 1 + j + 1]
  <2> DEFINE k == L - n + first - 1 + j
  <2>1. k \in 1 .. L /\ L - k < Win /\ k + 1 \in 1 .. L /\ L - (k + 1) < Win
    BY <1>1, <1>2
  <2>2. (store.count - n) + (first + j - 2) = k - 1
        /\ (store.count - n) + (first + j - 1) = (k + 1) - 1
    BY <1>1, <1>2
  <2> HIDE DEF k
  <2>3. store.slot[(k - 1) % Win] = log[k] /\ store.slot[((k + 1) - 1) % Win] = log[k + 1]
    BY <1>1, <2>1 DEF RingHolds
  <2>4. QED
    BY <2>2, <2>3 DEF Position, k
<1>3. QED
  BY <1>2 DEF Changes, StepsAfter

----------------------------------------------------------------------------
(* The session.  Its first tick is in the log, its other ticks came within *)
(* 24 hours of that one, and the context counts them.                      *)
SessionInv ==
    /\ file.start >= 1
    /\ L = 0 => dayOpen = 0
    /\ L > 0 =>
        /\ began \in 1 .. L /\ dayOpen = log[began].time /\ dayOpen >= 1
        /\ ctx.ticks = (L - began) + 1
        /\ \A k \in began .. L : log[k].time <= dayOpen + 24
        /\ began > 1 => log[began].time > log[1].time + 24

(* The velocities the context carries are those of the newest tick, and    *)
(* the snapshot was given those of the tick before, in the same session.   *)
CarriedInv ==
    /\ ctx.prevVelocity = IF L < AtrPeriod + 1 THEN None ELSE Velocities(L)
    /\ L > 0 => snapshot.carried = IF began < L /\ L > AtrPeriod + 1 THEN Velocities(L - 1)
                                   ELSE None

Mid(k) == 5 + ((k * file.move) % 7)

LEMMA TickValues ==
    ASSUME Types, NEW k \in Nat, k >= 1
    PROVE  /\ Tick(k).number = k /\ Tick(k).time \in Int /\ Tick(k).time >= file.start
           /\ Tick(k).bid = Mid(k) - 1 /\ Tick(k).last = Mid(k)
           /\ Mid(k) \in 5 .. 11
<1>1. file.start \in Nat /\ file.step \in Nat /\ file.move \in Nat
  BY DEF Types
<1>2. Mid(k) \in 5 .. 11
  <2>1. k * file.move \in Nat
    BY <1>1
  <2>2. (k * file.move) % 7 \in 0 .. 6
    <3> DEFINE a == k * file.move
    <3>1. a \in Nat
      BY <2>1
    <3> HIDE DEF a
    <3>2. a % 7 \in 0 .. 6
      BY <3>1
    <3>3. QED
      BY <3>2 DEF a
  <2>3. QED
    BY <2>2 DEF Mid
<1>3. file.start + ((k - 1) * file.step) \in Int
      /\ file.start + ((k - 1) * file.step) >= file.start
  <2>1. (k - 1) * file.step \in Nat
    BY <1>1
  <2>2. QED
    BY <1>1, <2>1
<1>4. QED
  BY <1>2, <1>3 DEF Tick, Mid

(* What a gold tick does to the log.                                       *)
LEMMA GoldShape ==
    ASSUME IInv, Gold
    PROVE  /\ L \in Nat /\ L' = L + 1 /\ L = Len(log) /\ log \in Seq(Rows)
           /\ \A k \in 1 .. L : log'[k] = log[k]
           /\ log'[L + 1].time = Tick(L + 1).time
           /\ log'[L + 1].bid = Tick(L + 1).bid /\ log'[L + 1].last = Tick(L + 1).last
           /\ dayOpen' = IF NewSession(Tick(L + 1)) THEN Tick(L + 1).time ELSE dayOpen
           /\ began' = IF NewSession(Tick(L + 1)) THEN L + 1 ELSE began
           /\ ctx'.ticks = InSession(Tick(L + 1)).ticks
           /\ file' = file
<1> DEFINE t == Tick(L + 1)
           row == [number |-> t.number, time |-> t.time, bid |-> t.bid, last |-> t.last,
                   dxy |-> co["dxy"], xag |-> co["xag"], yield |-> co["yield"]]
<1>1. L \in Nat /\ L = Len(log) /\ log \in Seq(Rows)
  BY DEF IInv, Types, L
<1>2. t.number = L + 1
  BY <1>1, TickValues DEF IInv
<1>3. /\ log' = Append(log, row) /\ file' = file
      /\ dayOpen' = IF NewSession(t) THEN t.time ELSE dayOpen
      /\ began' = IF NewSession(t) THEN t.number ELSE began
      /\ ctx' = [InSession(t) EXCEPT !.prevVelocity =
                    Velocity(ComputeAll(Pushed(store, row), InSession(t).ticks))]
  BY <1>1 DEF Gold
<1>4. ctx'.ticks = InSession(t).ticks
  <2>1. PICK n \in 0 .. Len(log) : Counts(ctx, n)
    BY DEF IInv, Types
  <2>2. Counts(InSession(t), IF NewSession(t) THEN 1 ELSE n + 1)
    BY <1>1, <2>1, SessionCounts
  <2> DEFINE c == InSession(t)
             v == Velocity(ComputeAll(Pushed(store, row), InSession(t).ticks))
  <2>3. ctx' = [c EXCEPT !.prevVelocity = v]
    BY <1>3
  <2> HIDE DEF c, v
  <2>4. ctx'.ticks = c.ticks
    BY <2>2, <2>3 DEF Counts, Fields, c
  <2>5. QED
    BY <2>4 DEF c
<1>5. row.time = t.time /\ row.bid = t.bid /\ row.last = t.last
  OBVIOUS
<1> HIDE DEF row
<1>6. L' = L + 1 /\ (\A k \in 1 .. L : log'[k] = log[k]) /\ log'[L + 1] = row
  BY <1>1, <1>3 DEF L
<1>7. QED
  BY <1>1, <1>2, <1>3, <1>4, <1>5, <1>6

LEMMA RowTimes ==
    ASSUME log \in Seq(Rows), NEW k \in 1 .. Len(log)
    PROVE  log[k].time \in Int /\ log[k].bid \in Int /\ log[k].last \in Int
<1>1. log[k] \in Rows
  OBVIOUS
<1>2. \A x \in Rows : x.time \in Int /\ x.bid \in Int /\ x.last \in Int
  BY DEF Rows
<1>3. QED
  BY <1>1, <1>2

LEMMA SessionInit == Init => SessionInv /\ CarriedInv
<1> SUFFICES ASSUME Init PROVE SessionInv /\ CarriedInv
  OBVIOUS
<1>1. L = 0 /\ dayOpen = 0 /\ ctx.prevVelocity = None
  BY DEF Init, NewContext, L
<1>2. file.start \in Nat /\ file.start # 0
  BY InputsAssumption DEF Init
<1>3. AtrPeriod \in Nat
  BY Constants
<1>4. QED
  BY <1>1, <1>2, <1>3 DEF SessionInv, CarriedInv

LEMMA SessionStep ==
    ASSUME IInv, SessionInv, [Next]_vars
    PROVE  SessionInv'
<1>1. CASE Gold
  <2> DEFINE t == Tick(L + 1)
  <2>1. L \in Nat /\ t.time \in Int /\ t.time >= 1 /\ file.start >= 1 /\ file' = file
    <3>1. L \in Nat /\ L + 1 >= 1 /\ file' = file
      BY <1>1, GoldShape
    <3>2. t.time \in Int /\ t.time >= file.start
      BY <3>1, TickValues DEF IInv
    <3>3. file.start \in Nat /\ file.start >= 1
      BY DEF IInv, Types, SessionInv
    <3>4. QED
      BY <3>1, <3>2, <3>3
  <2>2. /\ L' = L + 1 /\ \A k \in 1 .. L : log'[k] = log[k]
        /\ log'[L + 1].time = t.time
        /\ dayOpen' = IF NewSession(t) THEN t.time ELSE dayOpen
        /\ began' = IF NewSession(t) THEN L + 1 ELSE began
        /\ ctx'.ticks = InSession(t).ticks
    BY <1>1, GoldShape
  <2>3. PICK n \in 0 .. Len(log) : Counts(ctx, n)
    BY DEF IInv, Types
  <2>4. n \in Nat /\ ctx.ticks = n
    BY <2>3 DEF IInv, Types, Counts
  <2>5. ctx'.ticks = IF NewSession(t) THEN 1 ELSE ctx.ticks + 1
    <3>1. Counts(InSession(t), IF NewSession(t) THEN 1 ELSE n + 1)
      BY <2>3, <2>4, SessionCounts
    <3>2. QED
      BY <2>2, <2>4, <3>1 DEF Counts
  <2>6. L > 0 => /\ log[1].time \in Int /\ log[began].time \in Int /\ began \in 1 .. L
                 /\ \A k \in 1 .. L : log[k].time \in Int
    <3>1. log \in Seq(Rows) /\ L = Len(log)
      BY <1>1, GoldShape
    <3>2. \A k \in 1 .. L : log[k].time \in Int
      BY <3>1, RowTimes
    <3>3. L > 0 => began \in 1 .. L
      BY DEF SessionInv
    <3>4. L \in Nat /\ (L > 0 => 1 \in 1 .. L)
      BY <2>1
    <3>5. QED
      BY <3>2, <3>3, <3>4
  <2> HIDE DEF t
  <2>7. CASE NewSession(t)
    <3>1. dayOpen' = t.time /\ began' = L + 1 /\ ctx'.ticks = 1
      BY <2>2, <2>5, <2>7
    <3>2. began' > 1 => t.time > log[1].time + 24
      <4> SUFFICES ASSUME L > 0 PROVE t.time > log[1].time + 24
        BY <2>1, <3>1
      <4>1. dayOpen = log[began].time /\ dayOpen >= 1 /\ dayOpen \in Int
            /\ (began > 1 => log[began].time > log[1].time + 24)
        BY <2>6 DEF SessionInv
      <4>2. t.time - dayOpen > 24
        BY <2>7, <4>1 DEF NewSession
      <4>3. log[began].time >= log[1].time
        BY <2>6, <4>1
      <4>4. QED
        BY <2>1, <2>6, <4>1, <4>2, <4>3
    <3>3. log'[began'].time = t.time /\ (L > 0 => log'[1] = log[1])
      BY <2>1, <2>2, <3>1
    <3>4. began' \in 1 .. L' /\ (L' - began') + 1 = 1 /\ L' > 0
      <4>1. L' = L + 1 /\ began' = L + 1 /\ L \in Nat
        BY <2>1, <2>2, <3>1
      <4>2. QED
        BY <4>1
    <3>5. \A k \in began' .. L' : log'[k].time <= dayOpen' + 24
      BY <2>1, <2>2, <3>1
    <3>6. began' > 1 => log'[began'].time > log'[1].time + 24
      BY <2>1, <3>1, <3>2, <3>3
    <3>7. QED
      BY <2>1, <3>1, <3>3, <3>4, <3>5, <3>6 DEF SessionInv
  <2>8. CASE ~NewSession(t)
    <3>1. dayOpen' = dayOpen /\ began' = began /\ ctx'.ticks = ctx.ticks + 1
      BY <2>2, <2>5, <2>8
    <3>2. dayOpen # 0 /\ ~(t.time - dayOpen > 24)
      BY <2>8 DEF NewSession
    <3>3. L > 0
      BY <2>1, <3>2 DEF SessionInv
    <3>4. /\ began \in 1 .. L /\ dayOpen = log[began].time /\ dayOpen >= 1
          /\ ctx.ticks = (L - began) + 1
          /\ \A k \in began .. L : log[k].time <= dayOpen + 24
          /\ began > 1 => log[began].time > log[1].time + 24
      BY <3>3 DEF SessionInv
    <3>5. log'[began] = log[began] /\ log'[1] = log[1]
      <4>1. began \in 1 .. L /\ 1 \in 1 .. L
        BY <2>1, <3>3, <3>4
      <4>2. QED
        BY <2>2, <4>1
    <3>6. \A k \in began .. L + 1 : log'[k].time <= dayOpen + 24
      <4> SUFFICES ASSUME NEW k \in began .. L + 1 PROVE log'[k].time <= dayOpen + 24
        OBVIOUS
      <4>0. k \in Int /\ k >= began /\ k <= L + 1 /\ began >= 1 /\ dayOpen \in Int
        BY <2>6, <3>3, <3>4
      <4>1. CASE k = L + 1
        BY <2>1, <2>2, <3>2, <4>0, <4>1
      <4>2. CASE k # L + 1
        <5>1. k \in began .. L /\ k \in 1 .. L
          <6>1. L \in Nat /\ began \in Int
            BY <2>1, <3>4
          <6>2. QED
            BY <6>1, <4>0, <4>2
        <5>2. QED
          BY <2>2, <3>4, <5>1
      <4>3. QED
        BY <4>1, <4>2
    <3>7. began \in 1 .. L' /\ (L' - began) + 1 = ctx.ticks + 1 /\ L' > 0
      BY <2>1, <2>2, <3>4
    <3>8. QED
      BY <2>1, <2>2, <3>1, <3>4, <3>5, <3>6, <3>7 DEF SessionInv
  <2>9. QED
    BY <2>7, <2>8
<1>2. CASE UNCHANGED <<file, ctx, dayOpen, log, began>>
  BY <1>2 DEF SessionInv, L
<1>3. QED
  BY <1>1, <1>2 DEF Next, CoFeed, vars

(* What the thread hands on of this tick's velocity.                       *)
LEMMA KinematicsNewest ==
    ASSUME Types, RingHolds, ~(Filled(store) < AtrPeriod + 1)
    PROVE  KinematicReads(store) = Velocities(L)
<1> DEFINE n == Filled(store)
<1>1. /\ L \in Nat /\ L = Len(log) /\ store.count = L /\ n <= L /\ n <= Win /\ n \in Nat
      /\ n >= Smooth + 3 /\ Smooth \in Nat /\ Smooth >= 1 /\ Win \in Nat
  BY Constants DEF Types, Filled, Lesser, L
<1>2. ASSUME NEW k \in Nat, k < Smooth + 3 PROVE Ago(store, k) = log[L - k]
  <2>1. L - k \in 1 .. L /\ L - (L - k) < Win /\ store.count - 1 - k = (L - k) - 1
    BY <1>1, <1>2
  <2>2. QED
    BY <1>1, <2>1 DEF RingHolds, Ago
<1>3. KinematicReads(store) = [k \in 1 .. 3 |-> <<Ago(store, Smooth + k - 1), Ago(store, k - 1)>>]
  BY <1>1 DEF KinematicReads
<1>4. ASSUME NEW k \in 1 .. 3
      PROVE  <<Ago(store, Smooth + k - 1), Ago(store, k - 1)>>
               = <<log[L - k - Smooth + 1], log[L - k + 1]>>
  <2>1. /\ Smooth + k - 1 \in Nat /\ Smooth + k - 1 < Smooth + 3
        /\ k - 1 \in Nat /\ k - 1 < Smooth + 3
        /\ L - (Smooth + k - 1) = L - k - Smooth + 1 /\ L - (k - 1) = L - k + 1
    BY <1>1, <1>4
  <2>2. Ago(store, Smooth + k - 1) = log[L - (Smooth + k - 1)]
        /\ Ago(store, k - 1) = log[L - (k - 1)]
    BY <1>2, <2>1
  <2>3. QED
    BY <2>1, <2>2
<1>5. ASSUME NEW k \in 1 .. 3
      PROVE  /\ L - Smooth - k + 1 = L - k - Smooth + 1
  BY <1>1, <1>5
<1>6. QED
  BY <1>3, <1>4, <1>5 DEF Velocities

LEMMA CarriedStep ==
    ASSUME IInv, SessionInv, CarriedInv, [Next]_vars, IInv'
    PROVE  CarriedInv'
<1>1. CASE Gold
  <2> DEFINE t == Tick(L + 1)
             row == [number |-> t.number, time |-> t.time, bid |-> t.bid, last |-> t.last,
                     dxy |-> co["dxy"], xag |-> co["xag"], yield |-> co["yield"]]
             c == InSession(t)
             v == Velocity(ComputeAll(Pushed(store, row), c.ticks))
  <2>1. /\ L \in Nat /\ L' = L + 1 /\ L = Len(log)
        /\ \A k \in 1 .. L : log'[k] = log[k]
        /\ began' = IF NewSession(t) THEN L + 1 ELSE began
    BY <1>1, GoldShape
  <2>2. /\ store' = Pushed(store, row)
        /\ snapshot'.carried = c.prevVelocity
        /\ ctx' = [c EXCEPT !.prevVelocity = v]
    BY <1>1, <2>1 DEF Gold
  <2>3. PICK n \in 0 .. Len(log) : Counts(ctx, n)
    BY DEF IInv, Types
  <2>4. c.prevVelocity = (IF NewSession(t) THEN None ELSE ctx.prevVelocity) /\ DOMAIN c = Fields
        /\ c = [f \in Fields |-> c[f]]
    <3> DEFINE c0 == IF NewSession(t) THEN NewContext ELSE ctx
    <3>1. DOMAIN c0 = Fields /\ c0 = [f \in Fields |-> c0[f]]
          /\ c0.prevVelocity = (IF NewSession(t) THEN None ELSE ctx.prevVelocity)
      BY <2>3, NewContextCounts DEF Counts, NewContext
    <3>2. c = [OpeningRange(AsianRange(SwingLow(c0, t), t), t) EXCEPT !.ticks = @ + 1]
      BY DEF InSession
    <3> HIDE DEF c0, t, c
    <3> DEFINE c1 == SwingLow(c0, t)
               c2 == AsianRange(c1, t)
               c3 == OpeningRange(c2, t)
    <3>3. DOMAIN c1 = Fields /\ c1 = [f \in Fields |-> c1[f]]
          /\ c1.prevVelocity = c0.prevVelocity
      BY <3>1 DEF SwingLow, Fields
    <3> HIDE DEF c1
    <3>4. DOMAIN c2 = Fields /\ c2 = [f \in Fields |-> c2[f]]
          /\ c2.prevVelocity = c1.prevVelocity
      BY <3>3 DEF AsianRange, Fields
    <3> HIDE DEF c2
    <3>5. DOMAIN c3 = Fields /\ c3 = [f \in Fields |-> c3[f]]
          /\ c3.prevVelocity = c2.prevVelocity
      BY <3>4 DEF OpeningRange, Fields
    <3>6. c = [c3 EXCEPT !.ticks = @ + 1]
      BY <3>2 DEF c1, c2
    <3> HIDE DEF c3
    <3>7. QED
      BY <3>1, <3>3, <3>4, <3>5, <3>6 DEF Fields
  <2>5. ctx'.prevVelocity = v
    <3> HIDE DEF c, v
    <3>1. QED
      BY <2>2, <2>4 DEF Fields
  <2>6. v = IF L' < AtrPeriod + 1 THEN None ELSE Velocities(L)'
    <3>1. Filled(Pushed(store, row)) = Lesser(L', Win) /\ L' \in Nat
      BY <2>1, <2>2 DEF IInv, Types, Filled, L
    <3>2. Filled(Pushed(store, row)) < AtrPeriod + 1 <=> L' < AtrPeriod + 1
      BY <3>1, Constants DEF Lesser
    <3>3. ~(Filled(store) < AtrPeriod + 1) => KinematicReads(store) = Velocities(L)
      BY KinematicsNewest DEF IInv
    <3>4. (~(Filled(store) < AtrPeriod + 1) => KinematicReads(store) = Velocities(L))'
      BY KinematicsNewest, PTL DEF IInv
    <3>5. QED
      BY <2>2, <3>2, <3>4 DEF Velocity, ComputeAll
  <2>7. snapshot'.carried = IF began' < L' /\ L' > AtrPeriod + 1 THEN Velocities(L - 1)'
                            ELSE None
    <3>1. CASE NewSession(t)
      <4>1. began' = L + 1 /\ ~(began' < L') /\ snapshot'.carried = None
        BY <2>1, <2>2, <2>4, <3>1
      <4>2. QED
        BY <4>1
    <3>2. CASE ~NewSession(t)
      <4>1. L > 0
        BY <2>1, <3>2 DEF NewSession, SessionInv
      <4>2. began \in 1 .. L
        BY <4>1 DEF SessionInv
      <4>3. began' < L' /\ L' - 1 = L /\ AtrPeriod \in Nat
        <5>1. began' = began
          BY <2>1, <3>2
        <5>2. QED
          BY <2>1, <4>2, <5>1, Constants
      <4>4. snapshot'.carried = ctx.prevVelocity
        BY <2>2, <2>4, <3>2
      <4>5. L < AtrPeriod + 1 <=> ~(L' > AtrPeriod + 1)
        BY <2>1, <4>3
      <4>6. L >= AtrPeriod + 1 => Velocities(L - 1)' = Velocities(L)
        <5> SUFFICES ASSUME L >= AtrPeriod + 1, NEW j \in 1 .. 3
                     PROVE  /\ log'[(L' - 1) - Smooth - j + 1] = log[L - Smooth - j + 1]
                            /\ log'[(L' - 1) - j + 1] = log[L - j + 1]
          BY DEF Velocities
        <5>1. Smooth + 3 <= AtrPeriod + 1 /\ Smooth \in Nat
          BY Constants
        <5>2. L - Smooth - j + 1 \in 1 .. L /\ L - j + 1 \in 1 .. L
          BY <2>1, <4>3, <5>1
        <5>3. QED
          BY <2>1, <4>3, <5>2
      <4>7. QED
        BY <2>1, <4>3, <4>4, <4>5, <4>6 DEF CarriedInv
    <3>3. QED
      BY <3>1, <3>2
  <2>8. QED
    BY <2>5, <2>6, <2>7 DEF CarriedInv
<1>2. CASE UNCHANGED <<file, ctx, dayOpen, snapshot, log, began>>
  BY <1>2 DEF CarriedInv, L, Velocities
<1>3. QED
  BY <1>1, <1>2 DEF Next, CoFeed, vars

LEMMA NoSteps ==
    ASSUME Types, log # <<>>
    PROVE  NewestSteps(None)
<1>1. L \in Nat /\ L > 0
  BY DEF Types, L
<1>2. NewestSteps(StepsAfter(L - 0 - 1, 0))
  BY <1>1, StepsNewest
<1>3. StepsAfter(L - 0 - 1, 0) = None
  BY DEF StepsAfter, None
<1>4. QED
  BY <1>2, <1>3

(* The changes over a whole window, and the same in two pieces.            *)
LEMMA ChangesNewest ==
    ASSUME Types, RingHolds, NEW n \in 1 .. Filled(store)
    PROVE  /\ NewestSteps(Changes(store, n, 1, n - 1))
           /\ \A m \in 0 .. n - 1 :
                 NewestSteps(Changes(store, n, 1, m) \o Changes(store, n, m + 1, n - 1))
<1>1. /\ n \in Nat /\ n >= 1 /\ n \in 0 .. Filled(store) /\ L \in Nat /\ n <= L
  BY Constants DEF Types, Filled, Lesser, L
<1>2. NewestSteps(StepsAfter(L - n, n - 1))
  <2>1. n - 1 \in Nat /\ n - 1 < L /\ L - (n - 1) - 1 = L - n
    BY <1>1
  <2>2. QED
    BY <2>1, StepsNewest
<1>3. Changes(store, n, 1, n - 1) = StepsAfter(L - n, n - 1)
  <2>1. n - 1 \in Int /\ n - 1 <= n - 1 /\ L - n + 1 - 1 = L - n /\ n - 1 - 1 + 1 = n - 1
    BY <1>1
  <2>2. Changes(store, n, 1, n - 1) = StepsAfter(L - n + 1 - 1, n - 1 - 1 + 1)
    BY <1>1, <2>1, ChangesAreSteps
  <2>3. QED
    BY <2>1, <2>2
<1>4. ASSUME NEW m \in 0 .. n - 1
      PROVE  Changes(store, n, 1, m) \o Changes(store, n, m + 1, n - 1)
               = StepsAfter(L - n, n - 1)
  <2>1. /\ m \in Nat /\ m + 1 \in Nat /\ m + 1 >= 1 /\ m \in Int /\ m <= n - 1
        /\ n - 1 \in Int /\ L - n + 1 - 1 = L - n /\ m - 1 + 1 = m
        /\ L - n + (m + 1) - 1 = L - n + m /\ n - 1 - (m + 1) + 1 = n - 1 - m
    BY <1>1, <1>4
  <2>2. Changes(store, n, 1, m) = StepsAfter(L - n + 1 - 1, m - 1 + 1)
    BY <1>1, <2>1, ChangesAreSteps
  <2>3. Changes(store, n, m + 1, n - 1) = StepsAfter(L - n + (m + 1) - 1, n - 1 - (m + 1) + 1)
    BY <1>1, <2>1, ChangesAreSteps
  <2>4. /\ L - n \in Nat /\ n - 1 - m \in Nat /\ m + (n - 1 - m) = n - 1
        /\ (L - n) + m + (n - 1 - m) < L
    BY <1>1, <2>1
  <2>5. StepsAfter(L - n, m) \o StepsAfter((L - n) + m, n - 1 - m)
          = StepsAfter(L - n, m + (n - 1 - m))
    BY <2>1, <2>4, StepsJoin
  <2>6. QED
    BY <2>1, <2>2, <2>3, <2>4, <2>5
<1>5. QED
  BY <1>2, <1>3, <1>4

(* Whatever its period and the ticks it needs.                             *)
LEMMA ChangeReadsNewest ==
    ASSUME Types, RingHolds, log # <<>>, NEW period \in Nat, NEW least \in Nat, least >= 1
    PROVE  NewestSteps(ChangeReads(store, period, least))
<1> DEFINE n == Lesser(Filled(store), period)
<1>1. CASE n < least
  <2>1. ChangeReads(store, period, least) = None
    BY <1>1 DEF ChangeReads
  <2>2. QED
    BY <2>1, NoSteps
<1>2. CASE ~(n < least)
  <2>1. ChangeReads(store, period, least) = Changes(store, n, 1, n - 1)
    BY <1>2 DEF ChangeReads
  <2>2. Filled(store) \in Nat
    BY Constants DEF Types, Filled, Lesser
  <2>3. n \in Nat /\ n <= Filled(store)
    BY <2>2 DEF Lesser
  <2> HIDE DEF n
  <2>4. n \in 1 .. Filled(store)
    BY <1>2, <2>2, <2>3
  <2>5. QED
    BY <2>1, <2>4, ChangesNewest
<1>3. QED
  BY <1>1, <1>2

(* Wilder's smoothing, the two windows of the average and of its value two *)
(* updates before.                                                         *)
LEMMA WilderNewest ==
    ASSUME Types, RingHolds, ~(Filled(store) < AtrPeriod + 1)
    PROVE  /\ NewestSteps(AtrReads(store)[1] \o AtrReads(store)[2])
           /\ NewestSteps(RsiReads(store)[1] \o RsiReads(store)[2])
           /\ SubSeq(AtrReads(store)[2], 1, Len(AtrReads(store)[3])) = AtrReads(store)[3]
<1> DEFINE n == Filled(store)
           a == L - n + AtrPeriod
           m == n - 1 - AtrPeriod
<1>1. /\ n \in Nat /\ n >= AtrPeriod + 1 /\ n <= L /\ L \in Nat
      /\ AtrPeriod \in Nat /\ AtrPeriod >= 1
  BY Constants DEF Types, Filled, Lesser, L
<1>2. /\ RsiReads(store) = <<Changes(store, n, 1, AtrPeriod),
                             Changes(store, n, AtrPeriod + 1, n - 1)>>
      /\ AtrReads(store) = <<Changes(store, n, 1, AtrPeriod),
                             Changes(store, n, AtrPeriod + 1, n - 1),
                             Changes(store, n, AtrPeriod + 1, n - 3)>>
  BY DEF RsiReads, AtrReads
<1> HIDE DEF n
<1>3. n \in 1 .. Filled(store) /\ n \in 0 .. Filled(store) /\ AtrPeriod \in 0 .. n - 1
  BY <1>1 DEF n
<1>4. NewestSteps(Changes(store, n, 1, AtrPeriod) \o Changes(store, n, AtrPeriod + 1, n - 1))
  BY <1>3, ChangesNewest
<1>5. /\ AtrPeriod + 1 \in Nat /\ AtrPeriod + 1 >= 1 /\ n - 1 \in Int /\ n - 3 \in Int
      /\ n - 1 <= n - 1 /\ n - 3 <= n - 1
      /\ L - n + (AtrPeriod + 1) - 1 = a /\ n - 1 - (AtrPeriod + 1) + 1 = m
      /\ n - 3 - (AtrPeriod + 1) + 1 = m - 2
  BY <1>1
<1>6. Changes(store, n, AtrPeriod + 1, n - 1)
        = StepsAfter(L - n + (AtrPeriod + 1) - 1, n - 1 - (AtrPeriod + 1) + 1)
  BY <1>3, <1>5, ChangesAreSteps
<1>7. Changes(store, n, AtrPeriod + 1, n - 3)
        = StepsAfter(L - n + (AtrPeriod + 1) - 1, n - 3 - (AtrPeriod + 1) + 1)
  BY <1>3, <1>5, ChangesAreSteps
<1>8. a \in Nat /\ m \in Nat /\ a + m < L
  BY <1>1
<1> HIDE DEF a, m
<1>9. SubSeq(StepsAfter(a, m), 1, Len(StepsAfter(a, m - 2))) = StepsAfter(a, m - 2)
  <2> DEFINE k == IF m >= 2 THEN m - 2 ELSE 0
  <2>1. k \in Nat /\ k <= m /\ k \in Int /\ (k = 0 \/ a + k < L)
    BY <1>1, <1>8
  <2>2. StepsAfter(a, m - 2) = StepsAfter(a, k)
    <3>1. 1 .. m - 2 = 1 .. k
      BY <1>8
    <3>2. QED
      BY <3>1 DEF StepsAfter
  <2> HIDE DEF k
  <2>3. Len(StepsAfter(a, k)) = k
    BY <1>8, <2>1, StepsSeq
  <2>4. SubSeq(StepsAfter(a, m), 1, k) = StepsAfter(a, k)
    BY <1>8, <2>1, StepsCut
  <2>5. QED
    BY <2>2, <2>3, <2>4
<1>10. QED
  BY <1>2, <1>4, <1>5, <1>6, <1>7, <1>9

LEMMA GarchNewest ==
    ASSUME Types, RingHolds, ~(Filled(store) < AtrPeriod + 1)
    PROVE  NewestSteps(GarchReads(store)[1] \o GarchReads(store)[2])
<1> DEFINE full == Filled(store)
           n == Lesser(full, Medium)
<1>1. full \in Nat /\ full >= AtrPeriod + 1
  BY Constants DEF Types, Filled, Lesser
<1>2. /\ n \in Nat /\ n <= full /\ n >= 5 /\ GarchSeed \in Nat /\ GarchSeed < n
  BY <1>1, Constants DEF Lesser
<1>3. Lesser(n, GarchSeed) = GarchSeed
  BY <1>2 DEF Lesser
<1>4. GarchReads(store) = <<Changes(store, n, 1, GarchSeed),
                            Changes(store, n, GarchSeed + 1, n - 1)>>
  BY <1>2, <1>3 DEF GarchReads
<1> HIDE DEF n
<1>5. n \in 1 .. Filled(store) /\ GarchSeed \in 0 .. n - 1
  BY <1>1, <1>2
<1>6. NewestSteps(Changes(store, n, 1, GarchSeed) \o Changes(store, n, GarchSeed + 1, n - 1))
  BY <1>5, ChangesNewest
<1>7. QED
  BY <1>4, <1>6

(* The rescaled range's two halves leave out one change between them.      *)
LEMMA HurstNewest ==
    ASSUME Types, RingHolds, HurstReads(store) # None
    PROVE  LET whole == HurstReads(store)[1]
               left == HurstReads(store)[2]
               right == HurstReads(store)[3]
           IN NewestSteps(whole) /\ NewestSteps(right)
                 /\ left = SubSeq(whole, 1, Len(whole) - Len(right) - 1)
<1> DEFINE full == Filled(store)
           n == Lesser(full, Long)
           h == n \div 2
<1>1. full \in Nat /\ full <= L /\ L \in Nat
  BY Constants DEF Types, Filled, Lesser, L
<1>2. n \in Nat /\ n <= full
  BY <1>1, Constants DEF Lesser
<1>3. ~(n < HurstMin)
  BY DEF HurstReads
<1>4. HurstReads(store) = <<Changes(store, n, 1, n - 1), Changes(store, n, 1, h - 1),
                            Changes(store, n, h + 1, n - 1)>>
  BY <1>3 DEF HurstReads
<1>5. n >= 1
  BY <1>2, <1>3, Constants
<1> HIDE DEF n, full
<1>6. h \in Nat /\ h <= n - 1
  BY <1>2, <1>5
<1> HIDE DEF h
<1>7. n \in 1 .. Filled(store) /\ n \in 0 .. Filled(store) /\ n <= L
  BY <1>1, <1>2, <1>5 DEF full
<1>8. NewestSteps(Changes(store, n, 1, n - 1))
  BY <1>7, ChangesNewest
<1>9. /\ 1 \in Nat /\ n - 1 \in Int /\ h - 1 \in Int /\ n - 1 <= n - 1 /\ h - 1 <= n - 1
      /\ h + 1 \in Nat /\ h + 1 >= 1
      /\ L - n + 1 - 1 = L - n /\ n - 1 - 1 + 1 = n - 1 /\ h - 1 - 1 + 1 = h - 1
      /\ L - n + (h + 1) - 1 = L - n + h /\ n - 1 - (h + 1) + 1 = n - 1 - h
  BY <1>1, <1>2, <1>6
<1>10. Changes(store, n, 1, n - 1) = StepsAfter(L - n, n - 1)
  <2>1. Changes(store, n, 1, n - 1) = StepsAfter(L - n + 1 - 1, n - 1 - 1 + 1)
    BY <1>7, <1>9, ChangesAreSteps
  <2>2. QED
    BY <2>1, <1>9
<1>11. Changes(store, n, 1, h - 1) = StepsAfter(L - n, h - 1)
  <2>1. Changes(store, n, 1, h - 1) = StepsAfter(L - n + 1 - 1, h - 1 - 1 + 1)
    BY <1>7, <1>9, ChangesAreSteps
  <2>2. QED
    BY <2>1, <1>9
<1>12. Changes(store, n, h + 1, n - 1) = StepsAfter(L - n + h, n - 1 - h)
  <2>1. Changes(store, n, h + 1, n - 1)
          = StepsAfter(L - n + (h + 1) - 1, n - 1 - (h + 1) + 1)
    BY <1>7, <1>9, ChangesAreSteps
  <2>2. QED
    BY <2>1, <1>9
<1>13. /\ L - n \in Nat /\ n - 1 \in Nat /\ (L - n) + (n - 1) < L
       /\ n - 1 - h \in Nat /\ n - 1 - h < L /\ L - (n - 1 - h) - 1 = L - n + h
       /\ L - n + h \in Nat /\ (L - n + h) + (n - 1 - h) < L
       /\ (n - 1) - (n - 1 - h) - 1 = h - 1
  BY <1>1, <1>2, <1>5, <1>6, <1>7
<1>14. NewestSteps(StepsAfter(L - n + h, n - 1 - h))
  <2>1. NewestSteps(StepsAfter(L - (n - 1 - h) - 1, n - 1 - h))
    BY <1>13, StepsNewest
  <2>2. QED
    BY <2>1, <1>13
<1>15. Len(StepsAfter(L - n, n - 1)) = n - 1 /\ Len(StepsAfter(L - n + h, n - 1 - h)) = n - 1 - h
  BY <1>13, StepsSeq
<1>16. SubSeq(StepsAfter(L - n, n - 1), 1, h - 1) = StepsAfter(L - n, h - 1)
  BY <1>9, <1>13, StepsCut
<1>17. QED
  BY <1>4, <1>8, <1>10, <1>11, <1>12, <1>13, <1>14, <1>15, <1>16

LEMMA ChangesFollow == IInv /\ CarriedInv => ChangesConsecutive
<1> SUFFICES ASSUME IInv, CarriedInv, Reads.ready PROVE
        /\ \A c \in {Reads.returns, Reads.volatility, Reads.trend, Reads.flow} : NewestSteps(c)
        /\ \A c \in {Reads.atr, Reads.rsi, Reads.garch} : NewestSteps(c[1] \o c[2])
        /\ SubSeq(Reads.atr[2], 1, Len(Reads.atr[3])) = Reads.atr[3]
        /\ Reads.hurst # None =>
              LET whole == Reads.hurst[1]
                  left == Reads.hurst[2]
                  right == Reads.hurst[3]
              IN NewestSteps(whole) /\ NewestSteps(right)
                    /\ left = SubSeq(whole, 1, Len(whole) - Len(right) - 1)
        /\ Reads.kinematics = Velocities(L)
        /\ snapshot.carried = (IF began < L /\ L > AtrPeriod + 1 THEN Velocities(L - 1) ELSE None)
  BY DEF ChangesConsecutive
<1>1. /\ Reads = ComputeAll(store, ctx.ticks) /\ ~(Filled(store) < AtrPeriod + 1)
      /\ log # <<>> /\ Types /\ RingHolds
  BY DEF IInv, SnapshotFresh, Reads, ComputeAll
<1>2. /\ Reads.returns = ChangeReads(store, Medium, 4)
      /\ Reads.volatility = ChangeReads(store, Short, 3)
      /\ Reads.trend = ChangeReads(store, Short, 3) /\ Reads.flow = ChangeReads(store, Short, 3)
      /\ Reads.atr = AtrReads(store) /\ Reads.rsi = RsiReads(store)
      /\ Reads.garch = GarchReads(store) /\ Reads.hurst = HurstReads(store)
      /\ Reads.kinematics = KinematicReads(store)
  BY <1>1 DEF ComputeAll, ReturnReads, VolatilityReads, TrendReads, FlowReads
<1>3. /\ NewestSteps(ChangeReads(store, Medium, 4))
      /\ NewestSteps(ChangeReads(store, Short, 3))
  BY <1>1, Constants, ChangeReadsNewest
<1>4. /\ NewestSteps(AtrReads(store)[1] \o AtrReads(store)[2])
      /\ NewestSteps(RsiReads(store)[1] \o RsiReads(store)[2])
      /\ SubSeq(AtrReads(store)[2], 1, Len(AtrReads(store)[3])) = AtrReads(store)[3]
  BY <1>1, WilderNewest
<1>5. NewestSteps(GarchReads(store)[1] \o GarchReads(store)[2])
  BY <1>1, GarchNewest
<1>6. KinematicReads(store) = Velocities(L)
  BY <1>1, KinematicsNewest
<1>7. snapshot.carried = IF began < L /\ L > AtrPeriod + 1 THEN Velocities(L - 1) ELSE None
  <2>1. L > 0
    BY <1>1 DEF Types, L
  <2>2. QED
    BY <2>1 DEF CarriedInv
<1>8. Reads.hurst # None =>
        LET whole == Reads.hurst[1]
            left == Reads.hurst[2]
            right == Reads.hurst[3]
        IN NewestSteps(whole) /\ NewestSteps(right)
              /\ left = SubSeq(whole, 1, Len(whole) - Len(right) - 1)
  BY <1>1, <1>2, HurstNewest
<1>9. QED
  BY <1>2, <1>3, <1>4, <1>5, <1>6, <1>7, <1>8

(* Of every session, the context's tick count and its first tick.          *)
THEOREM SessionCorrect == Spec => [](SessionInv /\ CarriedInv)
<1>1. IInv /\ IInv' /\ SessionInv /\ CarriedInv /\ [Next]_vars => (SessionInv /\ CarriedInv)'
  BY SessionStep, CarriedStep
<1>2. QED
  BY <1>1, SessionInit, RingCorrect, PTL DEF Spec

(* No change between two ticks is left out or counted twice, none is read  *)
(* beyond the window, and the velocity carried from tick to tick is the    *)
(* last tick's of the same session.                                        *)
THEOREM ChangesAreConsecutive == Spec => []ChangesConsecutive
BY RingCorrect, SessionCorrect, ChangesFollow, PTL

(* Read back further than the ring holds, a slot gives its newest tick.    *)
LEMMA NewestAsHeld ==
    ASSUME Types, RingHolds, NEW n \in 0 .. Len(log)
    PROVE  Newest(store, n) = AsHeld(n)
<1> Win \in Nat /\ Win >= 1 /\ Len(log) \in Nat /\ n \in Nat /\ n <= Len(log)
  BY Constants DEF Types
<1> SUFFICES ASSUME NEW i \in 1 .. n
             PROVE  Position(store, n, i - 1) = log[L - ((n - i) % Win)]
  BY DEF Newest, AsHeld
<1> DEFINE m == n - i
           r == m % Win
           d == m \div Win
           k == L - r
<1>1. m \in Nat /\ m < n /\ i \in Nat
  OBVIOUS
<1>2. m = (Win * d) + r /\ r \in 0 .. Win - 1 /\ d \in Nat
  BY <1>1, DivMod
<1>3. Win * d \in Nat
  BY <1>2
<1>4. (store.count - n) + (i - 1) = (L - m) - 1
  BY DEF Types, L
<1> HIDE DEF m, r, d
<1>5. k \in 1 .. Len(log) /\ Len(log) - k < Win /\ k - 1 = ((L - m) - 1) + (Win * d)
      /\ (L - m) - 1 \in Nat
  BY <1>1, <1>2, <1>3 DEF L
<1> HIDE DEF k
<1>6. (k - 1) % Win = ((L - m) - 1) % Win
  <2> DEFINE a == (L - m) - 1
  <2>1. a \in Nat /\ k - 1 = a + (Win * d)
    BY <1>5
  <2> HIDE DEF a
  <2>2. (a + (Win * d)) % Win = a % Win
    BY <1>2, <2>1, ModLaps
  <2>3. QED
    BY <2>1, <2>2 DEF a
<1>7. store.slot[(k - 1) % Win] = log[k]
  BY <1>5 DEF RingHolds
<1>8. Position(store, n, i - 1) = log[k]
  BY <1>4, <1>6, <1>7 DEF Position
<1>9. QED
  BY <1>8 DEF k, r, m

(* As long as the ring holds them, they are the newest ticks.              *)
LEMMA HeldInRing ==
    ASSUME Types, NEW n \in 0 .. Win
    PROVE  AsHeld(n) = Recent(n)
<1> Win \in Nat /\ Win >= 1 /\ L \in Nat /\ n \in Nat /\ n <= Win
  BY Constants DEF Types, L
<1> SUFFICES ASSUME NEW i \in 1 .. n
             PROVE  L - ((n - i) % Win) = (L - n) + i
  BY DEF AsHeld, Recent
<1>1. n - i \in 0 .. Win - 1
  OBVIOUS
<1>2. \A x \in 0 .. Win - 1 : x % Win = x
  OBVIOUS
<1>3. (n - i) % Win = n - i
  BY <1>1, <1>2
<1>4. QED
  BY <1>3

(* None of them is older than the n newest ticks.                          *)
LEMMA HeldWithin ==
    ASSUME Types, NEW m \in Nat, NEW n \in Nat, m <= n, NEW i \in DOMAIN AsHeld(m)
    PROVE  \E j \in (L - n) + 1 .. L : AsHeld(m)[i] = log[j]
<1> Win \in Nat /\ Win >= 1 /\ L \in Nat
  BY Constants DEF Types, L
<1> DEFINE r == (m - i) % Win
           d == (m - i) \div Win
<1>1. i \in 1 .. m /\ AsHeld(m)[i] = log[L - r]
  BY DEF AsHeld
<1>2. m - i \in Nat /\ m - i <= m - 1
  BY <1>1
<1>3. m - i = (Win * d) + r /\ r \in 0 .. Win - 1 /\ d \in Nat
  BY <1>2, DivMod
<1>4. Win * d \in Nat
  BY <1>3
<1> HIDE DEF r, d
<1>5. r \in Nat /\ r <= m - 1
  BY <1>2, <1>3, <1>4
<1>6. L - r \in (L - n) + 1 .. L
  BY <1>5
<1>7. QED
  BY <1>1, <1>6

LEMMA SessionFollows == IInv /\ SessionInv => SessionWindows
<1> DEFINE n == (L - began) + 1
<1> SUFFICES ASSUME IInv, SessionInv, L > 0, Reads.ready
             PROVE  /\ Reads.vwap = Recent(Lesser(n, Win))
                    /\ Reads.gradient # None =>
                          /\ Reads.gradient = <<AsHeld(n), AsHeld(n - Lookback)>>
                          /\ n <= Win => Reads.gradient = <<Recent(n), Recent(n - Lookback)>>
                          /\ \A k \in 1 .. 2 : \A i \in DOMAIN Reads.gradient[k] :
                                \E j \in began .. L : Reads.gradient[k][i] = log[j]
  BY DEF SessionWindows, SessionInv
<1>1. /\ L \in Nat /\ L = Len(log) /\ store.count = L /\ log # <<>> /\ Win \in Nat
      /\ Lookback \in Nat
  BY Constants DEF IInv, Types, L
<1>2. Reads = ComputeAll(store, ctx.ticks) /\ ~(Filled(store) < AtrPeriod + 1)
  BY <1>1 DEF IInv, SnapshotFresh, Reads, ComputeAll
<1>3. began \in 1 .. L /\ ctx.ticks = n
  BY DEF SessionInv
<1>4. n \in 1 .. L /\ began = (L - n) + 1
  BY <1>1, <1>3
<1> HIDE DEF n
<1>5. Lesser(n, Filled(store)) = Lesser(n, Win) /\ Lesser(n, Win) \in 0 .. Filled(store)
  BY <1>1, <1>4 DEF Filled, Lesser
<1>6. Reads.vwap = Newest(store, Lesser(n, Win))
  BY <1>2, <1>3, <1>5 DEF ComputeAll, VwapReads
<1>7. Reads.vwap = Recent(Lesser(n, Win))
  BY <1>5, <1>6, NewestIsRecent DEF IInv
<1>8. ASSUME Reads.gradient # None
      PROVE  /\ Reads.gradient = <<AsHeld(n), AsHeld(n - Lookback)>>
             /\ n <= Win => Reads.gradient = <<Recent(n), Recent(n - Lookback)>>
             /\ \A k \in 1 .. 2 : \A i \in DOMAIN Reads.gradient[k] :
                   \E j \in began .. L : Reads.gradient[k][i] = log[j]
  <2>1. Reads.gradient = <<Newest(store, n), Newest(store, n - Lookback)>>
        /\ ~(n < Lookback + 5)
    BY <1>2, <1>3, <1>8 DEF ComputeAll, GradientReads
  <2>2. n \in 0 .. Len(log) /\ n - Lookback \in 0 .. Len(log) /\ n - Lookback <= n
    BY <1>1, <1>4, <2>1
  <2>3. Reads.gradient = <<AsHeld(n), AsHeld(n - Lookback)>>
    BY <2>1, <2>2, NewestAsHeld DEF IInv
  <2>4. ASSUME n <= Win PROVE Reads.gradient = <<Recent(n), Recent(n - Lookback)>>
    <3>1. n \in 0 .. Win /\ n - Lookback \in 0 .. Win
      BY <1>1, <2>2, <2>4
    <3>2. AsHeld(n) = Recent(n) /\ AsHeld(n - Lookback) = Recent(n - Lookback)
      BY <3>1, HeldInRing DEF IInv
    <3>3. QED
      BY <2>3, <3>2
  <2>5. ASSUME NEW m \in {n, n - Lookback}, NEW i \in DOMAIN AsHeld(m)
        PROVE  \E j \in began .. L : AsHeld(m)[i] = log[j]
    <3>1. m \in Nat /\ n \in Nat /\ m <= n
      BY <1>1, <2>2
    <3>2. \E j \in (L - n) + 1 .. L : AsHeld(m)[i] = log[j]
      BY <3>1, HeldWithin DEF IInv
    <3>3. QED
      BY <1>4, <3>2
  <2>6. ASSUME NEW k \in 1 .. 2, NEW i \in DOMAIN Reads.gradient[k]
        PROVE  \E j \in began .. L : Reads.gradient[k][i] = log[j]
    <3>1. Reads.gradient[1] = AsHeld(n) /\ Reads.gradient[2] = AsHeld(n - Lookback)
      BY <2>3
    <3>2. k = 1 \/ k = 2
      OBVIOUS
    <3>3. QED
      BY <2>5, <2>6, <3>1, <3>2
  <2>7. QED
    BY <2>3, <2>4, <2>6
<1>9. QED
  BY <1>7, <1>8

(* VWAP and both windows of its gradient sum over ticks of the current     *)
(* session only: VWAP over its newest up to the ring's size, the gradient  *)
(* over all of them and all but the oldest Lookback, each as its slot      *)
(* holds it (vwap_at in indicators.hpp).                                   *)
THEOREM WindowsOfSession == Spec => []SessionWindows
BY RingCorrect, SessionCorrect, SessionFollows, PTL

----------------------------------------------------------------------------
(* The ranges of a session: the ticks b .. n of a log g.                   *)
Asian(g, b, n) == {k \in b .. n : HourOf(g[k].time) < AsianClose}
London(g, b, n) == {k \in b .. n : HourOf(g[k].time) >= LondonOpen}
Opening(g, b, n) ==
    {k \in London(g, b, n) : Cardinality({j \in London(g, b, n) : j <= k}) <= OpeningTicks}

IsMax(m, S) == m \in S /\ \A y \in S : m >= y
IsMin(m, S) == m \in S /\ \A y \in S : m <= y
Lasts(g, K) == {g[k].last : k \in K}
Bids(g, K) == {g[k].bid : k \in K}

Fits(c, g, b, n) ==
    /\ IsMax(c.asianHigh, {0} \cup Lasts(g, Asian(g, b, n)))
    /\ IsMin(c.asianLow, {Huge} \cup Lasts(g, Asian(g, b, n)))
    /\ c.asianFinalized = (Asian(g, b, n) # b .. n)
    /\ IsMax(c.openingHi, {0} \cup Lasts(g, Opening(g, b, n)))
    /\ IsMin(c.openingLo, {Huge} \cup Lasts(g, Opening(g, b, n)))
    /\ c.openingTicks = Cardinality(Opening(g, b, n))
    /\ c.openingTicks = Lesser(Cardinality(London(g, b, n)), OpeningTicks)
    /\ IsMin(c.swingLow, {Huge} \cup Bids(g, b .. n))

(* The context's ranges are those of the session so far, and no bid is as  *)
(* high as the initial low.                                                *)
RangesInv ==
    /\ L > 0 => Fits(ctx, log, began, L)
    /\ \A k \in 1 .. L : log[k].bid < Huge

LEMMA MaxIs ==
    ASSUME NEW S, S \subseteq Int, NEW m, IsMax(m, S)
    PROVE  Max(S) = m
<1>1. m \in S /\ \A y \in S : m >= y
  BY DEF IsMax
<1>2. Max(S) \in S /\ \A y \in S : Max(S) >= y
  BY <1>1 DEF Max
<1>3. Max(S) >= m /\ m >= Max(S) /\ Max(S) \in Int /\ m \in Int
  BY <1>1, <1>2
<1>4. QED
  BY <1>3

LEMMA MinIs ==
    ASSUME NEW S, S \subseteq Int, NEW m, IsMin(m, S)
    PROVE  Min(S) = m
<1>1. m \in S /\ \A y \in S : m <= y
  BY DEF IsMin
<1>2. Min(S) \in S /\ \A y \in S : Min(S) <= y
  BY <1>1 DEF Min
<1>3. Min(S) <= m /\ m <= Min(S) /\ Min(S) \in Int /\ m \in Int
  BY <1>1, <1>2
<1>4. QED
  BY <1>3

LEMMA MaxAdd ==
    ASSUME NEW S, S \subseteq Int, NEW m, IsMax(m, S), NEW v \in Int
    PROVE  IsMax(Higher(v, m), S \cup {v})
<1>1. m \in Int /\ m \in S /\ \A y \in S : m >= y /\ y \in Int
  BY DEF IsMax
<1>2. QED
  BY <1>1 DEF IsMax, Higher

LEMMA MinAdd ==
    ASSUME NEW S, S \subseteq Int, NEW m, IsMin(m, S), NEW v \in Int
    PROVE  IsMin(Lesser(v, m), S \cup {v})
<1>1. m \in Int /\ m \in S /\ \A y \in S : m <= y /\ y \in Int
  BY DEF IsMin
<1>2. QED
  BY <1>1 DEF IsMin, Lesser

(* h is the log g with one more tick in the session: which sets it joins.  *)
Extends(g, h, b, n) ==
    /\ b \in Int /\ n \in Nat /\ b <= n + 1
    /\ \A k \in b .. n : h[k] = g[k] /\ g[k].last \in Int /\ g[k].bid \in Int
    /\ h[n + 1].last \in Int /\ h[n + 1].bid \in Int

LEMMA AsianExtends ==
    ASSUME NEW g, NEW h, NEW b, NEW n, Extends(g, h, b, n)
    PROVE  /\ HourOf(h[n + 1].time) < AsianClose
                 => Asian(h, b, n + 1) = Asian(g, b, n) \cup {n + 1}
           /\ ~(HourOf(h[n + 1].time) < AsianClose) => Asian(h, b, n + 1) = Asian(g, b, n)
<1>1. b .. n + 1 = (b .. n) \cup {n + 1} /\ n + 1 \notin b .. n
  BY DEF Extends
<1>2. QED
  BY <1>1 DEF Asian, Extends

(* The opening range takes it while it has taken fewer than OpeningTicks.  *)
LEMMA OpeningExtends ==
    ASSUME NEW g, NEW h, NEW b, NEW n, Extends(g, h, b, n)
    PROVE  /\ IsFiniteSet(London(g, b, n)) /\ IsFiniteSet(Opening(g, b, n))
           /\ Cardinality(London(g, b, n)) \in Nat
           /\ Cardinality(London(h, b, n + 1)) =
                 IF HourOf(h[n + 1].time) >= LondonOpen THEN Cardinality(London(g, b, n)) + 1
                 ELSE Cardinality(London(g, b, n))
           /\ Opening(h, b, n + 1) =
                 IF HourOf(h[n + 1].time) >= LondonOpen
                       /\ Cardinality(London(g, b, n)) < OpeningTicks
                 THEN Opening(g, b, n) \cup {n + 1} ELSE Opening(g, b, n)
           /\ n + 1 \notin Opening(g, b, n)
<1> DEFINE late == HourOf(h[n + 1].time) >= LondonOpen
           lon == London(g, b, n)
           more == London(h, b, n + 1)
<1> b \in Int /\ n \in Nat /\ b <= n + 1
  BY DEF Extends
<1>1. lon \subseteq b .. n /\ IsFiniteSet(lon) /\ Cardinality(lon) \in Nat
  <2>1. lon \subseteq b .. n
    BY DEF London
  <2>2. IsFiniteSet(b .. n)
    BY FS_Interval
  <2>3. IsFiniteSet(lon)
    BY <2>1, <2>2, FS_Subset
  <2>4. QED
    BY <2>1, <2>3, FS_CardinalityType
<1>2. more = IF late THEN lon \cup {n + 1} ELSE lon
  <2>1. b .. n + 1 = (b .. n) \cup {n + 1} /\ n + 1 \notin b .. n
    OBVIOUS
  <2>2. QED
    BY <2>1 DEF London, Extends
<1>3. n + 1 \notin lon /\ \A j \in lon : j \in Int /\ j <= n
  BY <1>1
<1>4. Opening(g, b, n) = {k \in lon : Cardinality({j \in lon : j <= k}) <= OpeningTicks}
  BY DEF Opening
<1>5. Opening(h, b, n + 1) = {k \in more : Cardinality({j \in more : j <= k}) <= OpeningTicks}
  BY DEF Opening
<1>6. OpeningTicks \in Nat
  BY InputsAssumption
<1> HIDE DEF late, lon, more
<1>7. \A k \in lon : {j \in more : j <= k} = {j \in lon : j <= k}
  BY <1>2, <1>3
<1>8. {j \in more : j <= n + 1} = more
  BY <1>2, <1>3
<1>9. Cardinality(lon \cup {n + 1}) = Cardinality(lon) + 1
  BY <1>1, <1>3, FS_AddElement
<1>10. Cardinality(more) = IF late THEN Cardinality(lon) + 1 ELSE Cardinality(lon)
  BY <1>2, <1>9
<1>11. Opening(h, b, n + 1) = IF late /\ Cardinality(lon) < OpeningTicks
                              THEN Opening(g, b, n) \cup {n + 1} ELSE Opening(g, b, n)
  <2>1. CASE late
    <3>1. Cardinality(lon) + 1 <= OpeningTicks <=> Cardinality(lon) < OpeningTicks
      BY <1>1, <1>6
    <3>2. \A k \in lon : Cardinality({j \in more : j <= k}) = Cardinality({j \in lon : j <= k})
      BY <1>7
    <3>3. Cardinality({j \in more : j <= n + 1}) = Cardinality(lon) + 1
      BY <1>8, <1>10, <2>1
    <3>4. more = lon \cup {n + 1}
      BY <1>2, <2>1
    <3>5. CASE Cardinality(lon) < OpeningTicks
      <4>1. n + 1 \in Opening(h, b, n + 1)
        BY <1>5, <3>1, <3>3, <3>4, <3>5
      <4>2. \A k \in lon : k \in Opening(h, b, n + 1) <=> k \in Opening(g, b, n)
        BY <1>4, <1>5, <3>2, <3>4
      <4>3. Opening(h, b, n + 1) = Opening(g, b, n) \cup {n + 1}
        BY <1>4, <1>5, <3>4, <4>1, <4>2
      <4>4. QED
        BY <2>1, <3>5, <4>3
    <3>6. CASE ~(Cardinality(lon) < OpeningTicks)
      <4>1. n + 1 \notin Opening(h, b, n + 1)
        BY <1>5, <3>1, <3>3, <3>6
      <4>2. \A k \in lon : k \in Opening(h, b, n + 1) <=> k \in Opening(g, b, n)
        BY <1>4, <1>5, <3>2, <3>4
      <4>3. Opening(h, b, n + 1) = Opening(g, b, n)
        BY <1>4, <1>5, <3>4, <4>1, <4>2
      <4>4. QED
        BY <3>6, <4>3
    <3>7. QED
      BY <3>5, <3>6
  <2>2. CASE ~late
    BY <1>2, <1>4, <1>5, <2>2
  <2>3. QED
    BY <2>1, <2>2
<1>12. IsFiniteSet(Opening(g, b, n)) /\ n + 1 \notin Opening(g, b, n)
  <2>1. Opening(g, b, n) \subseteq lon
    BY <1>4
  <2>2. QED
    BY <1>1, <1>3, <2>1, FS_Subset
<1>13. QED
  BY <1>1, <1>10, <1>11, <1>12 DEF late, lon, more

(* What a tick does to the ranges of a context (indicator_thread_fn).      *)
Ranged(c, t, d) ==
    LET early == HourOf(t.time) < AsianClose
        opens == HourOf(t.time) >= LondonOpen /\ c.openingTicks < OpeningTicks
    IN /\ d.asianHigh = IF early THEN Higher(t.last, c.asianHigh) ELSE c.asianHigh
       /\ d.asianLow = IF early THEN Lesser(t.last, c.asianLow) ELSE c.asianLow
       /\ d.asianFinalized = IF early THEN c.asianFinalized ELSE TRUE
       /\ d.openingHi = IF opens THEN Higher(t.last, c.openingHi) ELSE c.openingHi
       /\ d.openingLo = IF opens THEN Lesser(t.last, c.openingLo) ELSE c.openingLo
       /\ d.openingTicks = IF opens THEN c.openingTicks + 1 ELSE c.openingTicks
       /\ d.swingLow = Lesser(t.bid, c.swingLow)

(* One range, whichever set K of the session's ticks it is taken over.     *)
LEMMA RangeKeeps ==
    ASSUME NEW g, NEW h, NEW b, NEW n, Extends(g, h, b, n), NEW K \in SUBSET (b .. n),
           NEW hi, NEW lo,
           IsMax(hi, {0} \cup Lasts(g, K)), IsMin(lo, {Huge} \cup Lasts(g, K))
    PROVE  IsMax(hi, {0} \cup Lasts(h, K)) /\ IsMin(lo, {Huge} \cup Lasts(h, K))
<1>1. \A k \in K : h[k] = g[k]
  BY DEF Extends
<1>2. Lasts(h, K) = Lasts(g, K)
  BY <1>1 DEF Lasts
<1>3. QED
  BY <1>2

LEMMA RangeJoins ==
    ASSUME NEW g, NEW h, NEW b, NEW n, Extends(g, h, b, n), NEW K \in SUBSET (b .. n),
           NEW hi, NEW lo,
           IsMax(hi, {0} \cup Lasts(g, K)), IsMin(lo, {Huge} \cup Lasts(g, K))
    PROVE  /\ IsMax(Higher(h[n + 1].last, hi), {0} \cup Lasts(h, K \cup {n + 1}))
           /\ IsMin(Lesser(h[n + 1].last, lo), {Huge} \cup Lasts(h, K \cup {n + 1}))
<1> DEFINE S == {0} \cup Lasts(g, K)
           T == {Huge} \cup Lasts(g, K)
           v == h[n + 1].last
<1>1. S \subseteq Int /\ T \subseteq Int /\ v \in Int
  BY DEF Lasts, Huge, Extends
<1>2. IsMax(hi, S) /\ IsMin(lo, T)
  OBVIOUS
<1>3. \A k \in K : h[k] = g[k]
  BY DEF Extends
<1>4. /\ {0} \cup Lasts(h, K \cup {n + 1}) = S \cup {v}
      /\ {Huge} \cup Lasts(h, K \cup {n + 1}) = T \cup {v}
  BY <1>3 DEF Lasts
<1> HIDE DEF S, T, v
<1>5. IsMax(Higher(v, hi), S \cup {v}) /\ IsMin(Lesser(v, lo), T \cup {v})
  BY <1>1, <1>2, MaxAdd, MinAdd
<1>6. QED
  BY <1>4, <1>5 DEF v

LEMMA FitsStep ==
    ASSUME NEW g, NEW h, NEW b, NEW n, Extends(g, h, b, n),
           NEW t, h[n + 1].time = t.time, h[n + 1].last = t.last, h[n + 1].bid = t.bid,
           NEW c, NEW d, Fits(c, g, b, n), Ranged(c, t, d)
    PROVE  Fits(d, h, b, n + 1)
<1> DEFINE early == HourOf(t.time) < AsianClose
           opens == HourOf(t.time) >= LondonOpen /\ c.openingTicks < OpeningTicks
<1>1. Asian(h, b, n + 1) = IF early THEN Asian(g, b, n) \cup {n + 1} ELSE Asian(g, b, n)
  <2>1. /\ HourOf(h[n + 1].time) < AsianClose
              => Asian(h, b, n + 1) = Asian(g, b, n) \cup {n + 1}
        /\ ~(HourOf(h[n + 1].time) < AsianClose) => Asian(h, b, n + 1) = Asian(g, b, n)
    BY AsianExtends
  <2>2. QED
    BY <2>1
<1>2. /\ IsFiniteSet(London(g, b, n)) /\ IsFiniteSet(Opening(g, b, n))
      /\ Cardinality(London(g, b, n)) \in Nat
      /\ Cardinality(London(h, b, n + 1)) =
            IF HourOf(t.time) >= LondonOpen THEN Cardinality(London(g, b, n)) + 1
            ELSE Cardinality(London(g, b, n))
      /\ Opening(h, b, n + 1) =
            IF HourOf(t.time) >= LondonOpen /\ Cardinality(London(g, b, n)) < OpeningTicks
            THEN Opening(g, b, n) \cup {n + 1} ELSE Opening(g, b, n)
      /\ n + 1 \notin Opening(g, b, n)
  <2>1. HourOf(h[n + 1].time) >= LondonOpen <=> HourOf(t.time) >= LondonOpen
    OBVIOUS
  <2>2. /\ IsFiniteSet(London(g, b, n)) /\ IsFiniteSet(Opening(g, b, n))
        /\ Cardinality(London(g, b, n)) \in Nat
        /\ Cardinality(London(h, b, n + 1)) =
              IF HourOf(h[n + 1].time) >= LondonOpen THEN Cardinality(London(g, b, n)) + 1
              ELSE Cardinality(London(g, b, n))
        /\ Opening(h, b, n + 1) =
              IF HourOf(h[n + 1].time) >= LondonOpen
                    /\ Cardinality(London(g, b, n)) < OpeningTicks
              THEN Opening(g, b, n) \cup {n + 1} ELSE Opening(g, b, n)
        /\ n + 1 \notin Opening(g, b, n)
    BY OpeningExtends
  <2>3. QED
    BY <2>1, <2>2
<1>3. /\ c.openingTicks = Cardinality(Opening(g, b, n))
      /\ c.openingTicks = Lesser(Cardinality(London(g, b, n)), OpeningTicks)
      /\ OpeningTicks \in Nat
  BY InputsAssumption DEF Fits
<1>4. c.openingTicks < OpeningTicks <=> Cardinality(London(g, b, n)) < OpeningTicks
  BY <1>2, <1>3 DEF Lesser
<1>5. Opening(h, b, n + 1) = IF opens THEN Opening(g, b, n) \cup {n + 1} ELSE Opening(g, b, n)
  BY <1>2, <1>4
<1>6. Asian(g, b, n) \in SUBSET (b .. n) /\ Opening(g, b, n) \in SUBSET (b .. n)
  BY DEF Asian, Opening, London
<1>7. b \in Int /\ n \in Nat /\ b <= n + 1 /\ t.last \in Int /\ t.bid \in Int
  BY DEF Extends
<1>8. /\ d.asianHigh = IF early THEN Higher(t.last, c.asianHigh) ELSE c.asianHigh
      /\ d.asianLow = IF early THEN Lesser(t.last, c.asianLow) ELSE c.asianLow
      /\ d.asianFinalized = IF early THEN c.asianFinalized ELSE TRUE
      /\ d.openingHi = IF opens THEN Higher(t.last, c.openingHi) ELSE c.openingHi
      /\ d.openingLo = IF opens THEN Lesser(t.last, c.openingLo) ELSE c.openingLo
      /\ d.openingTicks = IF opens THEN c.openingTicks + 1 ELSE c.openingTicks
      /\ d.swingLow = Lesser(t.bid, c.swingLow)
  BY DEF Ranged
<1>9. opens <=> HourOf(t.time) >= LondonOpen /\ Cardinality(London(g, b, n)) < OpeningTicks
  BY <1>4
<1> HIDE DEF early, opens
<1>10. /\ IsMax(d.asianHigh, {0} \cup Lasts(h, Asian(h, b, n + 1)))
       /\ IsMin(d.asianLow, {Huge} \cup Lasts(h, Asian(h, b, n + 1)))
  <2>1. /\ IsMax(c.asianHigh, {0} \cup Lasts(g, Asian(g, b, n)))
        /\ IsMin(c.asianLow, {Huge} \cup Lasts(g, Asian(g, b, n)))
    BY DEF Fits
  <2>2. CASE early
    <3>1. /\ IsMax(Higher(h[n + 1].last, c.asianHigh),
                   {0} \cup Lasts(h, Asian(g, b, n) \cup {n + 1}))
          /\ IsMin(Lesser(h[n + 1].last, c.asianLow),
                   {Huge} \cup Lasts(h, Asian(g, b, n) \cup {n + 1}))
      BY <1>6, <2>1, RangeJoins
    <3>2. QED
      BY <1>1, <1>8, <2>2, <3>1
  <2>3. CASE ~early
    BY <1>1, <1>6, <1>8, <2>1, <2>3, RangeKeeps
  <2>4. QED
    BY <2>2, <2>3
<1>11. /\ IsMax(d.openingHi, {0} \cup Lasts(h, Opening(h, b, n + 1)))
       /\ IsMin(d.openingLo, {Huge} \cup Lasts(h, Opening(h, b, n + 1)))
  <2>1. /\ IsMax(c.openingHi, {0} \cup Lasts(g, Opening(g, b, n)))
        /\ IsMin(c.openingLo, {Huge} \cup Lasts(g, Opening(g, b, n)))
    BY DEF Fits
  <2>2. CASE opens
    <3>1. /\ IsMax(Higher(h[n + 1].last, c.openingHi),
                   {0} \cup Lasts(h, Opening(g, b, n) \cup {n + 1}))
          /\ IsMin(Lesser(h[n + 1].last, c.openingLo),
                   {Huge} \cup Lasts(h, Opening(g, b, n) \cup {n + 1}))
      BY <1>6, <2>1, RangeJoins
    <3>2. QED
      BY <1>5, <1>8, <2>2, <3>1
  <2>3. CASE ~opens
    BY <1>5, <1>6, <1>8, <2>1, <2>3, RangeKeeps
  <2>4. QED
    BY <2>2, <2>3
<1>12. b .. n + 1 = (b .. n) \cup {n + 1} /\ n + 1 \notin b .. n
  BY <1>7
<1>13. d.asianFinalized = (Asian(h, b, n + 1) # b .. n + 1)
  <2>1. c.asianFinalized = (Asian(g, b, n) # b .. n)
    BY DEF Fits
  <2>2. n + 1 \notin Asian(g, b, n)
    BY <1>6, <1>12
  <2>3. CASE early
    <3>1. (Asian(g, b, n) \cup {n + 1} # (b .. n) \cup {n + 1}) = (Asian(g, b, n) # b .. n)
      BY <1>12, <2>2
    <3>2. QED
      BY <1>1, <1>8, <1>12, <2>1, <2>3, <3>1
  <2>4. CASE ~early
    <3>1. Asian(h, b, n + 1) # b .. n + 1
      BY <1>1, <1>12, <2>2, <2>4
    <3>2. QED
      BY <1>8, <2>4, <3>1
  <2>5. QED
    BY <2>3, <2>4
<1>14. d.openingTicks = Cardinality(Opening(h, b, n + 1))
  <2>1. Cardinality(Opening(g, b, n) \cup {n + 1}) = Cardinality(Opening(g, b, n)) + 1
    BY <1>2, FS_AddElement
  <2>2. QED
    BY <1>3, <1>5, <1>8, <2>1
<1>15. d.openingTicks = Lesser(Cardinality(London(h, b, n + 1)), OpeningTicks)
  <2> DEFINE q == Cardinality(London(g, b, n))
             late == HourOf(t.time) >= LondonOpen
  <2>1. /\ q \in Nat /\ c.openingTicks = Lesser(q, OpeningTicks) /\ OpeningTicks \in Nat
        /\ Cardinality(London(h, b, n + 1)) = IF late THEN q + 1 ELSE q
        /\ opens <=> late /\ q < OpeningTicks
    BY <1>2, <1>3, <1>9
  <2> HIDE DEF q, late
  <2>2. QED
    BY <1>8, <2>1 DEF Lesser
<1>16. IsMin(d.swingLow, {Huge} \cup Bids(h, b .. n + 1))
  <2> DEFINE S == {Huge} \cup Bids(g, b .. n)
  <2>1. S \subseteq Int /\ IsMin(c.swingLow, S)
    BY DEF Fits, Bids, Huge, Extends
  <2>2. {Huge} \cup Bids(h, b .. n + 1) = S \cup {t.bid}
    BY <1>12 DEF Bids, Extends
  <2> HIDE DEF S
  <2>3. IsMin(Lesser(t.bid, c.swingLow), S \cup {t.bid})
    BY <1>7, <2>1, MinAdd
  <2>4. QED
    BY <1>8, <2>2, <2>3
<1>17. QED
  BY <1>10, <1>11, <1>13, <1>14, <1>15, <1>16 DEF Fits

(* The context a tick finds: that of its session.                          *)
Found(t) == IF NewSession(t) THEN NewContext ELSE ctx

LEMMA SessionRanged ==
    ASSUME NEW t, NEW n, Counts(ctx, n), NEW v
    PROVE  Ranged(Found(t), t, [InSession(t) EXCEPT !.prevVelocity = v])
<1> DEFINE c == Found(t)
           c1 == SwingLow(c, t)
           c2 == AsianRange(c1, t)
           c3 == OpeningRange(c2, t)
           c4 == [c3 EXCEPT !.ticks = @ + 1]
           d == [c4 EXCEPT !.prevVelocity = v]
           early == HourOf(t.time) < AsianClose
           opens == HourOf(t.time) >= LondonOpen /\ c.openingTicks < OpeningTicks
<1>1. DOMAIN c = Fields /\ c = [f \in Fields |-> c[f]]
  BY NewContextCounts DEF Found, Counts
<1>2. InSession(t) = c4
  BY DEF InSession, Found
<1> HIDE DEF c
<1>3. /\ DOMAIN c1 = Fields /\ c1 = [f \in Fields |-> c1[f]]
      /\ c1.swingLow = Lesser(t.bid, c.swingLow)
      /\ c1.asianHigh = c.asianHigh /\ c1.asianLow = c.asianLow
      /\ c1.asianFinalized = c.asianFinalized /\ c1.openingHi = c.openingHi
      /\ c1.openingLo = c.openingLo /\ c1.openingTicks = c.openingTicks
  BY <1>1 DEF SwingLow, Fields
<1> HIDE DEF c1
<1>4. /\ DOMAIN c2 = Fields /\ c2 = [f \in Fields |-> c2[f]]
      /\ c2.swingLow = c1.swingLow
      /\ c2.asianHigh = IF early THEN Higher(t.last, c1.asianHigh) ELSE c1.asianHigh
      /\ c2.asianLow = IF early THEN Lesser(t.last, c1.asianLow) ELSE c1.asianLow
      /\ c2.asianFinalized = IF early THEN c1.asianFinalized ELSE TRUE
      /\ c2.openingHi = c1.openingHi
      /\ c2.openingLo = c1.openingLo /\ c2.openingTicks = c1.openingTicks
  <2>1. CASE early
    BY <1>3, <2>1 DEF AsianRange, Fields
  <2>2. CASE ~early
    BY <1>3, <2>2 DEF AsianRange, Fields
  <2>3. QED
    BY <2>1, <2>2
<1> HIDE DEF c2
<1>5. opens <=> HourOf(t.time) >= LondonOpen /\ c2.openingTicks < OpeningTicks
  BY <1>3, <1>4
<1> HIDE DEF early, opens
<1>6. /\ DOMAIN c3 = Fields /\ c3 = [f \in Fields |-> c3[f]]
      /\ c3.swingLow = c2.swingLow /\ c3.asianHigh = c2.asianHigh
      /\ c3.asianLow = c2.asianLow /\ c3.asianFinalized = c2.asianFinalized
      /\ c3.openingHi = IF opens THEN Higher(t.last, c2.openingHi) ELSE c2.openingHi
      /\ c3.openingLo = IF opens THEN Lesser(t.last, c2.openingLo) ELSE c2.openingLo
      /\ c3.openingTicks = IF opens THEN c2.openingTicks + 1 ELSE c2.openingTicks
  <2>1. CASE opens
    BY <1>4, <1>5, <2>1 DEF OpeningRange, Fields
  <2>2. CASE ~opens
    BY <1>4, <1>5, <2>2 DEF OpeningRange, Fields
  <2>3. QED
    BY <2>1, <2>2
<1> HIDE DEF c3
<1>7. /\ DOMAIN c4 = Fields /\ c4 = [f \in Fields |-> c4[f]]
      /\ c4.swingLow = c3.swingLow /\ c4.asianHigh = c3.asianHigh
      /\ c4.asianLow = c3.asianLow /\ c4.asianFinalized = c3.asianFinalized
      /\ c4.openingHi = c3.openingHi /\ c4.openingLo = c3.openingLo
      /\ c4.openingTicks = c3.openingTicks
  BY <1>6 DEF Fields
<1> HIDE DEF c4
<1>8. /\ d.swingLow = c4.swingLow /\ d.asianHigh = c4.asianHigh
      /\ d.asianLow = c4.asianLow /\ d.asianFinalized = c4.asianFinalized
      /\ d.openingHi = c4.openingHi /\ d.openingLo = c4.openingLo
      /\ d.openingTicks = c4.openingTicks
  BY <1>7 DEF Fields
<1> HIDE DEF d
<1>9. /\ d.asianHigh = IF early THEN Higher(t.last, c.asianHigh) ELSE c.asianHigh
      /\ d.asianLow = IF early THEN Lesser(t.last, c.asianLow) ELSE c.asianLow
      /\ d.asianFinalized = IF early THEN c.asianFinalized ELSE TRUE
      /\ d.openingHi = IF opens THEN Higher(t.last, c.openingHi) ELSE c.openingHi
      /\ d.openingLo = IF opens THEN Lesser(t.last, c.openingLo) ELSE c.openingLo
      /\ d.openingTicks = IF opens THEN c.openingTicks + 1 ELSE c.openingTicks
      /\ d.swingLow = Lesser(t.bid, c.swingLow)
  BY <1>3, <1>4, <1>6, <1>7, <1>8
<1>10. Ranged(c, t, d)
  BY <1>9 DEF Ranged, early, opens
<1>11. QED
  BY <1>2, <1>10 DEF c, d

(* A new session has no ticks.                                             *)
LEMMA FitsNew ==
    ASSUME NEW g, NEW n \in Nat
    PROVE  Fits(NewContext, g, n + 1, n)
<1>1. n + 1 .. n = {}
  OBVIOUS
<1>2. /\ Asian(g, n + 1, n) = {} /\ London(g, n + 1, n) = {} /\ Opening(g, n + 1, n) = {}
  BY <1>1 DEF Asian, London, Opening
<1>3. Lasts(g, {}) = {} /\ Bids(g, {}) = {}
  BY DEF Lasts, Bids
<1>4. IsMax(0, {0} \cup {}) /\ IsMin(Huge, {Huge} \cup {})
  BY DEF IsMax, IsMin, Huge
<1>5. Lesser(Cardinality({}), OpeningTicks) = 0 /\ Cardinality({}) = 0
  BY FS_EmptySet, InputsAssumption DEF Lesser
<1>6. QED
  BY <1>1, <1>2, <1>3, <1>4, <1>5 DEF Fits, NewContext

LEMMA RangesInit == Init => RangesInv
<1> SUFFICES ASSUME Init PROVE L = 0
  BY DEF RangesInv
<1>1. QED
  BY DEF Init, L

LEMMA RangesStep ==
    ASSUME IInv, SessionInv, RangesInv, [Next]_vars
    PROVE  RangesInv'
<1>1. CASE Gold
  <2> DEFINE t == Tick(L + 1)
             b == IF NewSession(t) THEN L + 1 ELSE began
  <2>1. /\ L \in Nat /\ L' = L + 1 /\ L = Len(log) /\ log \in Seq(Rows)
        /\ \A k \in 1 .. L : log'[k] = log[k]
        /\ log'[L + 1].time = t.time /\ log'[L + 1].bid = t.bid /\ log'[L + 1].last = t.last
        /\ began' = b
    BY <1>1, GoldShape
  <2>2. t.last \in Int /\ t.bid \in Int /\ t.bid < Huge
    <3>1. L + 1 \in Nat /\ L + 1 >= 1
      BY <2>1
    <3>2. t.bid = Mid(L + 1) - 1 /\ t.last = Mid(L + 1) /\ Mid(L + 1) \in 5 .. 11
      BY <3>1, TickValues DEF IInv
    <3>3. QED
      BY <3>2 DEF Huge
  <2>3. /\ b \in Int /\ b >= 1 /\ b <= L + 1
        /\ Fits(Found(t), log, b, L)
    <3>1. CASE NewSession(t)
      BY <2>1, <3>1, FitsNew DEF Found
    <3>2. CASE ~NewSession(t)
      <4>1. L > 0
        BY <2>1, <3>2 DEF NewSession, SessionInv
      <4>2. began \in 1 .. L /\ Fits(ctx, log, began, L)
        BY <4>1 DEF SessionInv, RangesInv
      <4>3. QED
        BY <2>1, <3>2, <4>2 DEF Found
    <3>3. QED
      BY <3>1, <3>2
  <2>4. PICK n \in 0 .. Len(log) : Counts(ctx, n)
    BY DEF IInv, Types
  <2>5. Ranged(Found(t), t, ctx')
    <3>1. \E v : ctx' = [InSession(t) EXCEPT !.prevVelocity = v]
      BY <1>1, <2>1 DEF Gold
    <3> HIDE DEF t
    <3>2. QED
      BY <2>4, <3>1, SessionRanged
  <2> HIDE DEF t, b
  <2>6. Extends(log, log', b, L)
    <3>1. \A k \in b .. L : k \in 1 .. L
      BY <2>1, <2>3
    <3>2. \A k \in b .. L : log'[k] = log[k] /\ log[k].last \in Int /\ log[k].bid \in Int
      BY <2>1, <3>1, RowTimes
    <3>3. QED
      BY <2>1, <2>2, <2>3, <3>2 DEF Extends
  <2>7. Fits(ctx', log', b, L + 1)
    BY <2>1, <2>3, <2>5, <2>6, FitsStep
  <2>8. \A k \in 1 .. L + 1 : log'[k].bid < Huge
    <3>1. \A k \in 1 .. L : log[k].bid < Huge
      BY DEF RangesInv
    <3>2. \A k \in 1 .. L + 1 : k = L + 1 \/ k \in 1 .. L
      BY <2>1
    <3>3. QED
      BY <2>1, <2>2, <3>1, <3>2
  <2>9. (L > 0 => Fits(ctx, log, began, L))'
    <3>1. Fits(ctx, log, began, L)' = Fits(ctx', log', began', L')
      BY DEF Fits, IsMax, IsMin, Lasts, Bids, Asian, London, Opening
    <3>2. QED
      BY <2>1, <2>7, <3>1
  <2>10. QED
    BY <2>1, <2>8, <2>9 DEF RangesInv
<1>2. CASE UNCHANGED <<file, ctx, dayOpen, snapshot, log, began>>
  <2>1. ctx' = ctx /\ log' = log /\ began' = began /\ L' = L
    BY <1>2 DEF L
  <2>2. Fits(ctx, log, began, L)' = Fits(ctx', log', began', L')
    BY DEF Fits, IsMax, IsMin, Lasts, Bids, Asian, London, Opening
  <2>3. QED
    BY <2>1, <2>2 DEF RangesInv
<1>3. QED
  BY <1>1, <1>2 DEF Next, CoFeed, vars

LEMMA RangesFollow == IInv /\ SessionInv /\ RangesInv => SessionRanges
<1> SUFFICES ASSUME IInv, SessionInv, RangesInv, L > 0 PROVE SessionRanges
  BY DEF SessionRanges
<1> DEFINE session == began .. L
           asian == Asian(log, began, L)
           london == London(log, began, L)
           opening == Opening(log, began, L)
<1>1. L \in Nat /\ log \in Seq(Rows) /\ L = Len(log) /\ began \in 1 .. L
  BY DEF IInv, Types, SessionInv, L
<1>2. \A k \in session : log[k].last \in Int /\ log[k].bid \in Int /\ log[k].bid < Huge
  <2>1. \A k \in session : k \in 1 .. L
    BY <1>1
  <2>2. \A k \in 1 .. L : log[k].last \in Int /\ log[k].bid \in Int /\ log[k].bid < Huge
    BY <1>1, RowTimes DEF RangesInv
  <2>3. QED
    BY <2>1, <2>2
<1>3. Fits(ctx, log, began, L)
  BY DEF RangesInv
<1>4. asian \subseteq session /\ opening \subseteq session
  BY DEF Asian, London, Opening
<1>5. \A K \in SUBSET session : /\ {0} \cup Lasts(log, K) \subseteq Int
                                /\ {Huge} \cup Lasts(log, K) \subseteq Int
  BY <1>2 DEF Lasts, Huge
<1>6. \A K \in SUBSET session : \A m :
         /\ IsMax(m, {0} \cup Lasts(log, K)) => Highest(K) = m
         /\ IsMin(m, {Huge} \cup Lasts(log, K)) => Lowest(K) = m
  <2> SUFFICES ASSUME NEW K \in SUBSET session, NEW m
               PROVE  /\ IsMax(m, {0} \cup Lasts(log, K)) => Highest(K) = m
                      /\ IsMin(m, {Huge} \cup Lasts(log, K)) => Lowest(K) = m
    OBVIOUS
  <2> DEFINE S == {0} \cup Lasts(log, K)
             T == {Huge} \cup Lasts(log, K)
  <2>1. Highest(K) = Max(S) /\ Lowest(K) = Min(T)
    BY DEF Highest, Lowest, Lasts
  <2>2. S \subseteq Int /\ T \subseteq Int
    BY <1>5
  <2> HIDE DEF S, T
  <2>3. (IsMax(m, S) => Max(S) = m) /\ (IsMin(m, T) => Min(T) = m)
    BY <2>2, MaxIs, MinIs
  <2>4. QED
    BY <2>1, <2>3 DEF S, T
<1>7. ctx.asianHigh = Highest(asian) /\ ctx.asianLow = Lowest(asian)
  BY <1>3, <1>4, <1>6 DEF Fits
<1>8. ctx.openingHi = Highest(opening) /\ ctx.openingLo = Lowest(opening)
  BY <1>3, <1>4, <1>6 DEF Fits
<1>9. ctx.swingLow = Min({log[k].bid : k \in session})
  <2> DEFINE S == Bids(log, session)
  <2>1. IsMin(ctx.swingLow, {Huge} \cup S)
    BY <1>3 DEF Fits
  <2>2. S \subseteq Int /\ \A y \in S : y < Huge
    BY <1>2 DEF Bids
  <2>3. \E y \in S : y < Huge
    <3>1. began \in session
      BY <1>1
    <3>2. QED
      BY <1>2, <3>1 DEF Bids
  <2>4. S = {log[k].bid : k \in session}
    BY DEF Bids
  <2> HIDE DEF S
  <2>5. IsMin(ctx.swingLow, S)
    <3>1. ctx.swingLow \in {Huge} \cup S /\ \A y \in S : ctx.swingLow <= y
      BY <2>1 DEF IsMin
    <3>2. ctx.swingLow # Huge
      <4>1. PICK y \in S : y < Huge
        BY <2>3
      <4>2. y \in Int /\ ctx.swingLow <= y /\ Huge \in Int
        BY <2>2, <3>1 DEF Huge
      <4>3. QED
        BY <4>1, <4>2
    <3>3. QED
      BY <3>1, <3>2 DEF IsMin
  <2>6. QED
    BY <2>2, <2>4, <2>5, MinIs
<1>10. /\ ctx.asianFinalized <=> asian # session
       /\ ctx.openingTicks = Cardinality(opening)
  BY <1>3 DEF Fits
<1>11. QED
  BY <1>7, <1>8, <1>9, <1>10 DEF SessionRanges, Asian, London, Opening

(* The rules are never handed a range of another session's ticks, nor one  *)
(* that left a tick out.                                                   *)
THEOREM RangesOfSession == Spec => []SessionRanges
<1>1. IInv /\ IInv' /\ SessionInv /\ RangesInv /\ [Next]_vars => RangesInv'
  BY RangesStep
<1>2. Spec => []RangesInv
  BY <1>1, RangesInit, RingCorrect, SessionCorrect, PTL DEF Spec
<1>3. QED
  BY <1>2, RingCorrect, SessionCorrect, RangesFollow, PTL

----------------------------------------------------------------------------
(* The bounds on the history, and the context before the first tick.       *)
Bounds ==
    /\ L <= Ticks /\ co \in [CoFeeds -> 0 .. CoTicks]
    /\ L = 0 => began = 1 /\ ctx.openingTicks = 0

LEMMA BoundsInit == Init => Bounds
<1> SUFFICES ASSUME Init PROVE Bounds
  OBVIOUS
<1>1. /\ log = <<>> /\ began = 1 /\ co = [f \in CoFeeds |-> 0] /\ ctx.openingTicks = 0
  BY DEF Init, NewContext
<1>2. Ticks \in Nat /\ CoTicks \in Nat
  BY InputsAssumption
<1>3. L = 0
  BY <1>1 DEF L
<1>4. QED
  BY <1>1, <1>2, <1>3 DEF Bounds

LEMMA BoundsStep == ASSUME IInv, Bounds, [Next]_vars PROVE Bounds'
<1>1. CASE Gold
  <2>1. L \in Nat /\ L' = L + 1
    BY <1>1, GoldShape
  <2>2. L < Ticks /\ co' = co
    BY <1>1 DEF Gold, L
  <2>3. L' <= Ticks /\ L' # 0
    BY <2>1, <2>2, InputsAssumption
  <2>4. QED
    BY <2>2, <2>3 DEF Bounds
<1>2. ASSUME NEW f \in CoFeeds, CoFeed(f) PROVE Bounds'
  <2>1. /\ co["dxy"] + co["xag"] + co["yield"] < CoTicks
        /\ co' = [co EXCEPT ![f] = @ + 1] /\ UNCHANGED <<log, began, ctx>>
    BY <1>2 DEF CoFeed
  <2>2. co \in [CoFeeds -> 0 .. CoTicks] /\ CoTicks \in Nat
    BY InputsAssumption DEF Bounds
  <2>3. /\ co["dxy"] \in Nat /\ co["xag"] \in Nat /\ co["yield"] \in Nat
        /\ co[f] \in {co["dxy"], co["xag"], co["yield"]}
    BY <2>2 DEF CoFeeds
  <2>4. co[f] + 1 \in 0 .. CoTicks
    BY <2>1, <2>2, <2>3
  <2>5. co' \in [CoFeeds -> 0 .. CoTicks]
    BY <2>1, <2>2, <2>4
  <2>6. QED
    BY <2>1, <2>5 DEF Bounds, L
<1>3. CASE UNCHANGED vars
  BY <1>3 DEF Bounds, L, vars
<1>4. QED
  BY <1>1, <1>2, <1>3 DEF Next

LEMMA TypesFollow == IInv /\ SessionInv /\ RangesInv /\ Bounds => TypeOK
<1> SUFFICES ASSUME IInv, SessionInv, RangesInv, Bounds PROVE TypeOK
  OBVIOUS
<1>1. /\ L \in Nat /\ L = Len(log) /\ store.count = Len(log) /\ L <= Ticks
      /\ DOMAIN store.slot = 0 .. Win - 1
  BY DEF IInv, Types, Bounds, L
<1>2. ctx.ticks \in 0 .. Len(log)
  BY DEF IInv, Types, Counts
<1>3. OpeningTicks \in Nat
  BY InputsAssumption
<1>4. ctx.openingTicks \in 0 .. OpeningTicks
  <2>1. CASE L = 0
    BY <1>3, <2>1 DEF Bounds
  <2>2. CASE L # 0
    <3> DEFINE K == London(log, began, L)
    <3>1. began \in 1 .. L /\ ctx.openingTicks = Lesser(Cardinality(K), OpeningTicks)
      BY <1>1, <2>2 DEF SessionInv, RangesInv, Fits
    <3>2. IsFiniteSet(began .. L) /\ K \in SUBSET (began .. L)
      BY <1>1, <3>1, FS_Interval DEF London
    <3> HIDE DEF K
    <3>3. IsFiniteSet(K)
      BY <3>2, FS_Subset
    <3>4. Cardinality(K) \in Nat
      BY <3>3, FS_CardinalityType
    <3>5. QED
      BY <1>3, <3>1, <3>4 DEF Lesser
  <2>3. QED
    BY <2>1, <2>2
<1>5. dayOpen \in Nat /\ began \in Nat
  <2>1. CASE L = 0
    BY <2>1 DEF SessionInv, Bounds
  <2>2. CASE L # 0
    <3>1. began \in 1 .. L /\ dayOpen = log[began].time /\ dayOpen >= 1
      BY <1>1, <2>2 DEF SessionInv
    <3>2. dayOpen \in Int
      BY <1>1, <3>1, RowTimes DEF IInv, Types
    <3>3. QED
      BY <1>1, <3>1, <3>2
  <2>3. QED
    BY <2>1, <2>2
<1>6. co \in [CoFeeds -> 0 .. CoTicks]
  BY DEF Bounds
<1>7. QED
  BY <1>1, <1>2, <1>4, <1>5, <1>6 DEF TypeOK

(* Every variable of the thread keeps its type: the session counts ticks   *)
(* that there were, and the opening range no more than it may.             *)
THEOREM IndicatorTypeCorrect == Spec => []TypeOK
<1>1. IInv /\ IInv' /\ SessionInv /\ RangesInv /\ [Next]_vars => RangesInv'
  BY RangesStep
<1>2. Spec => []RangesInv
  BY <1>1, RangesInit, RingCorrect, SessionCorrect, PTL DEF Spec
<1>3. IInv /\ Bounds /\ [Next]_vars => Bounds'
  BY BoundsStep
<1>4. Spec => []Bounds
  BY <1>3, BoundsInit, RingCorrect, PTL DEF Spec
<1>5. QED
  BY <1>2, <1>4, RingCorrect, SessionCorrect, TypesFollow, PTL
============================================================================
