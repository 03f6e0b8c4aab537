--------------------------- MODULE LearningProofs ---------------------------
(***************************************************************************)
(* For every set of rules, prices, stop distances, every capacity of the   *)
(* two queues and every number of trades: what the paper engine hands to   *)
(* the learner, what its summary says of the equity, and when a trade may  *)
(* gain.                                                                   *)
(*                                                                         *)
(* The invariant says where the trade in progress is recorded: its rules   *)
(* are the last opener while it is open (Opener), the equity is the last   *)
(* point of the curve (CurveEnds), its bracket has the stop on the losing  *)
(* side of an entry the book could give (Bracket), and peak and drawdown   *)
(* are the largest of what the curve gives (Extremes).  A second one       *)
(* follows the weights through the logic thread and the queue (InStep).    *)
(***************************************************************************)
EXTENDS LearningLoop, FiniteSetTheorems, SequenceTheorems, TLAPS

Types == PaperTypeOK /\ raw \in Seq(Signals) /\ learned \in Seq(Outcomes)

Opener ==
    /\ pos.open => Len(openers) = summary.trades + 1 /\ openers[summary.trades + 1] = pos.rules
    /\ ~pos.open => Len(openers) = summary.trades

CurveEnds ==
    /\ Len(curve) = summary.trades + 1 /\ curve[summary.trades + 1] = summary.equity
    /\ curve[1] = StartCapital

Bracket ==
    pos.open =>
        \/ /\ pos.direction = "LONG" /\ pos.sl < pos.entry
           /\ \E ask \in Prices : pos.entry = ask + Slip
        \/ /\ pos.direction = "SHORT" /\ pos.sl > pos.entry
           /\ \E bid \in Prices : pos.entry = bid - Slip

(* The equity after the closes, its highest point and its deepest fall.    *)
Closes(c) == {c[k + 1] : k \in 1 .. Len(c) - 1}
FallsOver(c, n) == {IF i <= j THEN c[i + 1] - c[j + 1] ELSE 0 : i, j \in 1 .. n}
Falls(c) == FallsOver(c, Len(c) - 1)

IsMax(m, S) == m \in S /\ \A y \in S : m >= y

Extremes ==
    /\ IF summary.trades = 0 THEN summary.peak = 0 ELSE IsMax(summary.peak, Closes(curve))
    /\ IsMax(summary.drawdown, {0} \cup Falls(curve))

(* The learner is the replay's last, the registry's weights are the        *)
(* learner's but for the outcomes of this pass, and a signal was scored    *)
(* under the weights of the outcomes heard before it.                      *)
ScoredBy(signal) ==
    /\ signal.heard + 1 \in 1 .. Len(replay)
    /\ signal.direction = DirectionOf(Score(replay[signal.heard + 1].weight, signal.rules))

InStep ==
    /\ Len(replay) = Len(learned) + 1 /\ learner = replay[Len(replay)]
    /\ lpc = "evaluate" => ~adapted
    /\ ~adapted => weights = learner.weight
    /\ \A k \in 1 .. Len(raw) : ScoredBy(raw[k])
    /\ pos.open => ScoredBy(pos)

IInv == Types /\ Opener /\ CurveEnds /\ Bracket /\ Extremes /\ LearnerAgrees

LEMMA Constants ==
    /\ Prices \subseteq Nat /\ Slip \in Nat /\ Commission \in Nat /\ StartCapital \in Nat
    /\ \A d \in Stops : d \in Nat /\ d >= 1
    /\ OutcomeCap \in Nat /\ OutcomeCap >= 1
    /\ \A p, q \in Prices : (p - q) + Slip + Commission <= StartCapital
BY MoneyAssumption, SizesAssumption, CapitalAssumption

LEMMA MaxOfTwo ==
    ASSUME NEW a \in Int, NEW b \in Int
    PROVE  Max({a, b}) = IF a >= b THEN a ELSE b
<1> DEFINE m == IF a >= b THEN a ELSE b
<1>1. m \in {a, b} /\ \A y \in {a, b} : m >= y
  OBVIOUS
<1>2. Max({a, b}) \in {a, b} /\ \A y \in {a, b} : Max({a, b}) >= y
  BY <1>1 DEF Max
<1>3. QED
  BY <1>2

(* The types, apart from the weights: what the fold of a set of weights is *)
(* cannot be proved by the provers at hand, and nothing below needs it.    *)
LEMMA PositionType ==
    ASSUME Types
    PROVE  /\ pos.open \in BOOLEAN /\ pos.direction \in Directions /\ pos.entry \in Int
           /\ pos.sl \in Int /\ pos.tp \in Int /\ pos.rules \in SUBSET Rules /\ pos.heard \in Nat
BY DEF Types, PaperTypeOK

LEMMA SummaryType ==
    ASSUME Types
    PROVE  /\ summary.trades \in Nat /\ summary.winners \in Nat /\ summary.losers \in Nat
           /\ summary.pnl \in Int /\ summary.equity \in Int /\ summary.peak \in Int
           /\ summary.drawdown \in Nat
BY DEF Types, PaperTypeOK

LEMMA SignalType ==
    ASSUME NEW sig \in Signals
    PROVE  /\ sig.rules \in SUBSET Rules /\ sig.direction \in Directions
           /\ sig.blocked \in BOOLEAN /\ sig.stop \in Stops /\ sig.heard \in Nat
BY DEF Signals

LEMMA OpenedType ==
    ASSUME NEW sig \in Signals, NEW bid \in Prices, NEW ask \in Prices, sig.direction # "NONE"
    PROVE  LET o == Opened(sig, bid, ask)
           IN /\ o \in [open : BOOLEAN, direction : Directions, entry : Int, sl : Int, tp : Int,
                        rules : SUBSET Rules, heard : Nat]
              /\ o.open /\ o.rules = sig.rules /\ o.direction = sig.direction
              /\ \/ /\ o.direction = "LONG" /\ o.sl < o.entry /\ o.entry = ask + Slip
                 \/ /\ o.direction = "SHORT" /\ o.sl > o.entry /\ o.entry = bid - Slip
<1> DEFINE o == Opened(sig, bid, ask)
<1>1. /\ bid \in Nat /\ ask \in Nat /\ Slip \in Nat /\ sig.stop \in Nat /\ sig.stop >= 1
      /\ sig.direction \in {"LONG", "SHORT"} /\ sig.rules \in SUBSET Rules /\ sig.heard \in Nat
  BY Constants, SignalType DEF Directions
<1>2. CASE sig.direction = "LONG"
  <2>1. o = [open |-> TRUE, direction |-> "LONG", entry |-> ask + Slip,
             sl |-> (ask + Slip) - 1 * sig.stop, tp |-> (ask + Slip) + 1 * 2 * sig.stop,
             rules |-> sig.rules, heard |-> sig.heard]
    BY <1>2 DEF Opened
  <2>2. /\ ask + Slip \in Int /\ (ask + Slip) - 1 * sig.stop \in Int
        /\ (ask + Slip) + 1 * 2 * sig.stop \in Int /\ (ask + Slip) - 1 * sig.stop < ask + Slip
    BY <1>1
  <2>3. QED
    BY <1>1, <1>2, <2>1, <2>2 DEF Directions
<1>3. CASE sig.direction = "SHORT"
  <2>1. o = [open |-> TRUE, direction |-> "SHORT", entry |-> bid - Slip,
             sl |-> (bid - Slip) - (-1) * sig.stop, tp |-> (bid - Slip) + (-1) * 2 * sig.stop,
             rules |-> sig.rules, heard |-> sig.heard]
    BY <1>3 DEF Opened
  <2>2. /\ bid - Slip \in Int /\ (bid - Slip) - (-1) * sig.stop \in Int
        /\ (bid - Slip) + (-1) * 2 * sig.stop \in Int
        /\ (bid - Slip) - (-1) * sig.stop > bid - Slip
    BY <1>1
  <2>3. QED
    BY <1>1, <1>3, <2>1, <2>2 DEF Directions
<1>4. QED
  BY <1>1, <1>2, <1>3

(* What a close books: the trade cannot cost the starting capital.         *)
LEMMA PnlOfClose ==
    ASSUME Types, Bracket, NEW bid \in Prices, NEW ask \in Prices, MustClose(bid, ask)
    PROVE  LET p == Pnl(Mark(bid, ask))
           IN /\ p \in Int /\ p + StartCapital >= 0
              /\ p + Commission > 0 =>
                    p + Commission >= IF pos.direction = "LONG" THEN pos.tp - pos.entry
                                      ELSE pos.entry - pos.tp
<1>1. /\ pos.open /\ Hit(Mark(bid, ask))
  BY DEF MustClose
<1>2. /\ pos.entry \in Int /\ pos.sl \in Int /\ pos.tp \in Int /\ bid \in Nat /\ ask \in Nat
      /\ Slip \in Nat /\ Commission \in Nat /\ StartCapital \in Nat
  BY PositionType, Constants
<1>3. CASE /\ pos.direction = "LONG" /\ pos.sl < pos.entry
           /\ \E p \in Prices : pos.entry = p + Slip
  <2>1. PICK p \in Prices : pos.entry = p + Slip
    BY <1>3
  <2>2. p \in Nat /\ (p - bid) + Slip + Commission <= StartCapital
    BY Constants
  <2>3. Mark(bid, ask) = bid /\ (bid <= pos.sl \/ bid >= pos.tp)
    BY <1>1, <1>3 DEF Mark, Hit
  <2>4. Pnl(bid) = (bid - pos.entry) - Commission
    BY <1>3 DEF Pnl
  <2>5. QED
    BY <1>2, <1>3, <2>1, <2>2, <2>3, <2>4
<1>4. CASE /\ pos.direction = "SHORT" /\ pos.sl > pos.entry
           /\ \E p \in Prices : pos.entry = p - Slip
  <2>1. PICK p \in Prices : pos.entry = p - Slip
    BY <1>4
  <2>2. p \in Nat /\ (ask - p) + Slip + Commission <= StartCapital
    BY Constants
  <2>3. Mark(bid, ask) = ask /\ (ask >= pos.sl \/ ask <= pos.tp)
    BY <1>1, <1>4 DEF Mark, Hit
  <2>4. Pnl(ask) = (pos.entry - ask) - Commission
    BY <1>4 DEF Pnl
  <2>5. QED
    BY <1>2, <1>4, <2>1, <2>2, <2>3, <2>4
<1>5. QED
  BY <1>1, <1>3, <1>4 DEF Bracket

----------------------------------------------------------------------------
(* The curve with one more close on it.                                    *)
LEMMA CurveGrows ==
    ASSUME NEW c \in Seq(Int), NEW n \in Nat, Len(c) = n + 1, NEW e \in Int
    PROVE  LET d == Append(c, e)
           IN /\ d \in Seq(Int) /\ Len(d) = n + 2 /\ d[n + 2] = e
              /\ \A k \in 1 .. n + 1 : d[k] = c[k] /\ c[k] \in Int
              /\ Closes(d) = Closes(c) \cup {e}
              /\ Closes(d) \subseteq Int
<1> DEFINE d == Append(c, e)
<1>1. /\ d \in Seq(Int) /\ Len(d) = n + 2 /\ d[n + 2] = e
      /\ \A k \in 1 .. n + 1 : d[k] = c[k] /\ c[k] \in Int
  OBVIOUS
<1> HIDE DEF d
<1>2. \A k \in 1 .. n : d[k + 1] = c[k + 1] /\ c[k + 1] \in Int
  <2>1. \A k \in 1 .. n : k + 1 \in 1 .. n + 1
    OBVIOUS
  <2>2. QED
    BY <1>1, <2>1
<1>3. /\ Len(c) - 1 = n /\ Len(d) - 1 = n + 1 /\ (n + 1) + 1 = n + 2
      /\ 1 .. n + 1 = (1 .. n) \cup {n + 1}
  BY <1>1
<1>4. Closes(c) = {c[k + 1] : k \in 1 .. n} /\ Closes(d) = {d[k + 1] : k \in 1 .. n + 1}
  BY <1>3 DEF Closes
<1>5. Closes(d) = Closes(c) \cup {e}
  BY <1>1, <1>2, <1>3, <1>4
<1>6. Closes(d) \subseteq Int
  BY <1>2, <1>4, <1>5
<1>7. QED
  BY <1>1, <1>5, <1>6 DEF d

(* The deepest fall after one more close is the deepest before or the one  *)
(* from the highest close to the new.                                      *)
LEMMA FallsGrow ==
    ASSUME NEW c \in Seq(Int), NEW n \in Nat, Len(c) = n + 1, NEW e \in Int,
           NEW peak \in Int, IsMax(peak, Closes(Append(c, e))),
           NEW deep \in Int, IsMax(deep, {0} \cup Falls(c))
    PROVE  IsMax(IF deep >= peak - e THEN deep ELSE peak - e, {0} \cup Falls(Append(c, e)))
<1> DEFINE d == Append(c, e)
           m == IF deep >= peak - e THEN deep ELSE peak - e
<1>1. /\ Len(d) = n + 2 /\ d[n + 2] = e /\ \A k \in 1 .. n + 1 : d[k] = c[k] /\ c[k] \in Int
  BY CurveGrows
<1> HIDE DEF d
<1>2. Falls(d) = {IF i <= j THEN d[i + 1] - d[j + 1] ELSE 0 : i, j \in 1 .. n + 1}
  <2>1. Len(d) - 1 = n + 1
    BY <1>1
  <2>2. Falls(d) = FallsOver(d, n + 1)
    BY <2>1 DEF Falls
  <2>3. QED
    BY <2>2 DEF FallsOver
<1>3. Falls(c) = {IF i <= j THEN c[i + 1] - c[j + 1] ELSE 0 : i, j \in 1 .. n}
  <2>1. Len(c) - 1 = n
    OBVIOUS
  <2>2. Falls(c) = FallsOver(c, n)
    BY <2>1 DEF Falls
  <2>3. QED
    BY <2>2 DEF FallsOver
<1>4. Closes(d) = {d[k + 1] : k \in 1 .. n + 1}
  <2>1. Len(d) - 1 = n + 1
    BY <1>1
  <2>2. QED
    BY <2>1 DEF Closes
<1>5. \A k \in 1 .. n : d[k + 1] = c[k + 1] /\ c[k + 1] \in Int
  <2>1. \A k \in 1 .. n : k + 1 \in 1 .. n + 1
    OBVIOUS
  <2>2. QED
    BY <1>1, <2>1
<1>6. peak \in Closes(d) /\ \A k \in 1 .. n + 1 : peak >= d[k + 1]
  BY <1>4 DEF IsMax, d
<1>7. deep \in {0} \cup Falls(c) /\ deep >= 0 /\ \A y \in Falls(c) : deep >= y
  BY DEF IsMax
<1>8. Falls(c) \subseteq Falls(d)
  <2>1. \A i, j \in 1 .. n : /\ i \in 1 .. n + 1 /\ j \in 1 .. n + 1
                             /\ c[i + 1] = d[i + 1] /\ c[j + 1] = d[j + 1]
    BY <1>5
  <2>2. QED
    BY <1>2, <1>3, <2>1
<1>9. peak - e \in Falls(d)
  <2>1. PICK k \in 1 .. n + 1 : peak = d[k + 1]
    BY <1>4, <1>6
  <2>2. k <= n + 1 /\ n + 1 \in 1 .. n + 1 /\ d[(n + 1) + 1] = e
    BY <1>1
  <2>3. peak - e = IF k <= n + 1 THEN d[k + 1] - d[(n + 1) + 1] ELSE 0
    BY <2>1, <2>2
  <2>4. QED
    BY <1>2, <2>2, <2>3
<1>10. m \in {0} \cup Falls(d)
  BY <1>7, <1>8, <1>9
<1>11. ASSUME NEW i \in 1 .. n + 1, NEW j \in 1 .. n + 1
       PROVE  m >= (IF i <= j THEN d[i + 1] - d[j + 1] ELSE 0)
  <2>1. m \in Int /\ m >= 0 /\ m >= deep /\ m >= peak - e
    BY <1>7
  <2>2. CASE i <= j /\ j = n + 1
    <3>1. d[j + 1] = e /\ peak >= d[i + 1]
      BY <1>1, <1>6, <2>2
    <3>2. d[i + 1] \in Int
      <4>1. CASE i = n + 1
        BY <1>1, <4>1
      <4>2. CASE i # n + 1
        <5>1. i \in 1 .. n
          BY <4>2
        <5>2. QED
          BY <1>5, <5>1
      <4>3. QED
        BY <4>1, <4>2
    <3>3. QED
      BY <2>1, <2>2, <3>1, <3>2
  <2>3. CASE i <= j /\ j # n + 1
    <3>1. i \in 1 .. n /\ j \in 1 .. n
      BY <2>3
    <3>2. c[i + 1] - c[j + 1] \in Falls(c)
      BY <1>3, <2>3, <3>1
    <3>3. deep >= c[i + 1] - c[j + 1] /\ d[i + 1] = c[i + 1] /\ d[j + 1] = c[j + 1]
          /\ c[i + 1] \in Int /\ c[j + 1] \in Int
      BY <1>5, <1>7, <3>1, <3>2
    <3>4. QED
      BY <2>1, <2>3, <3>3
  <2>4. CASE ~(i <= j)
    BY <2>1, <2>4
  <2>5. QED
    BY <2>2, <2>3, <2>4
<1>12. \A y \in {0} \cup Falls(d) : m >= y
  <2>1. m >= 0
    BY <1>7
  <2>2. QED
    BY <1>2, <1>11, <2>1
<1> HIDE DEF m
<1>13. IsMax(m, {0} \cup Falls(d))
  BY <1>10, <1>12 DEF IsMax
<1>14. QED
  BY <1>13 DEF m, d

(* What a close makes of the summary, the curve and the extremes.          *)
LEMMA CloseBooks ==
    ASSUME IInv, NEW bid \in Prices, NEW ask \in Prices, MustClose(bid, ask),
           ClosePosition(Mark(bid, ask))
    PROVE  LET p == Pnl(Mark(bid, ask))
           IN /\ p \in Int
              /\ summary' \in [trades : Nat, winners : Nat, losers : Nat, pnl : Int, equity : Int,
                               peak : Int, drawdown : Nat]
              /\ summary'.trades = summary.trades + 1
              /\ summary'.winners = summary.winners + (IF p > 0 THEN 1 ELSE 0)
              /\ curve' = Append(curve, summary.equity + p) /\ curve' \in Seq(Int)
              /\ CurveEnds' /\ Extremes'
<1> DEFINE p == Pnl(Mark(bid, ask))
           e == summary.equity + p
           peak == IF e > summary.peak THEN e ELSE summary.peak
           deep == Max({summary.drawdown, peak - e})
           n == summary.trades
<1>1. p \in Int /\ p + StartCapital >= 0
  BY PnlOfClose DEF IInv
<1>2. /\ n \in Nat /\ summary.winners \in Nat /\ summary.losers \in Nat
      /\ summary.pnl \in Int /\ summary.equity \in Int /\ summary.peak \in Int
      /\ summary.drawdown \in Nat /\ StartCapital \in Nat
  BY SummaryType, Constants DEF IInv
<1>3. /\ summary' = [trades |-> n + 1,
                     winners |-> summary.winners + (IF p > 0 THEN 1 ELSE 0),
                     losers |-> summary.losers + (IF p > 0 THEN 0 ELSE 1),
                     pnl |-> summary.pnl + p, equity |-> e, peak |-> peak, drawdown |-> deep]
      /\ curve' = Append(curve, e)
  BY DEF ClosePosition, Booked
<1>4. curve \in Seq(Int) /\ Len(curve) = n + 1 /\ curve[n + 1] = summary.equity
      /\ curve[1] = StartCapital
  BY DEF IInv, Types, PaperTypeOK, CurveEnds
<1> HIDE DEF p
<1>5. e \in Int /\ peak \in Int /\ peak >= e
  BY <1>1, <1>2
<1>6. deep = (IF summary.drawdown >= peak - e THEN summary.drawdown ELSE peak - e) /\ deep \in Nat
  <2> HIDE DEF peak, e
  <2>1. summary.drawdown \in Int /\ peak - e \in Int
    BY <1>2, <1>5
  <2>2. deep = IF summary.drawdown >= peak - e THEN summary.drawdown ELSE peak - e
    BY <2>1, MaxOfTwo
  <2>3. QED
    BY <1>2, <1>5, <2>2
<1>7. IsMax(peak, Closes(curve'))
  <2>1. Closes(curve') = Closes(curve) \cup {e} /\ Closes(curve') \subseteq Int
    <3> HIDE DEF e, n
    <3>1. /\ Closes(Append(curve, e)) = Closes(curve) \cup {e}
          /\ Closes(Append(curve, e)) \subseteq Int
      BY <1>2, <1>4, <1>5, CurveGrows
    <3>2. QED
      BY <1>3, <3>1
  <2>2. CASE n = 0
    <3>1. Closes(curve) = {}
      BY <1>4, <2>2 DEF Closes
    <3>2. summary.peak = 0 /\ summary.equity = StartCapital
      BY <1>4, <2>2 DEF IInv, Extremes
    <3>3. peak = e
      BY <1>1, <1>2, <3>2
    <3> HIDE DEF peak
    <3>4. QED
      BY <1>5, <2>1, <3>1, <3>3 DEF IsMax
  <2>3. CASE n # 0
    <3>1. IsMax(summary.peak, Closes(curve))
      BY <2>3 DEF IInv, Extremes
    <3>2. QED
      BY <1>2, <1>5, <2>1, <3>1 DEF IsMax
  <2>4. QED
    BY <2>2, <2>3
<1>8. IsMax(deep, {0} \cup Falls(curve'))
  <2>1. IsMax(summary.drawdown, {0} \cup Falls(curve))
    BY DEF IInv, Extremes
  <2>2. summary.drawdown \in Int
    BY <1>2
  <2> HIDE DEF e, peak, deep
  <2>3. IsMax(peak, Closes(Append(curve, e)))
    BY <1>3, <1>7
  <2>4. IsMax(IF summary.drawdown >= peak - e THEN summary.drawdown ELSE peak - e,
              {0} \cup Falls(Append(curve, e)))
    BY <1>2, <1>4, <1>5, <2>1, <2>2, <2>3, FallsGrow
  <2>5. QED
    BY <1>3, <1>6, <2>4
<1>9. /\ curve' \in Seq(Int) /\ Len(curve') = n + 2 /\ curve'[n + 2] = e
      /\ curve'[1] = curve[1]
  <2> HIDE DEF e, n
  <2>1. /\ Append(curve, e) \in Seq(Int) /\ Len(Append(curve, e)) = n + 2
        /\ Append(curve, e)[n + 2] = e
        /\ \A k \in 1 .. n + 1 : Append(curve, e)[k] = curve[k]
    BY <1>2, <1>4, <1>5, CurveGrows
  <2>2. 1 \in 1 .. n + 1
    BY <1>2
  <2>3. QED
    BY <1>3, <2>1, <2>2
<1> HIDE DEF e, peak, deep, n
<1>10. summary'.trades = n + 1 /\ summary'.equity = e /\ summary'.peak = peak
       /\ summary'.drawdown = deep
       /\ summary'.winners = summary.winners + (IF p > 0 THEN 1 ELSE 0)
  BY <1>3
<1>11. CurveEnds'
  <2>1. (n + 1) + 1 = n + 2
    BY <1>2
  <2>2. QED
    BY <1>4, <1>9, <1>10, <2>1 DEF CurveEnds
<1>12. Extremes'
  <2>1. n + 1 # 0
    BY <1>2
  <2>2. QED
    BY <1>7, <1>8, <1>10, <2>1 DEF Extremes
<1>13. summary' \in [trades : Nat, winners : Nat, losers : Nat, pnl : Int, equity : Int,
                     peak : Int, drawdown : Nat]
  <2>1. n + 1 \in Nat /\ summary.winners + (IF p > 0 THEN 1 ELSE 0) \in Nat
        /\ summary.losers + (IF p > 0 THEN 0 ELSE 1) \in Nat /\ summary.pnl + p \in Int
    BY <1>1, <1>2
  <2>2. QED
    BY <1>3, <1>5, <1>6, <2>1
<1>14. QED
  BY <1>1, <1>3, <1>9, <1>10, <1>11, <1>12, <1>13 DEF p, n, e

----------------------------------------------------------------------------
(* The place of trade k among a set of trades.                             *)
Rank(K, k) == Cardinality({j \in K : j <= k})

LEMMA RankInside ==
    ASSUME NEW n \in Nat, NEW K \in SUBSET (1 .. n), NEW k \in K
    PROVE  /\ IsFiniteSet(K) /\ Cardinality(K) \in Nat /\ Rank(K, k) \in 1 .. Cardinality(K)
<1> DEFINE J == {j \in K : j <= k}
<1>1. IsFiniteSet(1 .. n)
  BY FS_Interval
<1>2. IsFiniteSet(K)
  BY <1>1, FS_Subset
<1>3. Cardinality(K) \in Nat
  BY <1>2, FS_CardinalityType
<1>4. J \in SUBSET K
  OBVIOUS
<1>5. k \in J
  OBVIOUS
<1> HIDE DEF J
<1>6. IsFiniteSet(J) /\ Cardinality(J) <= Cardinality(K)
  BY <1>2, <1>4, FS_Subset
<1>7. Cardinality(J) \in Nat /\ Cardinality(J) # 0
  BY <1>5, <1>6, FS_EmptySet, FS_CardinalityType
<1>8. Cardinality(J) \in 1 .. Cardinality(K)
  BY <1>3, <1>6, <1>7
<1>9. QED
  BY <1>2, <1>3, <1>8 DEF Rank, J

(* One more trade comes last.                                              *)
LEMMA RankGrows ==
    ASSUME NEW n \in Nat, NEW K \in SUBSET (1 .. n)
    PROVE  /\ Cardinality(K \cup {n + 1}) = Cardinality(K) + 1
           /\ Rank(K \cup {n + 1}, n + 1) = Cardinality(K) + 1
           /\ \A k \in K : Rank(K \cup {n + 1}, k) = Rank(K, k)
<1>1. IsFiniteSet(1 .. n)
  BY FS_Interval
<1>2. IsFiniteSet(K)
  BY <1>1, FS_Subset
<1>3. \A j \in K : j \in Nat /\ j <= n
  OBVIOUS
<1>4. n + 1 \notin K
  BY <1>3
<1>5. Cardinality(K \cup {n + 1}) = Cardinality(K) + 1
  BY <1>2, <1>4, FS_AddElement
<1>6. {j \in K \cup {n + 1} : j <= n + 1} = K \cup {n + 1}
  <2>1. \A j \in K \cup {n + 1} : j <= n + 1
    BY <1>3
  <2>2. QED
    BY <2>1
<1>7. \A k \in K : {j \in K \cup {n + 1} : j <= k} = {j \in K : j <= k}
  <2>1. \A k \in K : ~(n + 1 <= k)
    BY <1>3
  <2>2. QED
    BY <2>1
<1>8. QED
  BY <1>5, <1>6, <1>7 DEF Rank

LEMMA OutcomesJoin ==
    ASSUME NEW S, NEW s \in Seq(S), NEW t \in Seq(S)
    PROVE  /\ s \o t \in Seq(S) /\ Len(s \o t) = Len(s) + Len(t)
           /\ t # <<>> => Append(s, Head(t)) \o Tail(t) = s \o t
           /\ \A x \in S : s \o Append(t, x) = Append(s \o t, x)
<1>1. s \o t \in Seq(S) /\ Len(s \o t) = Len(s) + Len(t)
  BY ConcatProperties
<1>2. ASSUME t # <<>> PROVE Append(s, Head(t)) \o Tail(t) = s \o t
  <2>1. Head(t) \in S /\ Tail(t) \in Seq(S) /\ <<Head(t)>> \in Seq(S)
    BY <1>2, HeadTailProperties
  <2>2. Append(s, Head(t)) = s \o <<Head(t)>>
    BY <2>1, AppendIsConcat
  <2>3. (s \o <<Head(t)>>) \o Tail(t) = s \o (<<Head(t)>> \o Tail(t))
    BY <2>1, ConcatAssociative
  <2>4. <<Head(t)>> \o Tail(t) = t
    BY <1>2, <2>1
  <2>5. QED
    BY <2>2, <2>3, <2>4
<1>3. ASSUME NEW x \in S PROVE s \o Append(t, x) = Append(s \o t, x)
  <2>1. Append(t, x) = t \o <<x>> /\ Append(s \o t, x) = (s \o t) \o <<x>>
    BY <1>1, AppendIsConcat
  <2>2. <<x>> \in Seq(S)
    OBVIOUS
  <2>3. QED
    BY <2>1, <2>2, ConcatAssociative
<1>4. QED
  BY <1>1, <1>2, <1>3

(* LearnerAgrees of values: what the learner has taken or will take, the   *)
(* openers, the curve, the lost trades, how many trades and winners.       *)
LabelOf(c, k) == IF c[k + 1] > c[k] THEN 1 ELSE -1
TradeOf(o, c, k) == [label |-> LabelOf(c, k), rules |-> o[k]]
Kept(d, n) == (1 .. n) \ d
Winners(c, n) == {k \in 1 .. n : LabelOf(c, k) = 1}
Agrees(h, o, c, d, n, w) ==
    /\ Len(h) = Cardinality(Kept(d, n))
    /\ \A k \in Kept(d, n) : h[Rank(Kept(d, n), k)] = TradeOf(o, c, k)
    /\ w = Cardinality(Winners(c, n))

LEMMA AgreesMeans ==
    LearnerAgrees <=> Agrees(learned \o outcomes, openers, curve, dropped,
                             summary.trades, summary.winners)
BY DEF LearnerAgrees, Agrees, Kept, Winners, Rank, Trade, TradeOf, Label, LabelOf

LEMMA AgreesMeansNext ==
    LearnerAgrees' <=> Agrees(learned' \o outcomes', openers', curve', dropped',
                              summary'.trades, summary'.winners)
BY DEF LearnerAgrees, Agrees, Kept, Winners, Rank, Trade, TradeOf, Label, LabelOf

LEMMA AgreesKept ==
    ASSUME NEW h, NEW o, NEW o2, NEW c, NEW d, NEW n, NEW w, Agrees(h, o, c, d, n, w),
           \A k \in 1 .. n : o2[k] = o[k]
    PROVE  Agrees(h, o2, c, d, n, w)
<1>1. \A k \in Kept(d, n) : TradeOf(o2, c, k) = TradeOf(o, c, k)
  BY DEF Kept, TradeOf
<1>2. QED
  BY <1>1 DEF Agrees

(* One more close: its trade comes last, or it is one of the lost.         *)
LEMMA AgreesGrows ==
    ASSUME NEW n \in Nat, NEW c \in Seq(Int), Len(c) = n + 1, NEW e \in Int,
           NEW d \in SUBSET (1 .. n), NEW h \in Seq(Outcomes), NEW w \in Nat,
           NEW o, NEW o2, \A k \in 1 .. n : o2[k] = o[k], Agrees(h, o, c, d, n, w),
           TradeOf(o2, Append(c, e), n + 1) \in Outcomes
    PROVE  LET c2 == Append(c, e)
               w2 == w + (IF e > c[n + 1] THEN 1 ELSE 0)
           IN /\ Agrees(Append(h, TradeOf(o2, c2, n + 1)), o2, c2, d, n + 1, w2)
              /\ Agrees(h, o2, c2, d \cup {n + 1}, n + 1, w2)
<1> DEFINE c2 == Append(c, e)
           x == TradeOf(o2, c2, n + 1)
           w2 == w + (IF e > c[n + 1] THEN 1 ELSE 0)
           K == Kept(d, n)
           W == Winners(c, n)
<1>1. c2[n + 2] = e /\ \A k \in 1 .. n + 1 : c2[k] = c[k] /\ c[k] \in Int
  BY CurveGrows
<1> HIDE DEF c2, w2
<1>2. \A k \in 1 .. n : LabelOf(c2, k) = LabelOf(c, k) /\ TradeOf(o2, c2, k) = TradeOf(o, c, k)
  <2>1. \A k \in 1 .. n : k \in 1 .. n + 1 /\ k + 1 \in 1 .. n + 1
    OBVIOUS
  <2>2. \A k \in 1 .. n : c2[k] = c[k] /\ c2[k + 1] = c[k + 1]
    BY <1>1, <2>1
  <2>3. QED
    BY <2>2 DEF LabelOf, TradeOf
<1>3. LabelOf(c2, n + 1) = (IF e > c[n + 1] THEN 1 ELSE -1)
  <2>1. n + 1 \in 1 .. n + 1 /\ (n + 1) + 1 = n + 2
    OBVIOUS
  <2>2. c2[(n + 1) + 1] = e /\ c2[n + 1] = c[n + 1]
    BY <1>1, <2>1
  <2>3. QED
    BY <2>2 DEF LabelOf
<1>4. K \in SUBSET (1 .. n) /\ W \in SUBSET (1 .. n)
  BY DEF Kept, Winners
<1>5. 1 .. n + 1 = (1 .. n) \cup {n + 1} /\ n + 1 \notin 1 .. n
  OBVIOUS
<1>6. /\ Len(h) = Cardinality(K) /\ w = Cardinality(W)
      /\ \A k \in K : h[Rank(K, k)] = TradeOf(o, c, k)
  BY DEF Agrees
<1>7. w2 = Cardinality(Winners(c2, n + 1))
  <2>1. CASE e > c[n + 1]
    <3>1. LabelOf(c2, n + 1) = 1
      BY <1>3, <2>1
    <3>2. Winners(c2, n + 1) = W \cup {n + 1}
      BY <1>2, <1>5, <3>1 DEF Winners
    <3>3. Cardinality(W \cup {n + 1}) = Cardinality(W) + 1
      BY <1>4, RankGrows
    <3>4. w2 = w + 1
      BY <2>1 DEF w2
    <3>5. QED
      BY <1>6, <3>2, <3>3, <3>4
  <2>2. CASE ~(e > c[n + 1])
    <3>1. LabelOf(c2, n + 1) # 1
      BY <1>3, <2>2
    <3>2. Winners(c2, n + 1) = W
      BY <1>2, <1>5, <3>1 DEF Winners
    <3>3. w2 = w
      BY <2>2 DEF w2
    <3>4. QED
      BY <1>6, <3>2, <3>3
  <2>3. QED
    BY <2>1, <2>2
<1>8. Kept(d \cup {n + 1}, n + 1) = K /\ Kept(d, n + 1) = K \cup {n + 1}
  BY <1>5 DEF Kept
<1>9. Agrees(h, o2, c2, d \cup {n + 1}, n + 1, w2)
  <2>1. \A k \in K : h[Rank(K, k)] = TradeOf(o2, c2, k)
    BY <1>2, <1>4, <1>6
  <2> HIDE DEF K
  <2>2. QED
    BY <1>6, <1>7, <1>8, <2>1 DEF Agrees
<1> HIDE DEF K, x
<1>10. Agrees(Append(h, x), o2, c2, d, n + 1, w2)
  <2>1. x \in Outcomes
    BY DEF x, c2
  <2>2. /\ Len(Append(h, x)) = Len(h) + 1 /\ Append(h, x)[Len(h) + 1] = x
        /\ \A i \in 1 .. Len(h) : Append(h, x)[i] = h[i]
    BY <2>1
  <2>3. /\ Cardinality(K \cup {n + 1}) = Cardinality(K) + 1
        /\ Rank(K \cup {n + 1}, n + 1) = Cardinality(K) + 1
        /\ \A k \in K : Rank(K \cup {n + 1}, k) = Rank(K, k)
    BY <1>4, RankGrows
  <2>4. ASSUME NEW k \in K
        PROVE  Append(h, x)[Rank(K \cup {n + 1}, k)] = TradeOf(o2, c2, k)
    <3>1. Rank(K, k) \in 1 .. Cardinality(K)
      BY <1>4, RankInside
    <3>2. Append(h, x)[Rank(K, k)] = h[Rank(K, k)]
      BY <1>6, <2>2, <3>1
    <3>3. h[Rank(K, k)] = TradeOf(o, c, k) /\ TradeOf(o, c, k) = TradeOf(o2, c2, k)
      BY <1>2, <1>4, <1>6
    <3>4. QED
      BY <2>3, <3>2, <3>3
  <2>5. Append(h, x)[Rank(K \cup {n + 1}, n + 1)] = TradeOf(o2, c2, n + 1)
    BY <1>6, <2>2, <2>3 DEF x
  <2>6. \A k \in K \cup {n + 1} : Append(h, x)[Rank(K \cup {n + 1}, k)] = TradeOf(o2, c2, k)
    <3>1. ASSUME NEW k \in K \cup {n + 1}
          PROVE  Append(h, x)[Rank(K \cup {n + 1}, k)] = TradeOf(o2, c2, k)
      <4>1. CASE k \in K
        BY <2>4, <4>1
      <4>2. CASE k = n + 1
        BY <2>5, <4>2
      <4>3. QED
        BY <4>1, <4>2
    <3>2. QED
      BY <3>1
  <2>7. QED
    BY <1>6, <1>7, <1>8, <2>2, <2>3, <2>6 DEF Agrees
<1>11. QED
  BY <1>9, <1>10 DEF c2, w2, x

(* A close: the outcome is the trade's, and it is the last.                *)
LEMMA CloseAgrees ==
    ASSUME IInv, NEW bid \in Prices, NEW ask \in Prices, MustClose(bid, ask),
           ClosePosition(Mark(bid, ask)), learned' = learned,
           \A k \in 1 .. summary.trades + 1 : openers'[k] = openers[k]
    PROVE  /\ outcomes' \in Seq(Outcomes) /\ Len(outcomes') <= OutcomeCap
           /\ dropped' \subseteq 1 .. summary'.trades
           /\ LearnerAgrees'
<1> DEFINE p == Pnl(Mark(bid, ask))
           n == summary.trades
           e == summary.equity + p
           outcome == [label |-> IF p > 0 THEN 1 ELSE -1, rules |-> pos.rules]
           w2 == summary.winners + (IF e > curve[n + 1] THEN 1 ELSE 0)
<1>1. /\ p \in Int /\ summary'.trades = n + 1
      /\ summary'.winners = summary.winners + (IF p > 0 THEN 1 ELSE 0)
      /\ curve' = Append(curve, e)
  BY CloseBooks
<1>2. /\ n \in Nat /\ summary.winners \in Nat /\ summary.equity \in Int
      /\ curve \in Seq(Int) /\ Len(curve) = n + 1 /\ curve[n + 1] = summary.equity
      /\ outcomes \in Seq(Outcomes) /\ Len(outcomes) <= OutcomeCap /\ learned \in Seq(Outcomes)
      /\ dropped \subseteq 1 .. n
  BY SummaryType DEF IInv, Types, PaperTypeOK, CurveEnds
<1>3. IF Len(outcomes) < OutcomeCap
      THEN outcomes' = Append(outcomes, outcome) /\ dropped' = dropped
      ELSE outcomes' = outcomes /\ dropped' = dropped \cup {n + 1}
  BY DEF ClosePosition
<1>4. outcome \in Outcomes
  <2>1. pos.rules \in SUBSET Rules
    BY PositionType DEF IInv
  <2>2. QED
    BY <2>1 DEF Outcomes
<1>5. openers'[n + 1] = pos.rules /\ \A k \in 1 .. n : openers'[k] = openers[k]
  <2>1. openers[n + 1] = pos.rules
    BY DEF IInv, Opener, MustClose
  <2>2. n + 1 \in 1 .. n + 1 /\ \A k \in 1 .. n : k \in 1 .. n + 1
    BY <1>2
  <2>3. QED
    BY <2>1, <2>2
<1> HIDE DEF p, n
<1>6. e \in Int /\ (e > curve[n + 1] <=> p > 0) /\ summary'.winners = w2
  BY <1>1, <1>2
<1> HIDE DEF e, w2
<1>7. TradeOf(openers', Append(curve, e), n + 1) = outcome
  <2>1. Append(curve, e)[n + 2] = e /\ Append(curve, e)[n + 1] = curve[n + 1]
    BY <1>2, <1>6
  <2>2. (n + 1) + 1 = n + 2
    BY <1>2
  <2>3. LabelOf(Append(curve, e), n + 1) = IF p > 0 THEN 1 ELSE -1
    BY <1>6, <2>1, <2>2 DEF LabelOf
  <2>4. QED
    BY <1>5, <2>3 DEF TradeOf
<1> HIDE DEF outcome
<1>8. Agrees(learned \o outcomes, openers, curve, dropped, n, summary.winners)
  BY AgreesMeans DEF IInv, n
<1>9. /\ learned \o outcomes \in Seq(Outcomes)
      /\ learned \o Append(outcomes, outcome) = Append(learned \o outcomes, outcome)
  BY <1>2, <1>4, OutcomesJoin
<1>10. /\ Agrees(Append(learned \o outcomes, TradeOf(openers', Append(curve, e), n + 1)),
                 openers', Append(curve, e), dropped, n + 1,
                 summary.winners + (IF e > curve[n + 1] THEN 1 ELSE 0))
       /\ Agrees(learned \o outcomes, openers', Append(curve, e), dropped \cup {n + 1}, n + 1,
                 summary.winners + (IF e > curve[n + 1] THEN 1 ELSE 0))
  <2>1. dropped \in SUBSET (1 .. n) /\ TradeOf(openers', Append(curve, e), n + 1) \in Outcomes
    BY <1>2, <1>4, <1>7
  <2> DEFINE h == learned \o outcomes
  <2>2. h \in Seq(Outcomes)
    BY <1>9
  <2>3. Agrees(h, openers, curve, dropped, n, summary.winners)
    BY <1>8
  <2> HIDE DEF h
  <2>4. /\ Agrees(Append(h, TradeOf(openers', Append(curve, e), n + 1)),
                  openers', Append(curve, e), dropped, n + 1,
                  summary.winners + (IF e > curve[n + 1] THEN 1 ELSE 0))
        /\ Agrees(h, openers', Append(curve, e), dropped \cup {n + 1}, n + 1,
                  summary.winners + (IF e > curve[n + 1] THEN 1 ELSE 0))
    BY <1>2, <1>5, <1>6, <2>1, <2>2, <2>3, AgreesGrows
  <2>5. QED
    BY <2>4 DEF h
<1>11. CASE Len(outcomes) < OutcomeCap
  <2>1. outcomes' = Append(outcomes, outcome) /\ dropped' = dropped
    BY <1>3, <1>11
  <2>2. outcomes' \in Seq(Outcomes) /\ Len(outcomes') <= OutcomeCap
    BY <1>2, <1>4, <1>11, <2>1, Constants
  <2>3. LearnerAgrees'
    BY <1>1, <1>6, <1>7, <1>9, <1>10, <2>1, AgreesMeansNext DEF w2
  <2>4. dropped' \subseteq 1 .. summary'.trades
    BY <1>1, <1>2, <2>1
  <2>5. QED
    BY <2>2, <2>3, <2>4
<1>12. CASE ~(Len(outcomes) < OutcomeCap)
  <2>1. outcomes' = outcomes /\ dropped' = dropped \cup {n + 1}
    BY <1>3, <1>12
  <2>2. LearnerAgrees'
    BY <1>1, <1>6, <1>10, <2>1, AgreesMeansNext DEF w2
  <2>3. dropped' \subseteq 1 .. summary'.trades
    <3>1. n + 1 \in 1 .. n + 1 /\ 1 .. n \subseteq 1 .. n + 1
      BY <1>2
    <3>2. QED
      BY <1>1, <1>2, <2>1, <3>1
  <2>4. QED
    BY <1>2, <2>1, <2>2, <2>3
<1>13. QED
  BY <1>11, <1>12

----------------------------------------------------------------------------
(* The position after a signal, and the opener of the next trade.          *)
LEMMA PositionAfter ==
    ASSUME IInv, NEW sig \in Signals, NEW bid \in Prices, NEW ask \in Prices,
           OnSignal(sig, bid, ask)
    PROVE  /\ pos' \in [open : BOOLEAN, direction : Directions, entry : Int, sl : Int, tp : Int,
                        rules : SUBSET Rules, heard : Nat]
           /\ Bracket'
           /\ openers' \in Seq(SUBSET Rules)
           /\ LET n == IF MustClose(bid, ask) THEN summary.trades + 1 ELSE summary.trades
              IN /\ \A k \in 1 .. n : openers'[k] = openers[k]
                 /\ pos'.open => Len(openers') = n + 1 /\ openers'[n + 1] = pos'.rules
                 /\ ~pos'.open => Len(openers') = n
<1> DEFINE closes == MustClose(bid, ask)
           stillOpen == pos.open /\ ~closes
           opens == ~stillOpen /\ sig.direction # "NONE" /\ ~sig.blocked
           n == IF closes THEN summary.trades + 1 ELSE summary.trades
<1>1. /\ pos' = IF opens THEN Opened(sig, bid, ask) ELSE [pos EXCEPT !.open = stillOpen]
      /\ openers' = IF opens THEN Append(openers, sig.rules) ELSE openers
  BY DEF OnSignal
<1>2. openers \in Seq(SUBSET Rules) /\ sig.rules \in SUBSET Rules /\ summary.trades \in Nat
      /\ pos.open \in BOOLEAN
  BY SignalType, SummaryType, PositionType DEF IInv, Types, PaperTypeOK
<1>3. closes => pos.open
  BY DEF MustClose
<1>4. /\ n \in Nat
      /\ ~stillOpen => Len(openers) = n
      /\ stillOpen => n = summary.trades /\ Len(openers) = n + 1 /\ openers[n + 1] = pos.rules
  BY <1>2, <1>3 DEF IInv, Opener
<1> HIDE DEF closes, n
<1>5. CASE opens
  <2>1. pos' = Opened(sig, bid, ask) /\ openers' = Append(openers, sig.rules)
        /\ sig.direction # "NONE" /\ ~stillOpen
    BY <1>1, <1>5
  <2> HIDE DEF opens, stillOpen
  <2>2. /\ pos' \in [open : BOOLEAN, direction : Directions, entry : Int, sl : Int, tp : Int,
                     rules : SUBSET Rules, heard : Nat]
        /\ pos'.open /\ pos'.rules = sig.rules
        /\ \/ /\ pos'.direction = "LONG" /\ pos'.sl < pos'.entry /\ pos'.entry = ask + Slip
           \/ /\ pos'.direction = "SHORT" /\ pos'.sl > pos'.entry /\ pos'.entry = bid - Slip
    BY <2>1, OpenedType
  <2>3. Bracket'
    BY <2>2 DEF Bracket
  <2>4. Len(openers) = n
    BY <1>4, <2>1
  <2>5. /\ openers' \in Seq(SUBSET Rules) /\ Len(openers') = n + 1
        /\ openers'[n + 1] = sig.rules /\ \A k \in 1 .. n : openers'[k] = openers[k]
    BY <1>2, <1>4, <2>1, <2>4, AppendProperties
  <2>6. QED
    BY <2>2, <2>3, <2>5 DEF n, closes
<1>6. CASE ~opens
  <2>1. pos' = [pos EXCEPT !.open = stillOpen] /\ openers' = openers
    BY <1>1, <1>6
  <2>2. stillOpen \in BOOLEAN /\ (stillOpen => pos.open)
    BY <1>2
  <2> HIDE DEF opens, stillOpen
  <2>3. /\ pos' \in [open : BOOLEAN, direction : Directions, entry : Int, sl : Int, tp : Int,
                     rules : SUBSET Rules, heard : Nat]
        /\ pos'.open = stillOpen /\ pos'.rules = pos.rules /\ pos'.direction = pos.direction
        /\ pos'.entry = pos.entry /\ pos'.sl = pos.sl
    BY <2>1, <2>2 DEF IInv, Types, PaperTypeOK
  <2>4. Bracket'
    BY <2>2, <2>3 DEF Bracket, IInv
  <2>5. QED
    BY <1>2, <1>4, <2>1, <2>3, <2>4 DEF n, closes
<1>7. QED
  BY <1>5, <1>6

LEMMA ExecuteStep ==
    ASSUME IInv, NEW bid \in Prices, NEW ask \in Prices, Execute(bid, ask)
    PROVE  IInv'
<1> DEFINE sig == Head(raw)
           n == IF MustClose(bid, ask) THEN summary.trades + 1 ELSE summary.trades
<1>1. /\ sig \in Signals /\ raw' \in Seq(Signals) /\ OnSignal(sig, bid, ask)
      /\ learned' = learned /\ learned' \in Seq(Outcomes)
  <2>1. raw \in Seq(Signals) /\ raw # <<>> /\ learned \in Seq(Outcomes) /\ raw' = Tail(raw)
        /\ OnSignal(sig, bid, ask) /\ learned' = learned
    BY DEF IInv, Types, Execute, learnVars
  <2>2. QED
    BY <2>1, HeadTailProperties
<1> HIDE DEF sig
<1>2. /\ pos' \in [open : BOOLEAN, direction : Directions, entry : Int, sl : Int, tp : Int,
                   rules : SUBSET Rules, heard : Nat]
      /\ Bracket' /\ openers' \in Seq(SUBSET Rules)
      /\ \A k \in 1 .. n : openers'[k] = openers[k]
      /\ pos'.open => Len(openers') = n + 1 /\ openers'[n + 1] = pos'.rules
      /\ ~pos'.open => Len(openers') = n
  BY <1>1, PositionAfter
<1>3. fillCount' \in Nat
  <2>1. fillCount \in Nat /\ (fillCount' = fillCount + 1 \/ fillCount' = fillCount)
    BY <1>1 DEF IInv, Types, PaperTypeOK, OnSignal
  <2>2. QED
    BY <2>1
<1>4. /\ summary' \in [trades : Nat, winners : Nat, losers : Nat, pnl : Int, equity : Int,
                       peak : Int, drawdown : Nat]
      /\ summary'.trades = n
      /\ curve' \in Seq(Int) /\ CurveEnds' /\ Extremes'
      /\ outcomes' \in Seq(Outcomes) /\ Len(outcomes') <= OutcomeCap
      /\ dropped' \subseteq 1 .. summary'.trades
      /\ LearnerAgrees'
  <2>1. CASE MustClose(bid, ask)
    <3>1. ClosePosition(Mark(bid, ask))
      BY <1>1, <2>1 DEF OnSignal
    <3>2. n = summary.trades + 1
      BY <2>1
    <3>3. \A k \in 1 .. summary.trades + 1 : openers'[k] = openers[k]
      BY <1>2, <3>2
    <3> HIDE DEF n
    <3>4. /\ outcomes' \in Seq(Outcomes) /\ Len(outcomes') <= OutcomeCap
          /\ dropped' \subseteq 1 .. summary'.trades
          /\ LearnerAgrees'
      BY <1>1, <2>1, <3>1, <3>3, CloseAgrees
    <3>5. /\ summary' \in [trades : Nat, winners : Nat, losers : Nat, pnl : Int, equity : Int,
                           peak : Int, drawdown : Nat]
          /\ summary'.trades = summary.trades + 1
          /\ curve' \in Seq(Int) /\ CurveEnds' /\ Extremes'
      BY <2>1, <3>1, CloseBooks
    <3>6. QED
      BY <3>2, <3>4, <3>5
  <2>2. CASE ~MustClose(bid, ask)
    <3>1. /\ summary' = summary /\ curve' = curve /\ outcomes' = outcomes /\ dropped' = dropped
      BY <1>1, <2>2 DEF OnSignal
    <3>2. n = summary.trades
      BY <2>2
    <3>3. \A k \in 1 .. summary.trades : openers'[k] = openers[k]
      BY <1>2, <3>2
    <3> HIDE DEF n
    <3>4. CurveEnds' /\ Extremes'
      BY <3>1 DEF IInv, CurveEnds, Extremes
    <3>5. LearnerAgrees'
      <4>1. Agrees(learned \o outcomes, openers, curve, dropped, summary.trades, summary.winners)
        BY AgreesMeans DEF IInv
      <4>2. Agrees(learned \o outcomes, openers', curve, dropped, summary.trades, summary.winners)
        BY <3>3, <4>1, AgreesKept
      <4>3. QED
        BY <1>1, <3>1, <4>2, AgreesMeansNext
    <3>6. QED
      BY <3>1, <3>2, <3>4, <3>5 DEF IInv, Types, PaperTypeOK
  <2>3. QED
    BY <2>1, <2>2
<1> HIDE DEF n
<1>5. Opener'
  BY <1>2, <1>4 DEF Opener
<1>6. Types'
  BY <1>1, <1>2, <1>3, <1>4 DEF Types, PaperTypeOK
<1>7. QED
  BY <1>2, <1>4, <1>5, <1>6 DEF IInv

LEMMA LearnStep == ASSUME IInv, Learn PROVE IInv'
<1>1. /\ learned \in Seq(Outcomes) /\ outcomes \in Seq(Outcomes) /\ Len(outcomes) <= OutcomeCap
      /\ outcomes # <<>> /\ outcomes' = Tail(outcomes) /\ learned' = Append(learned, Head(outcomes))
  BY DEF IInv, Types, PaperTypeOK, Learn
<1>2. UNCHANGED <<pos, summary, fillCount, openers, dropped, curve, raw>>
  BY DEF Learn
<1>3. /\ outcomes' \in Seq(Outcomes) /\ learned' \in Seq(Outcomes) /\ Len(outcomes') <= OutcomeCap
  BY <1>1, HeadTailProperties, AppendProperties, Constants
<1>4. learned' \o outcomes' = learned \o outcomes
  BY <1>1, OutcomesJoin
<1>5. Types'
  BY <1>2, <1>3 DEF IInv, Types, PaperTypeOK
<1>6. LearnerAgrees'
  BY <1>2, <1>4, AgreesMeans, AgreesMeansNext DEF IInv
<1>7. Opener' /\ CurveEnds' /\ Bracket' /\ Extremes'
  BY <1>2 DEF IInv, Opener, CurveEnds, Bracket, Extremes
<1>8. QED
  BY <1>5, <1>6, <1>7 DEF IInv

(* The steps that leave the trades alone.                                  *)
LEMMA SameTrades ==
    ASSUME IInv, UNCHANGED paperVars, learned' = learned, raw' \in Seq(Signals)
    PROVE  IInv'
<1>1. UNCHANGED <<pos, summary, fillCount, outcomes, openers, dropped, curve>>
  BY DEF paperVars
<1>2. Types'
  BY <1>1 DEF IInv, Types, PaperTypeOK
<1>3. LearnerAgrees'
  BY <1>1, AgreesMeans, AgreesMeansNext DEF IInv
<1>4. Opener' /\ CurveEnds' /\ Bracket' /\ Extremes'
  BY <1>1 DEF IInv, Opener, CurveEnds, Bracket, Extremes
<1>5. QED
  BY <1>2, <1>3, <1>4 DEF IInv

LEMMA EvaluateStep ==
    ASSUME IInv, NEW mask \in SUBSET Rules, NEW stop \in Stops, Evaluate(mask, stop)
    PROVE  IInv'
<1> DEFINE direction == DirectionOf(Score(weights, mask))
           sig == [rules |-> mask, direction |-> direction, blocked |-> FALSE, stop |-> stop,
                   heard |-> Len(learned)]
<1>1. /\ raw' = (IF Len(raw) < RawCap THEN Append(raw, sig) ELSE raw)
      /\ UNCHANGED paperVars /\ learned' = learned
  BY DEF Evaluate
<1>2. direction \in Directions
  BY DEF DirectionOf, Directions
<1> HIDE DEF direction
<1>3. sig \in Signals
  <2>1. Len(learned) \in Nat
    BY DEF IInv, Types
  <2>2. QED
    BY <1>2, <2>1 DEF Signals
<1> HIDE DEF sig
<1>4. raw' \in Seq(Signals)
  BY <1>1, <1>3 DEF IInv, Types
<1>5. QED
  BY <1>1, <1>4, SameTrades

LEMMA InitInv == Init => IInv
<1> SUFFICES ASSUME Init PROVE IInv
  OBVIOUS
<1>1. /\ pos = [open |-> FALSE, direction |-> "NONE", entry |-> 0, sl |-> 0, tp |-> 0,
                rules |-> {}, heard |-> 0]
      /\ summary = [trades |-> 0, winners |-> 0, losers |-> 0, pnl |-> 0,
                    equity |-> StartCapital, peak |-> 0, drawdown |-> 0]
      /\ fillCount = 0 /\ outcomes = <<>> /\ openers = <<>> /\ dropped = {}
      /\ curve = <<StartCapital>> /\ raw = <<>> /\ learned = <<>>
  BY DEF Init, PaperInit
<1>2. /\ summary.trades = 0 /\ summary.winners = 0 /\ summary.equity = StartCapital
      /\ summary.peak = 0 /\ summary.drawdown = 0 /\ ~pos.open
  BY <1>1
<1>3. StartCapital \in Nat /\ OutcomeCap \in Nat
  BY Constants
<1>4. Types
  <2>1. pos \in [open : BOOLEAN, direction : Directions, entry : Int, sl : Int, tp : Int,
                 rules : SUBSET Rules, heard : Nat]
    BY <1>1 DEF Directions
  <2>2. summary \in [trades : Nat, winners : Nat, losers : Nat, pnl : Int, equity : Int,
                     peak : Int, drawdown : Nat]
    BY <1>1, <1>3
  <2>3. /\ fillCount \in Nat /\ outcomes \in Seq(Outcomes) /\ Len(outcomes) <= OutcomeCap
        /\ openers \in Seq(SUBSET Rules) /\ dropped \subseteq 1 .. summary.trades
        /\ curve \in Seq(Int) /\ raw \in Seq(Signals) /\ learned \in Seq(Outcomes)
    BY <1>1, <1>3
  <2>4. QED
    BY <2>1, <2>2, <2>3 DEF Types, PaperTypeOK
<1>5. Opener /\ CurveEnds /\ Bracket
  BY <1>1, <1>2 DEF Opener, CurveEnds, Bracket
<1>6. Extremes
  <2>1. Len(curve) - 1 = 0
    BY <1>1
  <2>2. Falls(curve) = {}
    <3>1. Falls(curve) = FallsOver(curve, 0)
      BY <2>1 DEF Falls
    <3>2. 1 .. 0 = {}
      OBVIOUS
    <3>3. QED
      BY <3>1, <3>2 DEF FallsOver
  <2>3. QED
    BY <1>2, <2>2 DEF Extremes, IsMax
<1>7. LearnerAgrees
  <2>1. Kept(dropped, 0) = {} /\ Winners(curve, 0) = {}
    BY DEF Kept, Winners
  <2>2. learned \o outcomes = <<>>
    BY <1>1
  <2>3. QED
    BY <1>1, <1>2, <2>1, <2>2, AgreesMeans, FS_EmptySet DEF Agrees
<1>8. QED
  BY <1>4, <1>5, <1>6, <1>7 DEF IInv

LEMMA NextInv == IInv /\ [Next]_vars => IInv'
<1> SUFFICES ASSUME IInv, [Next]_vars PROVE IInv'
  OBVIOUS
<1>1. raw \in Seq(Signals)
  BY DEF IInv, Types
<1>2. CASE Learn
  BY <1>2, LearnStep
<1>3. CASE ApplyWeights
  BY <1>1, <1>3, SameTrades DEF ApplyWeights
<1>4. CASE NoSnapshot
  BY <1>1, <1>4, SameTrades DEF NoSnapshot
<1>5. ASSUME NEW mask \in SUBSET Rules, NEW stop \in Stops, Evaluate(mask, stop) PROVE IInv'
  BY <1>5, EvaluateStep
<1>6. ASSUME NEW bid \in Prices, NEW ask \in Prices, Execute(bid, ask) PROVE IInv'
  BY <1>6, ExecuteStep
<1>7. CASE UNCHANGED vars
  BY <1>1, <1>7, SameTrades DEF vars, learnVars
<1>8. QED
  BY <1>2, <1>3, <1>4, <1>5, <1>6, <1>7 DEF Next

(* The inductive invariant: where the trade in progress is recorded and    *)
(* what the closes made so far of the summary (on_signal, close_position). *)
THEOREM BooksCorrect == Spec => []IInv
<1>1. QED
  BY InitInv, NextInv, PTL DEF Spec

(* Whatever the capacities of the queues and however the two threads       *)
(* alternate, the learner gets each trade whose outcome was not lost once, *)
(* in order, with the label of its profit and the rules that opened it     *)
(* (close_position, logic_thread_fn).                                      *)
THEOREM LearnerGetsTheTrades == Spec => []LearnerAgrees
<1>1. IInv => LearnerAgrees
  BY DEF IInv
<1>2. QED
  BY <1>1, BooksCorrect, PTL

(* The library's largest element of a set is the one IsMax describes.      *)
LEMMA MaxIs ==
    ASSUME NEW S \in SUBSET Int, NEW m, IsMax(m, S)
    PROVE  Max(S) = m
<1>1. m \in S /\ \A y \in S : m >= y
  BY DEF IsMax
<1>2. Max(S) \in S /\ \A y \in S : Max(S) >= y
  BY <1>1 DEF Max
<1>3. m \in Int /\ Max(S) \in Int /\ m >= Max(S) /\ Max(S) >= m
  BY <1>1, <1>2
<1>4. QED
  BY <1>3

LEMMA DrawdownMeans == IInv => DrawdownOfCloses
<1> SUFFICES ASSUME IInv PROVE DrawdownOfCloses
  OBVIOUS
<1> DEFINE n == summary.trades
           t == Tail(curve)
           S == {0} \cup Falls(curve)
<1>1. n \in Nat /\ curve \in Seq(Int) /\ Len(curve) = n + 1
  BY SummaryType DEF IInv, Types, PaperTypeOK, CurveEnds
<1>2. t \in Seq(Int) /\ Len(t) = n /\ \A k \in 1 .. n : t[k] = curve[k + 1] /\ t[k] \in Int
  <2>1. curve # <<>>
    BY <1>1
  <2>2. t \in Seq(Int) /\ Len(t) = n
    BY <1>1, <2>1
  <2>3. \A k \in 1 .. n : t[k] = curve[k + 1]
    BY <1>1, <2>1
  <2>4. QED
    BY <2>2, <2>3
<1> HIDE DEF t, n
<1>3. DOMAIN t = 1 .. n
  BY <1>1, <1>2
<1>4. Falls(curve) = {IF i <= j THEN curve[i + 1] - curve[j + 1] ELSE 0 : i, j \in 1 .. n}
  <2>1. Len(curve) - 1 = n
    BY <1>1
  <2>2. Falls(curve) = FallsOver(curve, n)
    BY <2>1 DEF Falls
  <2>3. QED
    BY <2>2 DEF FallsOver
<1>5. \A i, j \in 1 .. n : (IF i <= j THEN t[i] - t[j] ELSE 0)
                           = (IF i <= j THEN curve[i + 1] - curve[j + 1] ELSE 0)
  BY <1>2
<1>6. {IF i <= j THEN t[i] - t[j] ELSE 0 : i, j \in DOMAIN t} = Falls(curve)
  BY <1>3, <1>4, <1>5
<1>7. S \in SUBSET Int
  <2>1. \A i, j \in 1 .. n : (IF i <= j THEN t[i] - t[j] ELSE 0) \in Int
    BY <1>2
  <2>2. {IF i <= j THEN t[i] - t[j] ELSE 0 : i, j \in 1 .. n} \subseteq Int
    BY <2>1
  <2>3. Falls(curve) \subseteq Int
    BY <1>3, <1>6, <2>2
  <2>4. QED
    BY <2>3
<1>8. IsMax(summary.drawdown, S)
  BY DEF IInv, Extremes
<1> HIDE DEF S
<1>9. Max(S) = summary.drawdown
  BY <1>7, <1>8, MaxIs
<1>10. Drawdown(t) = Max(S)
  <2>1. {0} \cup {IF i <= j THEN t[i] - t[j] ELSE 0 : i, j \in DOMAIN t} = S
    BY <1>6 DEF S
  <2>2. QED
    BY <2>1 DEF Drawdown
<1>11. QED
  BY <1>9, <1>10 DEF DrawdownOfCloses, t

(* The running update of the peak and of the deepest fall gives, after any *)
(* number of trades, the maximal drawdown of the equity after the closes   *)
(* (close_position).                                                       *)
THEOREM DrawdownIsOfCloses == Spec => []DrawdownOfCloses
<1>1. QED
  BY BooksCorrect, DrawdownMeans, PTL

LEMMA GainStep ==
    ASSUME IInv, Next
    PROVE  (summary'.trades # summary.trades
              /\ summary'.equity > summary.equity - Commission)
             => summary'.equity + Commission - summary.equity
                  >= (IF pos.direction = "LONG" THEN pos.tp - pos.entry ELSE pos.entry - pos.tp)
<1> SUFFICES ASSUME summary'.trades # summary.trades,
                    summary'.equity > summary.equity - Commission
             PROVE  summary'.equity + Commission - summary.equity
                      >= (IF pos.direction = "LONG" THEN pos.tp - pos.entry
                                                    ELSE pos.entry - pos.tp)
  OBVIOUS
<1>1. PICK bid \in Prices, ask \in Prices : Execute(bid, ask)
  BY DEF Next, Learn, ApplyWeights, NoSnapshot, Evaluate, paperVars
<1>2. OnSignal(Head(raw), bid, ask)
  BY <1>1 DEF Execute
<1>3. MustClose(bid, ask) /\ ClosePosition(Mark(bid, ask))
  BY <1>2 DEF OnSignal
<1> DEFINE p == Pnl(Mark(bid, ask))
<1>4. /\ p \in Int
      /\ p + Commission > 0 => p + Commission >= IF pos.direction = "LONG" THEN pos.tp - pos.entry
                                                 ELSE pos.entry - pos.tp
  BY <1>3, PnlOfClose DEF IInv
<1> HIDE DEF p
<1>5. summary'.equity = summary.equity + p
  BY <1>3 DEF ClosePosition, Booked, p
<1>6. /\ summary.equity \in Int /\ Commission \in Nat /\ pos.tp \in Int /\ pos.entry \in Int
  BY SummaryType, PositionType, Constants DEF IInv
<1>7. QED
  BY <1>4, <1>5, <1>6

(* Whatever the prices, the slippage and the commission: a close that      *)
(* gains anything before commission is beyond the target, on either side   *)
(* (on_signal, close_position).                                            *)
THEOREM GainsAreTargets == Spec => OnlyTargetsGain
<1>1. IInv /\ [Next]_vars
        => [(summary'.trades # summary.trades
              /\ summary'.equity > summary.equity - Commission)
             => summary'.equity + Commission - summary.equity
                  >= (IF pos.direction = "LONG" THEN pos.tp - pos.entry
                                                ELSE pos.entry - pos.tp)]_vars
  BY GainStep
<1>2. QED
  BY <1>1, BooksCorrect, PTL DEF Spec, OnlyTargetsGain

----------------------------------------------------------------------------
(* The replay is a sequence (of what, the fold of the weights keeps from   *)
(* the provers).                                                           *)
IsReplay == \E S : replay \in Seq(S)

InStepInv == IInv /\ InStep /\ IsReplay

LEMMA ReplayGrows ==
    ASSUME IsReplay, NEW x, NEW r, r = Append(replay, x)
    PROVE  /\ \E S : r \in Seq(S)
           /\ Len(replay) \in Nat /\ Len(r) = Len(replay) + 1 /\ r[Len(r)] = x
           /\ \A k \in 1 .. Len(replay) : r[k] = replay[k]
<1>1. PICK S : replay \in Seq(S)
  BY DEF IsReplay
<1> DEFINE T == S \cup {x}
<1>2. replay \in Seq(T) /\ x \in T
  BY <1>1
<1> HIDE DEF T
<1>3. /\ r \in Seq(T) /\ Len(replay) \in Nat /\ Len(r) = Len(replay) + 1
      /\ r[Len(replay) + 1] = x
      /\ \A k \in 1 .. Len(replay) : r[k] = replay[k]
  BY <1>2
<1>4. QED
  BY <1>3

LEMMA InStepLearn == ASSUME InStepInv, Learn PROVE InStep' /\ IsReplay'
<1>1. /\ learner' = Updated(learner, Head(outcomes)) /\ adapted' = TRUE
      /\ learned' = Append(learned, Head(outcomes))
      /\ replay' = Append(replay, Updated(Last(replay), Head(outcomes)))
      /\ UNCHANGED <<pos, raw, lpc>> /\ lpc = "drain"
  BY DEF Learn
<1>2. Last(replay) = learner
  BY DEF Last, InStepInv, InStep
<1>3. replay' = Append(replay, learner')
  BY <1>1, <1>2
<1>4. /\ \E S : replay' \in Seq(S)
      /\ Len(replay) \in Nat /\ Len(replay') = Len(replay) + 1 /\ replay'[Len(replay')] = learner'
      /\ \A k \in 1 .. Len(replay) : replay'[k] = replay[k]
  BY <1>3, ReplayGrows DEF InStepInv
<1>5. Len(learned') = Len(learned) + 1
  <2>1. learned \in Seq(Outcomes) /\ Head(outcomes) \in Outcomes
    BY HeadTailProperties DEF InStepInv, IInv, Types, PaperTypeOK, Learn
  <2>2. QED
    BY <1>1, <2>1
<1>6. Len(replay') = Len(learned') + 1
  BY <1>4, <1>5 DEF InStepInv, InStep
<1>7. ASSUME NEW signal, ScoredBy(signal)
      PROVE  /\ signal.heard + 1 \in 1 .. Len(replay')
             /\ signal.direction = DirectionOf(Score(replay'[signal.heard + 1].weight, signal.rules))
  <2>1. /\ signal.heard + 1 \in 1 .. Len(replay)
        /\ signal.direction = DirectionOf(Score(replay[signal.heard + 1].weight, signal.rules))
    BY <1>7 DEF ScoredBy
  <2>2. replay'[signal.heard + 1] = replay[signal.heard + 1]
    BY <1>4, <2>1
  <2>3. signal.heard + 1 \in 1 .. Len(replay')
    BY <1>4, <2>1
  <2>4. QED
    BY <2>1, <2>2, <2>3
<1>8. /\ \A k \in 1 .. Len(raw') : ScoredBy(raw[k])'
      /\ pos'.open => ScoredBy(pos)'
  <2>1. ASSUME NEW k \in 1 .. Len(raw) PROVE ScoredBy(raw[k])'
    <3>1. ScoredBy(raw[k])
      BY DEF InStepInv, InStep
    <3>2. QED
      BY <1>1, <1>7, <3>1 DEF ScoredBy
  <2>2. ASSUME pos.open PROVE ScoredBy(pos)'
    <3>1. ScoredBy(pos)
      BY <2>2 DEF InStepInv, InStep
    <3>2. QED
      BY <1>1, <1>7, <3>1 DEF ScoredBy
  <2>3. QED
    BY <1>1, <2>1, <2>2
<1>9. QED
  BY <1>1, <1>4, <1>6, <1>8 DEF InStep, IsReplay

(* Without an outcome learned, what was scored stays scored.               *)
LEMMA StillScored ==
    ASSUME NEW s, NEW t, ScoredBy(s), UNCHANGED replay,
           t.heard = s.heard, t.direction = s.direction, t.rules = s.rules
    PROVE  /\ t.heard + 1 \in 1 .. Len(replay')
           /\ t.direction = DirectionOf(Score(replay'[t.heard + 1].weight, t.rules))
BY DEF ScoredBy

LEMMA InStepEvaluate ==
    ASSUME InStepInv, NEW mask \in SUBSET Rules, NEW stop \in Stops, Evaluate(mask, stop)
    PROVE  InStep' /\ IsReplay'
<1> DEFINE sig == [rules |-> mask, direction |-> DirectionOf(Score(weights, mask)),
                   blocked |-> FALSE, stop |-> stop, heard |-> Len(learned)]
<1>1. /\ raw' = (IF Len(raw) < RawCap THEN Append(raw, sig) ELSE raw)
      /\ UNCHANGED <<replay, learner, adapted, learned, weights, pos>>
      /\ lpc = "evaluate" /\ lpc' = "drain"
  BY DEF Evaluate, paperVars
<1>2. raw \in Seq(Signals) /\ Len(learned) \in Nat
  BY DEF InStepInv, IInv, Types
<1>3. weights = replay[Len(learned) + 1].weight /\ Len(replay) = Len(learned) + 1
  BY <1>1 DEF InStepInv, InStep
<1>4. sig.heard = Len(learned) /\ sig.rules = mask
      /\ sig.direction = DirectionOf(Score(weights, mask))
  OBVIOUS
<1>5. sig \in Signals
  <2>1. DirectionOf(Score(weights, mask)) \in Directions
    BY DEF DirectionOf, Directions
  <2>2. QED
    BY <1>2, <2>1 DEF Signals
<1> HIDE DEF sig
<1>6. ScoredBy(sig)
  <2>1. Len(learned) + 1 \in 1 .. Len(replay)
    BY <1>2, <1>3
  <2>2. QED
    BY <1>3, <1>4, <2>1 DEF ScoredBy
<1>7. ASSUME NEW k \in 1 .. Len(raw') PROVE ScoredBy(raw'[k])
  <2>1. raw'[k] = sig \/ (k \in 1 .. Len(raw) /\ raw'[k] = raw[k])
    BY <1>1, <1>2, <1>5
  <2>2. QED
    BY <1>6, <2>1 DEF InStepInv, InStep
<1>8. \A k \in 1 .. Len(raw') : ScoredBy(raw[k])'
  BY <1>1, <1>7 DEF ScoredBy
<1>9. pos'.open => ScoredBy(pos)'
  BY <1>1 DEF InStepInv, InStep, ScoredBy
<1>10. QED
  BY <1>1, <1>8, <1>9 DEF InStepInv, InStep, IsReplay

LEMMA InStepExecute ==
    ASSUME InStepInv, NEW bid \in Prices, NEW ask \in Prices, Execute(bid, ask)
    PROVE  InStep' /\ IsReplay'
<1> DEFINE sig == Head(raw)
<1>1. /\ raw' = Tail(raw) /\ raw # <<>> /\ OnSignal(sig, bid, ask)
      /\ UNCHANGED <<weights, learner, adapted, lpc, learned, replay>>
  BY DEF Execute, learnVars
<1>2. raw \in Seq(Signals) /\ pos.open \in BOOLEAN
  BY PositionType DEF InStepInv, IInv, Types
<1>3. Len(raw) >= 1 /\ sig = raw[1] /\ sig \in Signals
  BY <1>1, <1>2, HeadTailProperties
<1>4. ScoredBy(sig)
  BY <1>3 DEF InStepInv, InStep
<1> HIDE DEF sig
<1>5. \A k \in 1 .. Len(raw') : ScoredBy(raw[k])'
  <2>1. \A k \in 1 .. Len(raw') : raw'[k] = raw[k + 1] /\ k + 1 \in 1 .. Len(raw)
    BY <1>1, <1>2, <1>3
  <2>2. QED
    BY <1>1, <2>1 DEF InStepInv, InStep, ScoredBy
<1>6. ASSUME pos'.open PROVE ScoredBy(pos)'
  <2> DEFINE stillOpen == pos.open /\ ~MustClose(bid, ask)
             opens == ~stillOpen /\ sig.direction # "NONE" /\ ~sig.blocked
  <2>1. pos' = IF opens THEN Opened(sig, bid, ask) ELSE [pos EXCEPT !.open = stillOpen]
    BY <1>1 DEF OnSignal
  <2>2. CASE opens
    <3>1. pos'.heard = sig.heard /\ pos'.direction = sig.direction /\ pos'.rules = sig.rules
      BY <2>1, <2>2 DEF Opened
    <3>2. QED
      BY <1>1, <1>4, <3>1, StillScored DEF ScoredBy
  <2>3. CASE ~opens
    <3>1. /\ pos'.open = stillOpen /\ pos'.heard = pos.heard
          /\ pos'.direction = pos.direction /\ pos'.rules = pos.rules
      BY <2>1, <2>3 DEF InStepInv, IInv, Types, PaperTypeOK
    <3>2. ScoredBy(pos)
      BY <1>6, <3>1 DEF InStepInv, InStep
    <3>3. QED
      BY <1>1, <3>1, <3>2, StillScored DEF ScoredBy
  <2>4. QED
    BY <2>2, <2>3
<1>7. QED
  BY <1>1, <1>5, <1>6 DEF InStepInv, InStep, IsReplay

LEMMA InStepNext == InStepInv /\ [Next]_vars => InStepInv'
<1> SUFFICES ASSUME InStepInv, [Next]_vars PROVE InStep' /\ IsReplay'
  BY NextInv DEF InStepInv
<1>1. CASE Learn
  BY <1>1, InStepLearn
<1>2. CASE ApplyWeights
  <2>1. /\ weights' = (IF adapted THEN learner.weight ELSE weights) /\ adapted' = FALSE
        /\ UNCHANGED <<pos, raw, learner, learned, replay>>
    BY <1>2 DEF ApplyWeights, paperVars
  <2>2. QED
    BY <2>1 DEF InStepInv, InStep, IsReplay, ScoredBy
<1>3. CASE NoSnapshot
  <2>1. lpc' = "drain" /\ UNCHANGED <<pos, raw, weights, adapted, learner, learned, replay>>
    BY <1>3 DEF NoSnapshot, paperVars
  <2>2. QED
    BY <2>1 DEF InStepInv, InStep, IsReplay, ScoredBy
<1>4. ASSUME NEW mask \in SUBSET Rules, NEW stop \in Stops, Evaluate(mask, stop)
      PROVE  InStep' /\ IsReplay'
  BY <1>4, InStepEvaluate
<1>5. ASSUME NEW bid \in Prices, NEW ask \in Prices, Execute(bid, ask) PROVE InStep' /\ IsReplay'
  BY <1>5, InStepExecute
<1>6. CASE UNCHANGED vars
  <2>1. UNCHANGED <<pos, raw, weights, adapted, lpc, learner, learned, replay>>
    BY <1>6 DEF vars, learnVars, paperVars
  <2>2. QED
    BY <2>1 DEF InStepInv, InStep, IsReplay, ScoredBy
<1>7. QED
  BY <1>1, <1>2, <1>3, <1>4, <1>5, <1>6 DEF Next

LEMMA InStepInit == Init => InStepInv
<1> SUFFICES ASSUME Init PROVE InStep /\ IsReplay
  BY InitInv DEF InStepInv
<1> DEFINE fresh == [weight |-> DefaultWeight, updates |-> 0]
<1>1. /\ replay = <<fresh>> /\ learner = fresh /\ learned = <<>> /\ raw = <<>>
      /\ weights = fresh.weight /\ adapted = FALSE /\ ~pos.open
  BY DEF Init, PaperInit, Initialized
<1> HIDE DEF fresh
<1>2. replay \in Seq({fresh})
  BY <1>1
<1>3. Len(replay) = Len(learned) + 1 /\ replay[Len(replay)] = fresh /\ Len(raw) = 0
  BY <1>1
<1>4. 1 .. Len(raw) = {}
  BY <1>3
<1>5. IsReplay
  BY <1>2 DEF IsReplay
<1>6. QED
  BY <1>1, <1>3, <1>4, <1>5 DEF InStep

(* Whatever weights, rates and periods, and however late outcomes come: a  *)
(* position has the direction that the outcomes heard when its signal was  *)
(* scored give its rules, so that the registry's copy of the weights and   *)
(* the learner's never part (initialize, apply_to, logic_thread_fn).       *)
THEOREM PositionsFollowTheLearner == Spec => []TradesWhatItLearned
<1>1. InStepInv => TradesWhatItLearned
  BY DEF InStepInv, InStep, ScoredBy, TradesWhatItLearned
<1>2. QED
  BY <1>1, InStepInit, InStepNext, PTL DEF Spec
============================================================================
