--------------------------- MODULE PipelineProofs ---------------------------
(***************************************************************************)
(* Proofs about Pipeline for every capacity of the queues and every number *)
(* of ticks: the type invariant, SignalsInOrder and NeverBehindSnapshot.   *)
(*                                                                         *)
(* The argument follows a tick through the threads.  Gold ticks reach the  *)
(* indicator thread without a gap, so store number k is of tick k          *)
(* (Storing): the slot a load decided on holds that store's words or those *)
(* of a later one (Loading).  The queues of signals hold increasing loads  *)
(* between the one their consumer took last and the one their producer     *)
(* made last, and no signal names a tick from before its load (Signalling).*)
(***************************************************************************)
EXTENDS Pipeline, TLAPS

(* Increasing numbers above low, up to high.                               *)
Ordered(q, low, high) ==
    \A i \in 1 .. Len(q) :
        low < q[i] /\ q[i] <= high /\ \A j \in 1 .. Len(q) : i < j => q[i] < q[j]

(* The numbers after low, up to high, none left out.                       *)
Consecutive(q, low, high) ==
    high = low + Len(q) /\ \A i \in 1 .. Len(q) : q[i] = low + i

Loads(q) == [i \in 1 .. Len(q) |-> q[i].load]

(* A signal made by now: of the tick its load decided on or a later one.   *)
Made(s, now) == s.load <= s.tick /\ s.tick <= now
AllMade(q, now) == \A i \in 1 .. Len(q) : Made(q[i], now)

(* What the queues of signals reach up to: not the one in hand.            *)
FinalTop == IF rpc \in {"paper", "push"} THEN sig.load - 1 ELSE sig.load
RawTop == IF lpc \in {"copy", "state", "push"} THEN seen - 1 ELSE seen

Feeding ==
    /\ mpc = "feed" => fed < MaxTicks
    /\ Consecutive(goldQ, latestTick, fed)
    /\ Ordered(dxyQ, latestDxy, dxyFed) /\ latestDxy <= dxyFed
    /\ dxyLast = latestDxy

Storing ==
    /\ latestTick = IF ipc = "store" THEN writeIdx + 1 ELSE writeIdx
    /\ computed.tick = latestTick /\ computed.dxy <= latestDxy
    /\ \A i \in 0 .. 1 : slots[i].tick <= latestTick /\ slots[i].dxy <= latestDxy
    /\ \A k \in 1 .. writeIdx : slots[SlotOf(k)].tick >= k
    /\ ipc = "store" /\ "tick" \notin toStore =>
          slots[SlotOf(writeIdx + 1)].tick >= writeIdx + 1

Loading ==
    /\ seen <= writeIdx
    /\ snap.tick <= latestTick /\ snap.dxy <= latestDxy
    /\ lpc = "copy" => seen >= 1 /\ ("tick" \notin toCopy => snap.tick >= seen)
    /\ lpc \in {"state", "push"} => snap.tick >= seen
    /\ lpc = "push" => market.tick >= snap.tick /\ market.dxy >= snap.dxy

Signalling ==
    /\ Ordered(Loads(rawQ), sig.load, RawTop) /\ sig.load <= RawTop
    /\ Ordered(Loads(finalQ), polled.load, FinalTop) /\ polled.load <= FinalTop
    /\ Made(sig, latestTick) /\ AllMade(rawQ, latestTick)
    /\ Made(polled, latestTick) /\ AllMade(finalQ, latestTick)

IInv == TypeOK /\ Feeding /\ Storing /\ Loading /\ Signalling

----------------------------------------------------------------------------
(* Queues.                                                                 *)
LEMMA AppendFacts ==
    ASSUME NEW S, NEW q \in Seq(S), NEW v \in S
    PROVE  /\ Append(q, v) \in Seq(S)
           /\ Len(Append(q, v)) = Len(q) + 1 /\ Len(q) \in Nat
           /\ \A i \in 1 .. Len(q) : Append(q, v)[i] = q[i]
           /\ Append(q, v)[Len(q) + 1] = v
  BY SMT

LEMMA TailFacts ==
    ASSUME NEW S, NEW q \in Seq(S), q # <<>>
    PROVE  /\ Tail(q) \in Seq(S) /\ Head(q) \in S /\ Head(q) = q[1]
           /\ Len(q) \in Nat \ {0} /\ Len(Tail(q)) = Len(q) - 1
           /\ \A i \in 1 .. Len(q) - 1 : Tail(q)[i] = q[i + 1]
  BY SMT

LEMMA ConcatFacts ==
    ASSUME NEW S, NEW s \in Seq(S), NEW t \in Seq(S)
    PROVE  /\ s \o t \in Seq(S) /\ Len(s \o t) = Len(s) + Len(t)
           /\ Len(s) \in Nat /\ Len(t) \in Nat
           /\ \A i \in 1 .. Len(s) : (s \o t)[i] = s[i]
           /\ \A i \in Len(s) + 1 .. Len(s) + Len(t) : (s \o t)[i] = t[i - Len(s)]
  BY SMT

LEMMA SameSeq ==
    ASSUME NEW S, NEW s \in Seq(S), NEW t \in Seq(S), Len(s) = Len(t),
           \A i \in 1 .. Len(s) : s[i] = t[i]
    PROVE  s = t
<1>1. Len(s) \in Nat /\ s \in [1 .. Len(s) -> S] /\ t \in [1 .. Len(s) -> S]
  BY SMT
<1>2. QED
  BY <1>1

(* try_push into an ordered queue of a larger number.                      *)
LEMMA OrderedAppend ==
    ASSUME NEW q \in Seq(Int), NEW low \in Int, NEW high \in Int, NEW v \in Int,
           Ordered(q, low, high), low <= high, high < v
    PROVE  Ordered(Append(q, v), low, v)
<1>1. /\ Len(Append(q, v)) = Len(q) + 1 /\ Len(q) \in Nat
      /\ \A i \in 1 .. Len(q) : Append(q, v)[i] = q[i] /\ q[i] \in Int
      /\ Append(q, v)[Len(q) + 1] = v
  BY AppendFacts
<1>. HIDE DEF Ordered
<1>2. \A i \in 1 .. Len(q) :
        low < q[i] /\ q[i] <= high /\ \A j \in 1 .. Len(q) : i < j => q[i] < q[j]
  BY DEF Ordered
<1>3. SUFFICES ASSUME NEW i \in 1 .. Len(q) + 1, NEW j \in 1 .. Len(q) + 1
               PROVE  /\ low < Append(q, v)[i] /\ Append(q, v)[i] <= v
                      /\ i < j => Append(q, v)[i] < Append(q, v)[j]
  BY <1>1 DEF Ordered
<1>4. CASE i = Len(q) + 1
  BY <1>1, <1>4
<1>5. CASE i \in 1 .. Len(q) /\ j = Len(q) + 1
  BY <1>1, <1>2, <1>5
<1>6. CASE i \in 1 .. Len(q) /\ j \in 1 .. Len(q)
  BY <1>1, <1>2, <1>6
<1>7. QED
  BY <1>1, <1>4, <1>5, <1>6

LEMMA OrderedWiden ==
    ASSUME NEW q \in Seq(Int), NEW low \in Int, NEW high \in Int, NEW top \in Int,
           Ordered(q, low, high), high <= top
    PROVE  Ordered(q, low, top)
  BY DEF Ordered

LEMMA OrderedOffer ==
    ASSUME NEW q \in Seq(Int), NEW low \in Int, NEW high \in Int, NEW v \in Int,
           NEW cap \in Nat, Ordered(q, low, high), low <= high, high < v
    PROVE  Ordered(Offered(q, cap, v), low, v)
  BY OrderedAppend, OrderedWiden DEF Offered

(* try_pop: the head is the next number, the rest lies above it.           *)
LEMMA OrderedPop ==
    ASSUME NEW q \in Seq(Int), NEW low \in Int, NEW high \in Int,
           Ordered(q, low, high), q # <<>>
    PROVE  /\ low < Head(q) /\ Head(q) <= high
           /\ Ordered(Tail(q), Head(q), high)
<1>1. /\ Len(q) \in Nat \ {0} /\ Len(Tail(q)) = Len(q) - 1 /\ Head(q) = q[1]
      /\ \A i \in 1 .. Len(q) - 1 : Tail(q)[i] = q[i + 1]
  BY TailFacts
<1>2. QED
  BY <1>1 DEF Ordered

LEMMA OfferedType ==
    ASSUME NEW S, NEW q \in Seq(S), NEW v \in S, NEW cap \in Nat, Len(q) <= cap
    PROVE  Offered(q, cap, v) \in Seq(S) /\ Len(Offered(q, cap, v)) <= cap
  BY AppendFacts DEF Offered

LEMMA SeqWiden ==
    ASSUME NEW S, NEW T, S \subseteq T, NEW q \in Seq(S)
    PROVE  q \in Seq(T)
<1>1. q \in [1 .. Len(q) -> S] /\ Len(q) \in Nat
  BY SMT
<1>2. q \in [1 .. Len(q) -> T]
  BY <1>1
<1>3. QED
  BY <1>1, <1>2, SMT

(* A queue of signals as the queue of their loads.                         *)
LEMMA LoadsFacts ==
    ASSUME NEW q \in Seq(Signals), MaxTicks \in Nat
    PROVE  /\ Loads(q) \in Seq(Int) /\ Len(Loads(q)) = Len(q) /\ Len(q) \in Nat
           /\ \A i \in 1 .. Len(q) : Loads(q)[i] = q[i].load
           /\ \A i \in 1 .. Len(q) : q[i] \in Signals /\ q[i].load \in Int /\ q[i].tick \in Int
<1>1. Len(q) \in Nat /\ \A i \in 1 .. Len(q) : q[i] \in Signals
  BY SMT
<1>2. \A v \in Signals : v.load \in Int /\ v.tick \in Int
  BY DEF Signals, Ticks
<1>3. Loads(q) \in [1 .. Len(q) -> Int]
  BY <1>1, <1>2 DEF Loads
<1>4. Loads(q) \in Seq(Int) /\ Len(Loads(q)) = Len(q)
  BY <1>1, <1>3, SMT
<1>5. QED
  BY <1>1, <1>2, <1>4 DEF Loads

LEMMA LoadsOffered ==
    ASSUME NEW q \in Seq(Signals), NEW v \in Signals, NEW cap \in Nat, MaxTicks \in Nat
    PROVE  Loads(Offered(q, cap, v)) = Offered(Loads(q), cap, v.load)
<1>1. /\ Append(q, v) \in Seq(Signals)
      /\ Len(Append(q, v)) = Len(q) + 1 /\ Len(q) \in Nat
      /\ \A i \in 1 .. Len(q) : Append(q, v)[i] = q[i]
      /\ Append(q, v)[Len(q) + 1] = v
  BY AppendFacts
<1>2. Loads(q) \in Seq(Int) /\ Len(Loads(q)) = Len(q)
      /\ \A i \in 1 .. Len(q) : Loads(q)[i] = q[i].load
  BY LoadsFacts
<1>3. v.load \in Int
  BY DEF Signals, Ticks
<1>4. /\ Append(Loads(q), v.load) \in Seq(Int)
      /\ Len(Append(Loads(q), v.load)) = Len(q) + 1
      /\ \A i \in 1 .. Len(q) : Append(Loads(q), v.load)[i] = Loads(q)[i]
      /\ Append(Loads(q), v.load)[Len(q) + 1] = v.load
  BY <1>2, <1>3, AppendFacts
<1>5. Loads(Append(q, v)) \in Seq(Int) /\ Len(Loads(Append(q, v))) = Len(q) + 1
      /\ \A i \in 1 .. Len(q) + 1 : Loads(Append(q, v))[i] = Append(q, v)[i].load
  BY <1>1, LoadsFacts
<1>6. ASSUME NEW i \in 1 .. Len(q) + 1
      PROVE  Loads(Append(q, v))[i] = Append(Loads(q), v.load)[i]
  <2>1. CASE i \in 1 .. Len(q)
    BY <1>1, <1>2, <1>4, <1>5, <2>1
  <2>2. CASE i = Len(q) + 1
    BY <1>1, <1>4, <1>5, <2>2
  <2>3. Len(q) \in Nat
    BY <1>1
  <2>4. i \in 1 .. Len(q) \/ i = Len(q) + 1
    BY <2>3
  <2>5. QED
    BY <2>1, <2>2, <2>4
<1>7. Loads(Append(q, v)) = Append(Loads(q), v.load)
  BY <1>4, <1>5, <1>6, SameSeq
<1>8. QED
  BY <1>2, <1>7 DEF Offered

LEMMA LoadsTail ==
    ASSUME NEW q \in Seq(Signals), q # <<>>, MaxTicks \in Nat
    PROVE  /\ Loads(q) # <<>> /\ Head(Loads(q)) = Head(q).load
           /\ Loads(Tail(q)) = Tail(Loads(q))
<1>1. /\ Tail(q) \in Seq(Signals) /\ Head(q) = q[1]
      /\ Len(q) \in Nat \ {0} /\ Len(Tail(q)) = Len(q) - 1
      /\ \A i \in 1 .. Len(q) - 1 : Tail(q)[i] = q[i + 1]
  BY TailFacts
<1>2. Loads(q) \in Seq(Int) /\ Len(Loads(q)) = Len(q)
      /\ \A i \in 1 .. Len(q) : Loads(q)[i] = q[i].load
  BY LoadsFacts
<1>3. Loads(q) # <<>>
  BY <1>1, <1>2, SMT
<1>4. /\ Tail(Loads(q)) \in Seq(Int) /\ Head(Loads(q)) = Loads(q)[1]
      /\ Len(Tail(Loads(q))) = Len(q) - 1
      /\ \A i \in 1 .. Len(q) - 1 : Tail(Loads(q))[i] = Loads(q)[i + 1]
  BY <1>2, <1>3, TailFacts
<1>5. Loads(Tail(q)) \in Seq(Int) /\ Len(Loads(Tail(q))) = Len(q) - 1
      /\ \A i \in 1 .. Len(q) - 1 : Loads(Tail(q))[i] = Tail(q)[i].load
  BY <1>1, LoadsFacts
<1>6. ASSUME NEW i \in 1 .. Len(q) - 1 PROVE Loads(Tail(q))[i] = Tail(Loads(q))[i]
  <2>1. i + 1 \in 1 .. Len(q)
    BY <1>1
  <2>2. QED
    BY <1>1, <1>2, <1>4, <1>5, <2>1
<1>7. Loads(Tail(q)) = Tail(Loads(q))
  BY <1>4, <1>5, <1>6, SameSeq
<1>8. 1 \in 1 .. Len(q)
  BY <1>1
<1>9. QED
  BY <1>1, <1>2, <1>3, <1>4, <1>7, <1>8

LEMMA MadeOffered ==
    ASSUME NEW q \in Seq(Signals), NEW v \in Signals, NEW cap \in Nat, NEW now,
           AllMade(q, now), Made(v, now)
    PROVE  AllMade(Offered(q, cap, v), now)
<1>1. /\ Len(Append(q, v)) = Len(q) + 1 /\ Len(q) \in Nat
      /\ \A i \in 1 .. Len(q) : Append(q, v)[i] = q[i]
      /\ Append(q, v)[Len(q) + 1] = v
  BY AppendFacts
<1>. HIDE DEF Made
<1>2. ASSUME NEW i \in 1 .. Len(q) + 1 PROVE Made(Append(q, v)[i], now)
  <2>1. i = Len(q) + 1 \/ i \in 1 .. Len(q)
    BY <1>1
  <2>2. QED
    BY <1>1, <2>1 DEF AllMade
<1>3. QED
  BY <1>1, <1>2 DEF AllMade, Offered

LEMMA MadePop ==
    ASSUME NEW q \in Seq(Signals), NEW now, AllMade(q, now), q # <<>>
    PROVE  Made(Head(q), now) /\ AllMade(Tail(q), now)
<1>1. /\ Head(q) = q[1] /\ Len(q) \in Nat \ {0} /\ Len(Tail(q)) = Len(q) - 1
      /\ \A i \in 1 .. Len(q) - 1 : Tail(q)[i] = q[i + 1]
  BY TailFacts
<1>. HIDE DEF Made
<1>2. 1 \in 1 .. Len(q) /\ \A i \in 1 .. Len(q) - 1 : i + 1 \in 1 .. Len(q)
  BY <1>1
<1>3. QED
  BY <1>1, <1>2 DEF AllMade

LEMMA MadeLater ==
    ASSUME NEW v \in Signals, NEW now \in Int, NEW later \in Int, now <= later,
           Made(v, now), MaxTicks \in Nat
    PROVE  Made(v, later)
  BY DEF Made, Signals, Ticks

LEMMA AllMadeLater ==
    ASSUME NEW q \in Seq(Signals), NEW now \in Int, NEW later \in Int, now <= later,
           AllMade(q, now), MaxTicks \in Nat
    PROVE  AllMade(q, later)
<1>1. \A i \in 1 .. Len(q) : q[i] \in Signals
  BY SMT
<1>. HIDE DEF Made
<1>2. QED
  BY <1>1, MadeLater DEF AllMade

(* The constants and the variables are integers.                           *)
LEMMA Numbers ==
    ASSUME TypeOK
    PROVE  /\ {MaxTicks, MaxDxy, GoldCap, SignalCap, OutcomeCap} \subseteq Nat
           /\ goldQ \in Seq(Int) /\ dxyQ \in Seq(Int)
           /\ {fed, seen, writeIdx} \subseteq Nat
           /\ {latestTick, latestDxy, dxyFed, dxyLast} \subseteq Int
           /\ {sig.tick, sig.load, polled.tick, polled.load} \subseteq Int
           /\ {snap.tick, snap.dxy, computed.tick, computed.dxy, market.tick,
               market.dxy} \subseteq Int
           /\ \A i \in 0 .. 1 : slots[i].tick \in Int /\ slots[i].dxy \in Int
<1>1. MaxTicks \in Nat /\ MaxDxy \in Nat
  BY BoundsAssumption
<1>2. {GoldCap, SignalCap, OutcomeCap} \subseteq Nat
  BY CapsAssumption
<1>3. Ticks \subseteq Nat /\ 0 .. MaxDxy \subseteq Int /\ Ticks \subseteq Int
  BY <1>1 DEF Ticks
<1>4. goldQ \in Seq(Int) /\ dxyQ \in Seq(Int)
  BY <1>3, SeqWiden DEF TypeOK
<1>5. {latestTick, latestDxy, dxyFed, dxyLast} \subseteq Int
      /\ {fed, seen, writeIdx} \subseteq Nat
  BY <1>3 DEF TypeOK
<1>6. \A s \in Snapshots : s.tick \in Int /\ s.dxy \in Int
  BY <1>3 DEF Snapshots
<1>7. \A s \in Signals : s.tick \in Int /\ s.load \in Int
  BY <1>3 DEF Signals
<1>8. {sig.tick, sig.load, polled.tick, polled.load} \subseteq Int
  BY <1>7 DEF TypeOK
<1>9. \A i \in 0 .. 1 : slots[i].tick \in Int /\ slots[i].dxy \in Int
  BY <1>6 DEF TypeOK
<1>10. QED
  BY <1>1, <1>2, <1>4, <1>5, <1>6, <1>8, <1>9 DEF TypeOK

LEMMA Tops == ASSUME TypeOK PROVE FinalTop \in Int /\ RawTop \in Int
<1>1. sig.load \in Int /\ seen \in Int
  BY Numbers
<1>2. sig.load - 1 \in Int /\ seen - 1 \in Int
  BY <1>1
<1>3. QED
  BY <1>1, <1>2 DEF FinalTop, RawTop

LEMMA SlotRange == \A k \in Nat : SlotOf(k) \in 0 .. 1
<1>1. \A n \in Int : n % 2 \in 0 .. 1
  BY SMT
<1>2. \A k \in Nat : k - 1 \in Int
  OBVIOUS
<1>3. QED
  BY <1>1, <1>2 DEF SlotOf

----------------------------------------------------------------------------
LEMMA InitIInv == Init => IInv
<1> SUFFICES ASSUME Init PROVE IInv
  OBVIOUS
<1>1. 0 \in Ticks /\ 0 \in 0 .. MaxDxy /\ MaxTicks \in Nat
  BY BoundsAssumption DEF Ticks
<1>2. Nothing \in Snapshots /\ NoSignal \in Signals
  BY <1>1 DEF Nothing, Snapshots, NoSignal, Signals
<1>3. \A S : <<>> \in Seq(S) /\ Len(<<>>) = 0
  BY SMT
<1>4. TypeOK
  <2>1. GoldCap \in Nat /\ SignalCap \in Nat /\ OutcomeCap \in Nat
    BY CapsAssumption
  <2>2. \A S : <<>> \in Seq(S)
    BY <1>3
  <2>3. 0 <= GoldCap /\ 0 <= SignalCap /\ 0 <= OutcomeCap
    BY <2>1
  <2>4. goldQ \in Seq(Ticks) /\ Len(goldQ) <= GoldCap
        /\ dxyQ \in Seq(0 .. MaxDxy) /\ Len(dxyQ) <= GoldCap
        /\ rawQ \in Seq(Signals) /\ Len(rawQ) <= SignalCap
        /\ finalQ \in Seq(Signals) /\ Len(finalQ) <= SignalCap
        /\ outcomeQ \in Seq(Nat) /\ Len(outcomeQ) <= OutcomeCap
    BY <1>3, <2>2, <2>3 DEF Init
  <2>5. slots \in [0 .. 1 -> Snapshots] /\ computed \in Snapshots
        /\ snap \in Snapshots /\ market \in Snapshots
    BY <1>2 DEF Init
  <2>6. QED
    BY <1>1, <1>2, <2>4, <2>5 DEF Init, TypeOK
<1>5. \A low, high : Ordered(<<>>, low, high)
  BY <1>3 DEF Ordered
<1>6. Loads(<<>>) = <<>> /\ \A now : AllMade(<<>>, now)
  BY <1>3, SMT DEF Loads, AllMade
<1>7. Feeding
  <2>1. Consecutive(<<>>, 0, 0)
    BY <1>3 DEF Consecutive
  <2>2. QED
    BY <1>5, <2>1 DEF Init, Feeding
<1>8. Storing /\ Loading
  <2>1. 1 .. 0 = {}
    BY SMT
  <2>2. QED
    BY <2>1 DEF Init, Storing, Loading, Nothing
<1>9. Signalling
  <2>1. NoSignal.load = 0 /\ NoSignal.tick = 0
    BY DEF NoSignal
  <2>2. FinalTop = 0 /\ RawTop = 0
    BY <2>1 DEF Init, FinalTop, RawTop
  <2>3. Made(NoSignal, 0)
    BY <2>1 DEF Made
  <2>4. QED
    BY <1>5, <1>6, <2>1, <2>2, <2>3 DEF Init, Signalling
<1>10. QED
  BY <1>4, <1>7, <1>8, <1>9 DEF IInv

----------------------------------------------------------------------------
(* A part of the invariant survives a step that leaves its variables.      *)
LEMMA FeedingKept ==
    ASSUME Feeding,
           UNCHANGED <<mpc, fed, goldQ, dxyQ, latestTick, latestDxy, dxyFed, dxyLast>>
    PROVE  Feeding'
  BY DEF Feeding, Ordered, Consecutive

LEMMA StoringKept ==
    ASSUME Storing,
           UNCHANGED <<latestTick, latestDxy, writeIdx, slots, computed, toStore>>,
           (ipc' = "store") = (ipc = "store")
    PROVE  Storing'
  BY DEF Storing, SlotOf

LEMMA LoadingKept ==
    ASSUME Loading, UNCHANGED <<seen, writeIdx, snap, toCopy, latestTick, latestDxy, market>>,
           \/ UNCHANGED lpc
           \/ lpc' \notin {"copy", "state", "push"}
    PROVE  Loading'
  BY DEF Loading

LEMMA SignallingKept ==
    ASSUME Signalling, UNCHANGED <<rawQ, sig, finalQ, polled, latestTick>>,
           FinalTop' = FinalTop, RawTop' = RawTop
    PROVE  Signalling'
  BY DEF Signalling, Ordered, Loads, Made, AllMade

(* The caller's steps.                                                     *)
LEMMA MainTickStep == ASSUME IInv, MainTick PROVE IInv'
<1> USE DEF MainTick, shared, pingPong, caller, indicator, logic, risk, queues
<1>1. TypeOK'
  BY DEF IInv, TypeOK
<1>2. Feeding'
  BY DEF IInv, Feeding, Ordered, Consecutive
<1>3. Storing' /\ Loading'
  BY StoringKept, LoadingKept DEF IInv
<1>4. Signalling'
  BY SignallingKept DEF IInv, FinalTop, RawTop
<1>5. QED
  BY <1>1, <1>2, <1>3, <1>4 DEF IInv

LEMMA FeedDxyStep == ASSUME IInv, FeedDxy PROVE IInv'
<1> USE DEF FeedDxy, shared, pingPong, caller, indicator, logic, risk, queues
<1>1. dxyFed + 1 \in 0 .. MaxDxy /\ MaxDxy \in Nat /\ GoldCap \in Nat
  BY BoundsAssumption, CapsAssumption DEF IInv, TypeOK
<1>2. dxyQ' \in Seq(0 .. MaxDxy) /\ Len(dxyQ') <= GoldCap
  BY <1>1, OfferedType DEF IInv, TypeOK
<1>3. TypeOK'
  BY <1>1, <1>2 DEF IInv, TypeOK
<1>4. Ordered(dxyQ', latestDxy, dxyFed + 1) /\ latestDxy <= dxyFed + 1
  <2>1. dxyQ \in Seq(Int) /\ latestDxy \in Int /\ dxyFed \in Int /\ dxyFed + 1 \in Int
    BY Numbers DEF IInv
  <2>2. Ordered(dxyQ, latestDxy, dxyFed) /\ latestDxy <= dxyFed /\ dxyFed < dxyFed + 1
    BY <2>1 DEF IInv, Feeding
  <2>3. QED
    BY <1>1, <2>1, <2>2, OrderedOffer
<1>5. Feeding'
  BY <1>4 DEF IInv, Feeding, Ordered, Consecutive
<1>6. Storing' /\ Loading'
  BY StoringKept, LoadingKept DEF IInv
<1>7. Signalling'
  BY SignallingKept DEF IInv, FinalTop, RawTop
<1>8. QED
  BY <1>3, <1>5, <1>6, <1>7 DEF IInv

LEMMA FeedGoldStep == ASSUME IInv, FeedGold PROVE IInv'
<1> USE DEF FeedGold, shared, pingPong, caller, indicator, logic, risk, queues
<1>1. fed + 1 \in Ticks /\ GoldCap \in Nat
  <2>1. MaxTicks \in Nat /\ fed \in 0 .. MaxTicks /\ fed < MaxTicks
    BY BoundsAssumption DEF IInv, TypeOK, Ticks, Feeding
  <2>2. QED
    BY <2>1, CapsAssumption DEF Ticks
<1>2. goldQ' \in Seq(Ticks) /\ Len(goldQ') <= GoldCap
  <2>1. goldQ \in Seq(Ticks)
    BY DEF IInv, TypeOK
  <2>2. QED
    BY <1>1, <2>1, AppendFacts
<1>3. TypeOK'
  BY <1>1, <1>2 DEF IInv, TypeOK
<1>4. Consecutive(goldQ', latestTick, fed + 1)
  <2>1. goldQ \in Seq(Int) /\ latestTick \in Int /\ fed \in Int /\ fed + 1 \in Int
    BY Numbers DEF IInv
  <2>2. /\ Len(Append(goldQ, fed + 1)) = Len(goldQ) + 1 /\ Len(goldQ) \in Nat
        /\ \A i \in 1 .. Len(goldQ) : Append(goldQ, fed + 1)[i] = goldQ[i]
        /\ Append(goldQ, fed + 1)[Len(goldQ) + 1] = fed + 1
    BY <2>1, AppendFacts
  <2>3. fed = latestTick + Len(goldQ)
        /\ \A i \in 1 .. Len(goldQ) : goldQ[i] = latestTick + i
    BY DEF IInv, Feeding, Consecutive
  <2>4. QED
    BY <2>1, <2>2, <2>3 DEF Consecutive
<1>5. Feeding'
  BY <1>4 DEF IInv, Feeding, Ordered, Consecutive
<1>6. Storing' /\ Loading'
  BY StoringKept, LoadingKept DEF IInv
<1>7. Signalling'
  BY SignallingKept DEF IInv, FinalTop, RawTop
<1>8. QED
  BY <1>3, <1>5, <1>6, <1>7 DEF IInv

LEMMA PollSignalStep == ASSUME IInv, PollSignal PROVE IInv'
<1> USE DEF PollSignal, shared, pingPong, caller, indicator, logic, risk, queues
<1>1. Feeding'
  BY DEF IInv, Feeding, Ordered, Consecutive
<1>2. Storing' /\ Loading'
  BY StoringKept, LoadingKept DEF IInv
<1>3. CASE finalQ = <<>>
  <2>1. TypeOK'
    BY <1>3 DEF IInv, TypeOK
  <2>2. Signalling'
    BY <1>3, SignallingKept DEF IInv, FinalTop, RawTop
  <2>3. QED
    BY <1>1, <1>2, <2>1, <2>2 DEF IInv
<1>4. CASE finalQ # <<>>
  <2>1. finalQ \in Seq(Signals) /\ MaxTicks \in Nat /\ SignalCap \in Nat
    BY BoundsAssumption, CapsAssumption DEF IInv, TypeOK
  <2>2. Head(finalQ) \in Signals /\ Tail(finalQ) \in Seq(Signals)
        /\ Len(Tail(finalQ)) = Len(finalQ) - 1 /\ Len(finalQ) \in Nat
    BY <1>4, <2>1, TailFacts
  <2>3. Len(Tail(finalQ)) <= SignalCap
    BY <2>1, <2>2 DEF IInv, TypeOK
  <2>4. TypeOK'
    BY <1>4, <2>2, <2>3 DEF IInv, TypeOK
  <2>5. Loads(finalQ) \in Seq(Int) /\ polled.load \in Int /\ FinalTop \in Int
    BY <2>1, LoadsFacts, Numbers, Tops DEF IInv
  <2>6. Loads(finalQ) # <<>> /\ Head(Loads(finalQ)) = Head(finalQ).load
        /\ Loads(Tail(finalQ)) = Tail(Loads(finalQ))
    BY <1>4, <2>1, LoadsTail
  <2>7. Ordered(Tail(Loads(finalQ)), Head(Loads(finalQ)), FinalTop)
        /\ Head(Loads(finalQ)) <= FinalTop
    BY <2>5, <2>6, OrderedPop DEF IInv, Signalling
  <2>8. Made(Head(finalQ), latestTick) /\ AllMade(Tail(finalQ), latestTick)
    BY <1>4, <2>1, MadePop DEF IInv, Signalling
  <2>9. FinalTop' = FinalTop /\ RawTop' = RawTop
    BY DEF FinalTop, RawTop
  <2>10. Signalling'
    <3>1. Loads(finalQ)' = Loads(finalQ') /\ Loads(rawQ)' = Loads(rawQ)
      BY DEF Loads
    <3>2. QED
      BY <1>4, <2>6, <2>7, <2>8, <2>9, <3>1 DEF IInv, Signalling, Ordered, Made, AllMade
  <2>11. QED
    BY <1>1, <1>2, <2>4, <2>10 DEF IInv
<1>5. QED
  BY <1>3, <1>4

LEMMA StopStep == ASSUME IInv, Stop \/ Joined PROVE IInv'
<1> USE DEF Stop, Joined, shared, pingPong, caller, indicator, logic, risk, queues
<1>1. TypeOK'
  BY DEF IInv, TypeOK
<1>2. Feeding'
  BY DEF IInv, Feeding, Ordered, Consecutive
<1>3. Storing' /\ Loading'
  BY StoringKept, LoadingKept DEF IInv
<1>4. Signalling'
  BY SignallingKept DEF IInv, FinalTop, RawTop
<1>5. QED
  BY <1>1, <1>2, <1>3, <1>4 DEF IInv

----------------------------------------------------------------------------
(* The indicator thread's steps.                                           *)
LEMMA IndicatorDxyStep == ASSUME IInv, IndicatorDxy PROVE IInv'
<1> USE DEF IndicatorDxy, shared, pingPong, caller, indicator, logic, risk, queues
<1>1. Signalling'
  BY SignallingKept DEF IInv, FinalTop, RawTop
<1>2. CASE UNCHANGED <<dxyQ, dxyLast, latestDxy>>
  <2>1. TypeOK'
    BY <1>2 DEF IInv, TypeOK
  <2>2. Feeding' /\ Storing' /\ Loading'
    BY <1>2, FeedingKept, StoringKept, LoadingKept DEF IInv
  <2>3. QED
    BY <1>1, <2>1, <2>2 DEF IInv
<1>3. CASE running /\ dxyQ # <<>>
  <2>1. Head(dxyQ) \in 0 .. MaxDxy /\ Tail(dxyQ) \in Seq(0 .. MaxDxy)
        /\ Len(Tail(dxyQ)) = Len(dxyQ) - 1 /\ Len(dxyQ) \in Nat
    BY <1>3, TailFacts DEF IInv, TypeOK
  <2>2. GoldCap \in Nat
    BY CapsAssumption
  <2>3. Len(Tail(dxyQ)) <= GoldCap
    BY <2>1, <2>2 DEF IInv, TypeOK
  <2>4. TypeOK'
    BY <1>3, <2>1, <2>3 DEF IInv, TypeOK
  <2>5. dxyQ \in Seq(Int) /\ latestDxy \in Int /\ dxyFed \in Int
    BY Numbers DEF IInv
  <2>6. Ordered(Tail(dxyQ), Head(dxyQ), dxyFed) /\ Head(dxyQ) <= dxyFed
        /\ latestDxy < Head(dxyQ)
    BY <1>3, <2>5, OrderedPop DEF IInv, Feeding
  <2>7. Feeding'
    BY <1>3, <2>6 DEF IInv, Feeding, Ordered, Consecutive
  <2>8. Storing'
    <3>1. {computed.dxy, latestDxy, Head(dxyQ)} \subseteq Int
          /\ \A i \in 0 .. 1 : slots[i].dxy \in Int
      BY Numbers, <2>1 DEF IInv
    <3>2. computed.dxy <= Head(dxyQ) /\ \A i \in 0 .. 1 : slots[i].dxy <= Head(dxyQ)
      BY <2>6, <3>1 DEF IInv, Storing
    <3>3. QED
      BY <1>3, <3>2 DEF IInv, Storing, SlotOf
  <2>9. Loading'
    <3>1. {snap.dxy, latestDxy, Head(dxyQ)} \subseteq Int
      BY Numbers, <2>1 DEF IInv
    <3>2. snap.dxy <= Head(dxyQ)
      BY <2>6, <3>1 DEF IInv, Loading
    <3>3. QED
      BY <1>3, <3>2 DEF IInv, Loading
  <2>10. QED
    BY <1>1, <2>4, <2>7, <2>8, <2>9 DEF IInv
<1>4. QED
  BY <1>2, <1>3

LEMMA IndicatorGoldStep == ASSUME IInv, IndicatorGold PROVE IInv'
<1> USE DEF IndicatorGold, shared, pingPong, caller, indicator, logic, risk, queues
<1>1. CASE goldQ = <<>>
  <2>1. TypeOK'
    BY <1>1 DEF IInv, TypeOK
  <2>2. Feeding' /\ Storing' /\ Loading'
    BY <1>1, FeedingKept, StoringKept, LoadingKept DEF IInv
  <2>3. Signalling'
    BY <1>1, SignallingKept DEF IInv, FinalTop, RawTop
  <2>4. QED
    BY <2>1, <2>2, <2>3 DEF IInv
<1>2. CASE goldQ # <<>>
  <2>1. Head(goldQ) \in Ticks /\ Tail(goldQ) \in Seq(Ticks) /\ Head(goldQ) = goldQ[1]
        /\ Len(Tail(goldQ)) = Len(goldQ) - 1 /\ Len(goldQ) \in Nat \ {0}
        /\ \A i \in 1 .. Len(goldQ) - 1 : Tail(goldQ)[i] = goldQ[i + 1]
    BY <1>2, TailFacts DEF IInv, TypeOK
  <2>2. GoldCap \in Nat
    BY CapsAssumption
  <2>3. Len(Tail(goldQ)) <= GoldCap
    BY <2>1, <2>2 DEF IInv, TypeOK
  <2>4. computed' \in Snapshots /\ computed'.tick = Head(goldQ) /\ computed'.dxy = dxyLast
    BY <1>2, <2>1 DEF IInv, TypeOK, Snapshots
  <2>5. TypeOK'
    <3>1. toStore' \subseteq Words
      BY <1>2
    <3>2. QED
      BY <1>2, <2>1, <2>3, <2>4, <3>1 DEF IInv, TypeOK
  <2>6. latestTick \in Int /\ fed \in Int /\ writeIdx \in Int /\ latestDxy \in Int
    BY Numbers DEF IInv
  <2>7. Head(goldQ) = latestTick + 1 /\ latestTick' = latestTick + 1
        /\ Consecutive(Tail(goldQ), latestTick + 1, fed)
    <3>1. fed = latestTick + Len(goldQ)
          /\ \A i \in 1 .. Len(goldQ) : goldQ[i] = latestTick + i
      BY DEF IInv, Feeding, Consecutive
    <3>2. Head(goldQ) = latestTick + 1
      BY <2>1, <3>1
    <3>3. \A i \in 1 .. Len(goldQ) - 1 : goldQ[i + 1] = latestTick + 1 + i
      BY <2>1, <2>6, <3>1
    <3>4. QED
      BY <1>2, <2>1, <2>6, <3>1, <3>2, <3>3 DEF Consecutive
  <2>8. Feeding'
    BY <1>2, <2>7 DEF IInv, Feeding, Ordered, Consecutive
  <2>9. Storing'
    <3>1. latestTick = writeIdx
      BY DEF IInv, Storing
    <3>2. \A i \in 0 .. 1 : slots[i].tick \in Int
      BY Numbers DEF IInv
    <3>3. \A i \in 0 .. 1 : slots[i].tick <= latestTick + 1
      BY <2>6, <3>2 DEF IInv, Storing
    <3>4. dxyLast <= latestDxy
      BY <2>6 DEF IInv, Feeding
    <3>5. "tick" \in toStore'
      BY <1>2 DEF Words, Nothing
    <3>6. QED
      BY <1>2, <2>4, <2>7, <3>1, <3>3, <3>4, <3>5 DEF IInv, Storing, SlotOf
  <2>10. Loading'
    <3>1. snap.tick \in Int
      BY Numbers DEF IInv
    <3>2. snap.tick <= latestTick + 1
      BY <2>6, <3>1 DEF IInv, Loading
    <3>3. QED
      BY <1>2, <2>7, <3>2 DEF IInv, Loading
  <2>11. Signalling'
    <3>1. latestTick + 1 \in Int /\ latestTick <= latestTick + 1 /\ MaxTicks \in Nat
      BY <2>6, BoundsAssumption
    <3>2. Made(sig, latestTick + 1) /\ Made(polled, latestTick + 1)
      BY <2>6, <3>1, MadeLater DEF IInv, Signalling, TypeOK
    <3>3. AllMade(rawQ, latestTick + 1) /\ AllMade(finalQ, latestTick + 1)
      BY <2>6, <3>1, AllMadeLater DEF IInv, Signalling, TypeOK
    <3>4. FinalTop' = FinalTop /\ RawTop' = RawTop
      BY DEF FinalTop, RawTop
    <3>5. QED
      BY <2>7, <3>2, <3>3, <3>4 DEF IInv, Signalling, Ordered, Loads, Made, AllMade
  <2>12. QED
    BY <2>5, <2>8, <2>9, <2>10, <2>11 DEF IInv
<1>3. QED
  BY <1>1, <1>2

(* The slot being stored gets a newer word than it and both slots had.     *)
LEMMA IndicatorStoreWordStep ==
    ASSUME IInv, NEW w \in Words, IndicatorStoreWord(w)
    PROVE  IInv'
<1> USE DEF IndicatorStoreWord, shared, pingPong, caller, indicator, logic, risk, queues
<1> DEFINE c == SlotOf(writeIdx + 1)
<1>1. w \in {"tick", "dxy"}
  BY DEF Words, Nothing
<1>2. writeIdx \in Nat /\ c \in 0 .. 1
  <2>1. writeIdx \in Nat
    BY Numbers DEF IInv
  <2>2. QED
    BY <2>1, SlotRange
<1>3. computed \in Snapshots /\ slots \in [0 .. 1 -> Snapshots]
  BY DEF IInv, TypeOK
<1>4. \A s \in Snapshots : [s EXCEPT ![w] = computed[w]] \in Snapshots
  BY <1>1, <1>3 DEF Snapshots
<1>5. slots' = [slots EXCEPT ![c] = [slots[c] EXCEPT ![w] = computed[w]]]
  OBVIOUS
<1> HIDE DEF c
<1>6. slots' \in [0 .. 1 -> Snapshots]
  <2>1. slots[c] \in Snapshots
    BY <1>2, <1>3
  <2>2. [slots[c] EXCEPT ![w] = computed[w]] \in Snapshots
    BY <1>4, <2>1
  <2>3. \A x \in Snapshots : [slots EXCEPT ![c] = x] \in [0 .. 1 -> Snapshots]
    BY <1>3
  <2>4. QED
    BY <1>5, <2>2, <2>3
<1>7. TypeOK'
  BY <1>6 DEF IInv, TypeOK
<1>8. Feeding' /\ Loading'
  BY FeedingKept, LoadingKept DEF IInv
<1>9. Signalling'
  BY SignallingKept DEF IInv, FinalTop, RawTop
<1>10. latestTick = writeIdx + 1 /\ computed.tick = latestTick /\ computed.dxy <= latestDxy
  BY DEF IInv, Storing
<1>11. /\ \A i \in 0 .. 1 : i # c => slots'[i] = slots[i]
       /\ slots'[c] = [slots[c] EXCEPT ![w] = computed[w]] /\ slots[c] \in Snapshots
  BY <1>2, <1>3, <1>5
<1>12. /\ slots'[c].tick = IF w = "tick" THEN computed.tick ELSE slots[c].tick
       /\ slots'[c].dxy = IF w = "dxy" THEN computed.dxy ELSE slots[c].dxy
  BY <1>1, <1>11 DEF Snapshots
<1>13. \A i \in 0 .. 1 : slots[i].tick \in Int
  BY Numbers DEF IInv
<1>14. \A i \in 0 .. 1 : slots'[i].tick <= latestTick /\ slots'[i].dxy <= latestDxy
  <2>1. latestTick \in Int /\ latestTick <= latestTick
    BY Numbers DEF IInv
  <2>2. \A i \in 0 .. 1 : slots[i].tick <= latestTick /\ slots[i].dxy <= latestDxy
    BY DEF IInv, Storing
  <2>3. QED
    BY <1>2, <1>10, <1>11, <1>12, <2>1, <2>2
<1>15. \A i \in 0 .. 1 : slots'[i].tick >= slots[i].tick
  <2>1. slots[c].tick <= computed.tick
    BY <1>2, <1>10 DEF IInv, Storing
  <2>2. computed.tick \in Int
    BY Numbers DEF IInv
  <2>3. slots'[c].tick >= slots[c].tick
    BY <1>2, <1>12, <1>13, <2>1, <2>2
  <2>4. \A i \in 0 .. 1 : slots[i].tick >= slots[i].tick
    BY <1>13
  <2>5. QED
    BY <1>11, <2>3, <2>4
<1>16. \A k \in 1 .. writeIdx : slots'[SlotOf(k)].tick >= k
  <2>1. SUFFICES ASSUME NEW k \in 1 .. writeIdx PROVE slots'[SlotOf(k)].tick >= k
    OBVIOUS
  <2>2. SlotOf(k) \in 0 .. 1 /\ k \in Nat
    BY <1>2, SlotRange
  <2>3. slots[SlotOf(k)].tick >= k
    BY DEF IInv, Storing
  <2>4. slots'[SlotOf(k)].tick \in Int
    BY <1>6, <2>2, BoundsAssumption DEF Snapshots, Ticks
  <2>5. QED
    BY <1>13, <1>15, <2>2, <2>3, <2>4
<1>17. "tick" \notin toStore' => slots'[c].tick >= writeIdx + 1
  <2>1. CASE w = "tick"
    <3>1. writeIdx + 1 >= writeIdx + 1
      BY <1>2
    <3>2. QED
      BY <1>10, <1>12, <2>1, <3>1
  <2>2. CASE w # "tick"
    <3>1. "tick" \notin toStore' => "tick" \notin toStore
      BY <2>2
    <3>2. "tick" \notin toStore => slots[c].tick >= writeIdx + 1
      BY DEF IInv, Storing, c
    <3>3. QED
      BY <1>12, <2>2, <3>1, <3>2
  <2>3. QED
    BY <2>1, <2>2
<1>18. Storing'
  <2>1. SlotOf(writeIdx + 1)' = c /\ \A k \in 1 .. writeIdx : SlotOf(k)' = SlotOf(k)
    BY DEF SlotOf, c
  <2>2. QED
    BY <1>10, <1>14, <1>16, <1>17, <2>1 DEF Storing, SlotOf, c
<1>19. QED
  BY <1>7, <1>8, <1>9, <1>18 DEF IInv

LEMMA IndicatorRaiseStep == ASSUME IInv, IndicatorRaise PROVE IInv'
<1> USE DEF IndicatorRaise, shared, pingPong, caller, indicator, logic, risk, queues
<1>1. writeIdx \in Nat /\ seen \in Nat /\ latestTick = writeIdx + 1
  BY Numbers DEF IInv, Storing
<1>2. TypeOK'
  BY <1>1 DEF IInv, TypeOK
<1>3. Feeding'
  BY FeedingKept DEF IInv
<1>4. Storing'
  <2>1. \A k \in 1 .. writeIdx + 1 : slots[SlotOf(k)].tick >= k
    <3>1. SUFFICES ASSUME NEW k \in 1 .. writeIdx + 1 PROVE slots[SlotOf(k)].tick >= k
      OBVIOUS
    <3>2. k = writeIdx + 1 \/ k \in 1 .. writeIdx
      BY <1>1
    <3>3. slots[SlotOf(writeIdx + 1)].tick >= writeIdx + 1
      BY DEF IInv, Storing
    <3>4. QED
      BY <3>2, <3>3 DEF IInv, Storing
  <2>2. QED
    BY <1>1, <2>1 DEF IInv, Storing, SlotOf
<1>5. Loading'
  <2>1. seen <= writeIdx + 1
    BY <1>1 DEF IInv, Loading
  <2>2. QED
    BY <2>1 DEF IInv, Loading
<1>6. Signalling'
  BY SignallingKept DEF IInv, FinalTop, RawTop
<1>7. QED
  BY <1>2, <1>3, <1>4, <1>5, <1>6 DEF IInv

----------------------------------------------------------------------------
(* The logic thread's steps.                                               *)
LEMMA LogicOutcomesStep == ASSUME IInv, LogicOutcomes PROVE IInv'
<1> USE DEF LogicOutcomes, shared, pingPong, caller, indicator, logic, risk, queues
<1>1. Len(outcomeQ) \in Nat /\ learned + Len(outcomeQ) \in Nat /\ OutcomeCap \in Nat
      /\ <<>> \in Seq(Nat) /\ Len(<<>>) = 0
  BY CapsAssumption DEF IInv, TypeOK
<1>2. TypeOK'
  <2>1. CASE ~running
    BY <2>1 DEF IInv, TypeOK
  <2>2. CASE running
    BY <1>1, <2>2 DEF IInv, TypeOK
  <2>3. QED
    BY <2>1, <2>2
<1>3. Feeding' /\ Storing' /\ Loading'
  BY FeedingKept, StoringKept, LoadingKept DEF IInv
<1>4. Signalling'
  BY SignallingKept DEF IInv, FinalTop, RawTop
<1>5. QED
  BY <1>2, <1>3, <1>4 DEF IInv

LEMMA LogicLoadStep == ASSUME IInv, LogicLoad PROVE IInv'
<1> USE DEF LogicLoad, shared, pingPong, caller, indicator, logic, risk, queues
<1>1. Feeding' /\ Storing'
  BY FeedingKept, StoringKept DEF IInv
<1>2. CASE writeIdx = seen
  <2>1. TypeOK'
    BY <1>2 DEF IInv, TypeOK
  <2>2. Loading'
    BY <1>2, LoadingKept DEF IInv
  <2>3. Signalling'
    BY <1>2, SignallingKept DEF IInv, FinalTop, RawTop
  <2>4. QED
    BY <1>1, <2>1, <2>2, <2>3 DEF IInv
<1>3. CASE writeIdx # seen
  <2>1. writeIdx \in Nat /\ seen \in Nat /\ seen < writeIdx
    <3>1. writeIdx \in Nat /\ seen \in Nat
      BY Numbers DEF IInv
    <3>2. QED
      BY <1>3, <3>1 DEF IInv, Loading
  <2>2. TypeOK'
    BY <1>3 DEF IInv, TypeOK
  <2>3. "tick" \in toCopy'
    BY <1>3 DEF Words, Nothing
  <2>4. Loading'
    BY <1>3, <2>1, <2>3 DEF IInv, Loading
  <2>5. RawTop = seen /\ RawTop' = writeIdx - 1 /\ seen <= writeIdx - 1
        /\ FinalTop' = FinalTop
    BY <1>3, <2>1 DEF RawTop, FinalTop
  <2>6. Loads(rawQ) \in Seq(Int) /\ sig.load \in Int /\ writeIdx - 1 \in Int
    BY <2>1, LoadsFacts, BoundsAssumption, Numbers DEF IInv, TypeOK
  <2>7. Ordered(Loads(rawQ), sig.load, writeIdx - 1) /\ sig.load <= writeIdx - 1
    BY <2>1, <2>5, <2>6, OrderedWiden DEF IInv, Signalling
  <2>8. Signalling'
    BY <2>5, <2>7 DEF IInv, Signalling, Ordered, Loads, Made, AllMade
  <2>9. QED
    BY <1>1, <2>2, <2>4, <2>8 DEF IInv
<1>4. QED
  BY <1>2, <1>3

(* The slot may be lapped; it then holds words of a later store.           *)
LEMMA LogicCopyWordStep == ASSUME IInv, NEW w \in Words, LogicCopyWord(w) PROVE IInv'
<1> USE DEF LogicCopyWord, shared, pingPong, caller, indicator, logic, risk, queues
<1>1. w \in {"tick", "dxy"}
  BY DEF Words, Nothing
<1>2. seen \in Nat /\ seen >= 1 /\ seen <= writeIdx /\ writeIdx \in Nat
  BY Numbers DEF IInv, Loading
<1> DEFINE src == slots[SlotOf(seen)]
<1>3. SlotOf(seen) \in 0 .. 1
  BY <1>2, SlotRange
<1>4. src \in Snapshots /\ snap \in Snapshots
  BY <1>3 DEF IInv, TypeOK
<1>5. snap' = [snap EXCEPT ![w] = src[w]]
  OBVIOUS
<1>6. src.tick >= seen /\ src.tick <= latestTick /\ src.dxy <= latestDxy
  <2>1. seen \in 1 .. writeIdx
    BY <1>2
  <2>2. QED
    BY <1>3, <2>1 DEF IInv, Storing
<1> HIDE DEF src
<1>7. snap' \in Snapshots
  BY <1>1, <1>4, <1>5 DEF Snapshots
<1>8. /\ snap'.tick = IF w = "tick" THEN src.tick ELSE snap.tick
      /\ snap'.dxy = IF w = "dxy" THEN src.dxy ELSE snap.dxy
  BY <1>1, <1>4, <1>5 DEF Snapshots
<1>9. TypeOK'
  BY <1>7 DEF IInv, TypeOK
<1>10. Feeding' /\ Storing'
  BY FeedingKept, StoringKept DEF IInv
<1>11. "tick" \notin toCopy' => snap'.tick >= seen
  <2>1. CASE w = "tick"
    BY <1>6, <1>8, <2>1
  <2>2. CASE w # "tick"
    <3>1. "tick" \notin toCopy' => "tick" \notin toCopy
      BY <2>2
    <3>2. "tick" \notin toCopy => snap.tick >= seen
      BY DEF IInv, Loading
    <3>3. QED
      BY <1>8, <2>2, <3>1, <3>2
  <2>3. QED
    BY <2>1, <2>2
<1>12. Loading'
  <2>1. lpc' = "state" => "tick" \notin toCopy'
    OBVIOUS
  <2>2. snap'.tick <= latestTick /\ snap'.dxy <= latestDxy
    BY <1>6, <1>8 DEF IInv, Loading
  <2>3. QED
    BY <1>2, <1>11, <2>1, <2>2 DEF Loading
<1>13. Signalling'
  BY SignallingKept DEF IInv, FinalTop, RawTop
<1>14. QED
  BY <1>9, <1>10, <1>12, <1>13 DEF IInv

LEMMA LogicStateStep == ASSUME IInv, LogicState PROVE IInv'
<1> USE DEF LogicState, shared, pingPong, caller, indicator, logic, risk, queues
<1>1. market' \in Snapshots /\ market'.tick = latestTick /\ market'.dxy = latestDxy
  BY DEF IInv, TypeOK, Snapshots
<1>2. TypeOK'
  BY <1>1 DEF IInv, TypeOK
<1>3. Feeding' /\ Storing'
  BY FeedingKept, StoringKept DEF IInv
<1>4. Loading'
  <2>1. {snap.tick, snap.dxy, latestTick, latestDxy} \subseteq Int
    BY Numbers DEF IInv
  <2>2. latestTick >= snap.tick /\ latestDxy >= snap.dxy
    BY <2>1 DEF IInv, Loading
  <2>3. QED
    BY <1>1, <2>2 DEF IInv, Loading
<1>5. Signalling'
  BY SignallingKept DEF IInv, FinalTop, RawTop
<1>6. QED
  BY <1>2, <1>3, <1>4, <1>5 DEF IInv

LEMMA LogicPushStep == ASSUME IInv, LogicPush PROVE IInv'
<1> USE DEF LogicPush, shared, pingPong, caller, indicator, logic, risk, queues
<1> DEFINE v == [tick |-> snap.tick, load |-> seen]
<1>1. v \in Signals /\ v.load = seen /\ v.tick = snap.tick
  BY DEF IInv, TypeOK, Snapshots, Signals
<1>2. rawQ' = Offered(rawQ, SignalCap, v)
  OBVIOUS
<1> HIDE DEF v
<1>3. SignalCap \in Nat /\ MaxTicks \in Nat /\ rawQ \in Seq(Signals)
  BY CapsAssumption, BoundsAssumption DEF IInv, TypeOK
<1>4. rawQ' \in Seq(Signals) /\ Len(rawQ') <= SignalCap
  BY <1>1, <1>2, <1>3, OfferedType DEF IInv, TypeOK
<1>5. TypeOK'
  BY <1>4 DEF IInv, TypeOK
<1>6. Feeding' /\ Storing' /\ Loading'
  BY FeedingKept, StoringKept, LoadingKept DEF IInv
<1>7. {seen, seen - 1, sig.load} \subseteq Int /\ Loads(rawQ) \in Seq(Int)
  <2>1. seen \in Int /\ sig.load \in Int
    BY Numbers DEF IInv
  <2>2. QED
    BY <1>3, <2>1, LoadsFacts
<1>8. RawTop = seen - 1 /\ RawTop' = seen /\ FinalTop' = FinalTop
  BY DEF RawTop, FinalTop
<1>9. Loads(Offered(rawQ, SignalCap, v)) = Offered(Loads(rawQ), SignalCap, seen)
  BY <1>1, <1>3, LoadsOffered
<1>10. Ordered(Offered(Loads(rawQ), SignalCap, seen), sig.load, seen) /\ sig.load <= seen
  <2>1. Ordered(Loads(rawQ), sig.load, seen - 1) /\ sig.load <= seen - 1 /\ seen - 1 < seen
    BY <1>7, <1>8 DEF IInv, Signalling
  <2>2. sig.load <= seen
    BY <1>7, <2>1
  <2>3. QED
    BY <1>3, <1>7, <2>1, <2>2, OrderedOffer
<1>11. AllMade(Offered(rawQ, SignalCap, v), latestTick)
  <2>1. Made(v, latestTick)
    BY <1>1 DEF IInv, Loading, Made
  <2>2. QED
    BY <1>1, <1>3, <2>1, MadeOffered DEF IInv, Signalling
<1>12. Signalling'
  <2>1. Loads(rawQ)' = Loads(rawQ') /\ Loads(finalQ)' = Loads(finalQ)
    BY DEF Loads
  <2>2. QED
    BY <1>2, <1>8, <1>9, <1>10, <1>11, <2>1 DEF IInv, Signalling, Ordered, Made, AllMade
<1>13. QED
  BY <1>5, <1>6, <1>12 DEF IInv

----------------------------------------------------------------------------
(* The risk thread's steps.                                                *)
LEMMA RiskPopStep == ASSUME IInv, RiskPop PROVE IInv'
<1> USE DEF RiskPop, shared, pingPong, caller, indicator, logic, risk, queues
<1>1. Feeding' /\ Storing' /\ Loading'
  BY FeedingKept, StoringKept, LoadingKept DEF IInv
<1>2. CASE ~running
  <2>1. TypeOK'
    BY <1>2 DEF IInv, TypeOK
  <2>2. Signalling'
    BY <1>2, SignallingKept DEF IInv, FinalTop, RawTop
  <2>3. QED
    BY <1>1, <2>1, <2>2 DEF IInv
<1>3. CASE running
  <2>1. rawQ \in Seq(Signals) /\ rawQ # <<>> /\ MaxTicks \in Nat /\ SignalCap \in Nat
        /\ finalQ \in Seq(Signals)
    BY <1>3, BoundsAssumption, CapsAssumption DEF IInv, TypeOK
  <2>2. Head(rawQ) \in Signals /\ Tail(rawQ) \in Seq(Signals)
        /\ Len(Tail(rawQ)) = Len(rawQ) - 1 /\ Len(rawQ) \in Nat
    BY <2>1, TailFacts
  <2>3. Len(Tail(rawQ)) <= SignalCap
    BY <2>1, <2>2 DEF IInv, TypeOK
  <2>4. TypeOK'
    BY <1>3, <2>2, <2>3 DEF IInv, TypeOK
  <2>5. {sig.load, RawTop, polled.load, FinalTop} \subseteq Int
        /\ Loads(rawQ) \in Seq(Int) /\ Loads(finalQ) \in Seq(Int)
    BY <2>1, LoadsFacts, Numbers, Tops DEF IInv
  <2>6. Loads(rawQ) # <<>> /\ Head(Loads(rawQ)) = Head(rawQ).load
        /\ Loads(Tail(rawQ)) = Tail(Loads(rawQ)) /\ Head(rawQ).load \in Int
    <3>1. Head(rawQ).load \in Int
      BY <2>1, <2>2 DEF Signals, Ticks
    <3>2. QED
      BY <2>1, <3>1, LoadsTail
  <2>7. Ordered(Tail(Loads(rawQ)), Head(rawQ).load, RawTop) /\ Head(rawQ).load <= RawTop
        /\ sig.load < Head(rawQ).load
    BY <2>5, <2>6, OrderedPop DEF IInv, Signalling
  <2>8. Made(Head(rawQ), latestTick) /\ AllMade(Tail(rawQ), latestTick)
    BY <2>1, MadePop DEF IInv, Signalling
  <2>9. FinalTop = sig.load /\ FinalTop' = Head(rawQ).load - 1 /\ RawTop' = RawTop
    BY <1>3 DEF FinalTop, RawTop
  <2>10. Ordered(Loads(finalQ), polled.load, Head(rawQ).load - 1)
         /\ polled.load <= Head(rawQ).load - 1
    <3>1. Ordered(Loads(finalQ), polled.load, sig.load) /\ polled.load <= sig.load
      BY <2>9 DEF IInv, Signalling
    <3>2. Head(rawQ).load - 1 \in Int /\ sig.load <= Head(rawQ).load - 1
      BY <2>5, <2>6, <2>7
    <3>3. QED
      BY <2>5, <3>1, <3>2, OrderedWiden
  <2>11. Signalling'
    <3>1. Loads(rawQ)' = Loads(rawQ') /\ Loads(finalQ)' = Loads(finalQ)
      BY <1>3 DEF Loads
    <3>2. QED
      BY <1>3, <2>6, <2>7, <2>8, <2>9, <2>10, <3>1
         DEF IInv, Signalling, Ordered, Made, AllMade
  <2>12. QED
    BY <1>1, <2>4, <2>11 DEF IInv
<1>4. QED
  BY <1>2, <1>3

LEMMA RiskPaperStep ==
    ASSUME IInv, NEW hit \in BOOLEAN, NEW actionable \in BOOLEAN, RiskPaper(hit, actionable)
    PROVE  IInv'
<1> USE DEF RiskPaper, shared, pingPong, caller, indicator, logic, risk, queues
<1>1. closed + 1 \in Nat /\ OutcomeCap \in Nat
  BY CapsAssumption DEF IInv, TypeOK
<1>2. outcomeQ' \in Seq(Nat) /\ Len(outcomeQ') <= OutcomeCap
  BY <1>1, OfferedType DEF IInv, TypeOK
<1>3. TypeOK'
  <2>1. paperOpen' \in BOOLEAN
    BY DEF IInv, TypeOK
  <2>2. closed' \in Nat
    BY <1>1 DEF IInv, TypeOK
  <2>3. QED
    BY <1>2, <2>1, <2>2 DEF IInv, TypeOK
<1>4. Feeding' /\ Storing' /\ Loading'
  BY FeedingKept, StoringKept, LoadingKept DEF IInv
<1>5. Signalling'
  BY SignallingKept DEF IInv, FinalTop, RawTop
<1>6. QED
  BY <1>3, <1>4, <1>5 DEF IInv

LEMMA RiskPushStep == ASSUME IInv, RiskPush PROVE IInv'
<1> USE DEF RiskPush, shared, pingPong, caller, indicator, logic, risk, queues
<1>1. sig \in Signals /\ SignalCap \in Nat /\ MaxTicks \in Nat /\ finalQ \in Seq(Signals)
  BY CapsAssumption, BoundsAssumption DEF IInv, TypeOK
<1>2. finalQ' \in Seq(Signals) /\ Len(finalQ') <= SignalCap
  BY <1>1, OfferedType DEF IInv, TypeOK
<1>3. TypeOK'
  BY <1>2 DEF IInv, TypeOK
<1>4. Feeding' /\ Storing' /\ Loading'
  BY FeedingKept, StoringKept, LoadingKept DEF IInv
<1>5. {polled.load, sig.load, sig.load - 1} \subseteq Int /\ Loads(finalQ) \in Seq(Int)
  <2>1. polled.load \in Int /\ sig.load \in Int
    BY Numbers DEF IInv
  <2>2. QED
    BY <1>1, <2>1, LoadsFacts
<1>6. FinalTop = sig.load - 1 /\ FinalTop' = sig.load /\ RawTop' = RawTop
  BY DEF RawTop, FinalTop
<1>7. Loads(Offered(finalQ, SignalCap, sig)) = Offered(Loads(finalQ), SignalCap, sig.load)
  BY <1>1, LoadsOffered
<1>8. Ordered(Offered(Loads(finalQ), SignalCap, sig.load), polled.load, sig.load)
      /\ polled.load <= sig.load
  <2>1. Ordered(Loads(finalQ), polled.load, sig.load - 1) /\ polled.load <= sig.load - 1
        /\ sig.load - 1 < sig.load
    BY <1>5, <1>6 DEF IInv, Signalling
  <2>2. polled.load <= sig.load
    BY <1>5, <2>1
  <2>3. QED
    BY <1>1, <1>5, <2>1, <2>2, OrderedOffer
<1>9. AllMade(Offered(finalQ, SignalCap, sig), latestTick)
  BY <1>1, MadeOffered DEF IInv, Signalling
<1>10. Signalling'
  <2>1. Loads(finalQ)' = Loads(finalQ') /\ Loads(rawQ)' = Loads(rawQ)
    BY DEF Loads
  <2>2. QED
    BY <1>6, <1>7, <1>8, <1>9, <2>1 DEF IInv, Signalling, Ordered, Made, AllMade
<1>11. QED
  BY <1>3, <1>4, <1>10 DEF IInv

LEMMA NextIInv == IInv /\ [Next]_vars => IInv'
<1> SUFFICES ASSUME IInv, [Next]_vars PROVE IInv'
  OBVIOUS
<1>1. CASE Caller
  BY <1>1, MainTickStep, FeedDxyStep, FeedGoldStep, PollSignalStep, StopStep DEF Caller
<1>2. CASE IndicatorThread
  BY <1>2, IndicatorDxyStep, IndicatorGoldStep, IndicatorStoreWordStep, IndicatorRaiseStep
     DEF IndicatorThread
<1>3. CASE LogicThread
  BY <1>3, LogicOutcomesStep, LogicLoadStep, LogicCopyWordStep, LogicStateStep, LogicPushStep
     DEF LogicThread
<1>4. CASE RiskThread
  BY <1>4, RiskPopStep, RiskPaperStep, RiskPushStep DEF RiskThread
<1>5. CASE UNCHANGED vars
  <2> USE <1>5 DEF vars, shared, pingPong, caller, indicator, logic, risk, queues
  <2>1. TypeOK'
    BY DEF IInv, TypeOK
  <2>2. Feeding' /\ Storing' /\ Loading' /\ Signalling'
    BY FeedingKept, StoringKept, LoadingKept, SignallingKept DEF IInv, FinalTop, RawTop
  <2>3. QED
    BY <2>1, <2>2 DEF IInv
<1>6. QED
  BY <1>1, <1>2, <1>3, <1>4, <1>5 DEF Next, Ended

----------------------------------------------------------------------------
(* The invariant puts the signals under way in order.                      *)
LEMMA OrderedConcat ==
    ASSUME NEW s \in Seq(Int), NEW t \in Seq(Int), NEW low \in Int, NEW mid \in Int,
           NEW mid2 \in Int, NEW high \in Int,
           Ordered(s, low, mid), Ordered(t, mid2, high), low <= mid, mid <= mid2, mid2 <= high
    PROVE  s \o t \in Seq(Int) /\ Ordered(s \o t, low, high)
<1>1. /\ s \o t \in Seq(Int) /\ Len(s \o t) = Len(s) + Len(t)
      /\ Len(s) \in Nat /\ Len(t) \in Nat
      /\ \A i \in 1 .. Len(s) : (s \o t)[i] = s[i] /\ s[i] \in Int
      /\ \A i \in Len(s) + 1 .. Len(s) + Len(t) :
            (s \o t)[i] = t[i - Len(s)] /\ t[i - Len(s)] \in Int
  BY SMT
<1>2. \A i \in 1 .. Len(s) :
        low < s[i] /\ s[i] <= mid /\ \A j \in 1 .. Len(s) : i < j => s[i] < s[j]
  BY DEF Ordered
<1>3. \A i \in 1 .. Len(t) :
        mid2 < t[i] /\ t[i] <= high /\ \A j \in 1 .. Len(t) : i < j => t[i] < t[j]
  BY DEF Ordered
<1>4. SUFFICES ASSUME NEW i \in 1 .. Len(s) + Len(t), NEW j \in 1 .. Len(s) + Len(t)
               PROVE  /\ low < (s \o t)[i] /\ (s \o t)[i] <= high
                      /\ i < j => (s \o t)[i] < (s \o t)[j]
  BY <1>1 DEF Ordered
<1>5. CASE i \in 1 .. Len(s) /\ j \in 1 .. Len(s)
  BY <1>1, <1>2, <1>5
<1>6. CASE i \in 1 .. Len(s) /\ j \in Len(s) + 1 .. Len(s) + Len(t)
  <2>1. j - Len(s) \in 1 .. Len(t)
    BY <1>1, <1>6
  <2>2. /\ low < s[i] /\ s[i] <= mid /\ mid2 < t[j - Len(s)]
        /\ s[i] \in Int /\ t[j - Len(s)] \in Int
    BY <1>1, <1>2, <1>3, <1>6, <2>1
  <2>3. (s \o t)[i] = s[i] /\ (s \o t)[j] = t[j - Len(s)]
    BY <1>1, <1>6
  <2>4. low < s[i] /\ s[i] <= high /\ s[i] < t[j - Len(s)]
    BY <2>2
  <2>5. QED
    BY <2>3, <2>4
<1>7. CASE i \in Len(s) + 1 .. Len(s) + Len(t)
  <2>1. i - Len(s) \in 1 .. Len(t) /\ i \in Int /\ j \in Int
    BY <1>1, <1>7
  <2>2. low < (s \o t)[i] /\ (s \o t)[i] <= high
    BY <1>1, <1>3, <1>7, <2>1
  <2>3. ASSUME i < j PROVE (s \o t)[i] < (s \o t)[j]
    <3>1. j \in Len(s) + 1 .. Len(s) + Len(t) /\ j - Len(s) \in 1 .. Len(t)
          /\ i - Len(s) < j - Len(s)
      BY <1>1, <1>7, <2>1, <2>3
    <3>2. QED
      BY <1>1, <1>3, <1>7, <2>1, <3>1
  <2>4. QED
    BY <2>2, <2>3
<1>8. QED
  BY <1>1, <1>5, <1>6, <1>7

LEMMA OrderedSingle ==
    ASSUME NEW n \in Int
    PROVE  <<n>> \in Seq(Int) /\ Ordered(<<n>>, n - 1, n)
           /\ <<>> \in Seq(Int) /\ Ordered(<<>>, n, n)
  BY SMT DEF Ordered

LEMMA LoadsConcat ==
    ASSUME NEW s \in Seq(Signals), NEW t \in Seq(Signals), NEW now, MaxTicks \in Nat,
           AllMade(s, now), AllMade(t, now)
    PROVE  /\ s \o t \in Seq(Signals) /\ Loads(s \o t) = Loads(s) \o Loads(t)
           /\ AllMade(s \o t, now)
<1>1. /\ s \o t \in Seq(Signals) /\ Len(s \o t) = Len(s) + Len(t)
      /\ Len(s) \in Nat /\ Len(t) \in Nat
      /\ \A i \in 1 .. Len(s) : (s \o t)[i] = s[i]
      /\ \A i \in Len(s) + 1 .. Len(s) + Len(t) : (s \o t)[i] = t[i - Len(s)]
  BY ConcatFacts
<1>2. /\ Loads(s) \in Seq(Int) /\ Len(Loads(s)) = Len(s)
      /\ \A i \in 1 .. Len(s) : Loads(s)[i] = s[i].load
  BY LoadsFacts
<1>3. /\ Loads(t) \in Seq(Int) /\ Len(Loads(t)) = Len(t)
      /\ \A i \in 1 .. Len(t) : Loads(t)[i] = t[i].load
  BY LoadsFacts
<1>4. /\ Loads(s \o t) \in Seq(Int) /\ Len(Loads(s \o t)) = Len(s) + Len(t)
      /\ \A i \in 1 .. Len(s) + Len(t) : Loads(s \o t)[i] = (s \o t)[i].load
  BY <1>1, LoadsFacts
<1>5. /\ Loads(s) \o Loads(t) \in Seq(Int)
      /\ Len(Loads(s) \o Loads(t)) = Len(s) + Len(t)
      /\ \A i \in 1 .. Len(s) : (Loads(s) \o Loads(t))[i] = Loads(s)[i]
      /\ \A i \in Len(s) + 1 .. Len(s) + Len(t) :
            (Loads(s) \o Loads(t))[i] = Loads(t)[i - Len(s)]
  <2>1. Loads(s) \in Seq(Int) /\ Loads(t) \in Seq(Int)
    BY <1>2, <1>3
  <2> HIDE DEF Loads
  <2>2. /\ Loads(s) \o Loads(t) \in Seq(Int)
        /\ Len(Loads(s) \o Loads(t)) = Len(Loads(s)) + Len(Loads(t))
        /\ \A i \in 1 .. Len(Loads(s)) : (Loads(s) \o Loads(t))[i] = Loads(s)[i]
        /\ \A i \in Len(Loads(s)) + 1 .. Len(Loads(s)) + Len(Loads(t)) :
              (Loads(s) \o Loads(t))[i] = Loads(t)[i - Len(Loads(s))]
    BY <2>1, ConcatFacts
  <2>3. QED
    BY <1>2, <1>3, <2>2
<1>. HIDE DEF Made
<1>6. ASSUME NEW i \in 1 .. Len(s) + Len(t)
      PROVE  Loads(s \o t)[i] = (Loads(s) \o Loads(t))[i] /\ Made((s \o t)[i], now)
  <2>1. CASE i \in 1 .. Len(s)
    BY <1>1, <1>2, <1>4, <1>5, <2>1 DEF AllMade
  <2>2. CASE i \in Len(s) + 1 .. Len(s) + Len(t)
    <3>1. i - Len(s) \in 1 .. Len(t)
      BY <1>1, <2>2
    <3>2. QED
      BY <1>1, <1>3, <1>4, <1>5, <2>2, <3>1 DEF AllMade
  <2>3. Len(s) \in Nat /\ Len(t) \in Nat
    BY <1>1
  <2>4. i \in 1 .. Len(s) \/ i \in Len(s) + 1 .. Len(s) + Len(t)
    BY <2>3
  <2>5. QED
    BY <2>1, <2>2, <2>4
<1>7. Loads(s \o t) = Loads(s) \o Loads(t)
  BY <1>4, <1>5, <1>6, SameSeq
<1>8. QED
  BY <1>1, <1>6, <1>7 DEF AllMade

LEMMA SingleSignal ==
    ASSUME NEW v \in Signals, NEW now, Made(v, now), MaxTicks \in Nat
    PROVE  /\ <<v>> \in Seq(Signals) /\ Loads(<<v>>) = <<v.load>> /\ AllMade(<<v>>, now)
           /\ <<>> \in Seq(Signals) /\ Loads(<<>>) = <<>> /\ AllMade(<<>>, now)
<1>1. <<v>> \in Seq(Signals) /\ Len(<<v>>) = 1 /\ <<v>>[1] = v
  BY SMT
<1>2. Loads(<<v>>) = <<v.load>>
  BY <1>1, SMT DEF Loads
<1>3. <<>> \in Seq(Signals) /\ Len(<<>>) = 0
  BY SMT
<1>4. Loads(<<>>) = <<>>
  BY <1>3, SMT DEF Loads
<1>. HIDE DEF Made
<1>5. AllMade(<<v>>, now) /\ AllMade(<<>>, now)
  BY <1>1, <1>3 DEF AllMade
<1>6. QED
  BY <1>1, <1>2, <1>3, <1>4, <1>5

(* Two stretches of signals, one after the other.                          *)
LEMMA Joined2 ==
    ASSUME NEW s \in Seq(Signals), NEW t \in Seq(Signals), NEW now, MaxTicks \in Nat,
           NEW low \in Int, NEW mid \in Int, NEW high \in Int,
           Ordered(Loads(s), low, mid), Ordered(Loads(t), mid, high),
           low <= mid, mid <= high, AllMade(s, now), AllMade(t, now)
    PROVE  s \o t \in Seq(Signals) /\ Ordered(Loads(s \o t), low, high)
           /\ AllMade(s \o t, now)
<1>1. Loads(s) \in Seq(Int) /\ Loads(t) \in Seq(Int) /\ mid <= mid
  BY LoadsFacts
<1>2. Ordered(Loads(s) \o Loads(t), low, high)
  BY <1>1, OrderedConcat
<1>3. QED
  BY <1>2, LoadsConcat

LEMMA InOrder == IInv => SignalsInOrder
<1> SUFFICES ASSUME IInv PROVE SignalsInOrder
  OBVIOUS
<1> DEFINE v == [tick |-> snap.tick, load |-> seen]
           hand == IF rpc \in {"paper", "push"} THEN <<sig>> ELSE <<>>
           last == IF lpc \in {"state", "push"} THEN <<v>> ELSE <<>>
           now == latestTick
<1>1. {polled.load, sig.load, FinalTop, RawTop, seen, now, polled.load - 1} \subseteq Int
  <2>1. polled.load \in Int
    BY Numbers DEF IInv
  <2>2. polled.load - 1 \in Int
    BY <2>1
  <2>3. QED
    BY <2>2, Numbers, Tops DEF IInv
<1>2. /\ rawQ \in Seq(Signals) /\ finalQ \in Seq(Signals) /\ MaxTicks \in Nat
      /\ sig \in Signals /\ polled \in Signals
  BY BoundsAssumption DEF IInv, TypeOK
<1>3. /\ Ordered(Loads(finalQ), polled.load, FinalTop) /\ polled.load <= FinalTop
      /\ Ordered(Loads(rawQ), sig.load, RawTop) /\ sig.load <= RawTop
      /\ AllMade(rawQ, now) /\ AllMade(finalQ, now) /\ Made(sig, now) /\ Made(polled, now)
  BY DEF IInv, Signalling
<1>4. <<polled>> \in Seq(Signals) /\ AllMade(<<polled>>, now)
      /\ Ordered(Loads(<<polled>>), polled.load - 1, polled.load)
  <2>1. <<polled>> \in Seq(Signals) /\ AllMade(<<polled>>, now)
        /\ Loads(<<polled>>) = <<polled.load>>
    BY <1>2, <1>3, SingleSignal
  <2>2. Ordered(<<polled.load>>, polled.load - 1, polled.load)
    BY <1>1, OrderedSingle
  <2>3. QED
    BY <2>1, <2>2
<1>5. hand \in Seq(Signals) /\ AllMade(hand, now) /\ Ordered(Loads(hand), FinalTop, sig.load)
      /\ FinalTop <= sig.load
  <2>1. /\ <<sig>> \in Seq(Signals) /\ Loads(<<sig>>) = <<sig.load>> /\ AllMade(<<sig>>, now)
        /\ <<>> \in Seq(Signals) /\ Loads(<<>>) = <<>> /\ AllMade(<<>>, now)
    BY <1>2, <1>3, SingleSignal
  <2>2. Ordered(<<sig.load>>, sig.load - 1, sig.load) /\ Ordered(<<>>, sig.load, sig.load)
        /\ sig.load - 1 <= sig.load /\ sig.load <= sig.load
    BY <1>1, OrderedSingle
  <2>3. QED
    BY <2>1, <2>2 DEF FinalTop
<1>6. last \in Seq(Signals) /\ AllMade(last, now)
      /\ \E top \in Int : Ordered(Loads(last), RawTop, top) /\ RawTop <= top
  <2>1. /\ <<>> \in Seq(Signals) /\ Loads(<<>>) = <<>> /\ AllMade(<<>>, now)
    BY <1>2, <1>3, SingleSignal
  <2>2. CASE lpc \in {"state", "push"}
    <3>1. v \in Signals /\ v.load = seen /\ v.tick = snap.tick
      BY DEF IInv, TypeOK, Snapshots, Signals
    <3>2. Made(v, now)
      BY <2>2, <3>1 DEF IInv, Loading, Made
    <3> HIDE DEF v, now
    <3>3. <<v>> \in Seq(Signals) /\ Loads(<<v>>) = <<v.load>> /\ AllMade(<<v>>, now)
      BY <1>2, <3>1, <3>2, SingleSignal
    <3>4. Ordered(<<seen>>, seen - 1, seen) /\ seen - 1 <= seen /\ seen \in Int
      BY <1>1, OrderedSingle
    <3>5. RawTop = seen - 1
      BY <2>2 DEF RawTop
    <3>6. QED
      BY <2>2, <3>1, <3>3, <3>4, <3>5
  <2>3. CASE lpc \notin {"state", "push"}
    <3>1. RawTop \in Int
      BY <1>1
    <3>2. RawTop <= RawTop
      BY <3>1
    <3>3. Ordered(<<>>, RawTop, RawTop)
      BY SMT DEF Ordered
    <3>4. last = <<>>
      BY <2>3
    <3> HIDE DEF last
    <3>5. QED
      BY <2>1, <3>1, <3>2, <3>3, <3>4
  <2>4. QED
    BY <2>2, <2>3
<1>7. PICK top \in Int : Ordered(Loads(last), RawTop, top) /\ RawTop <= top
  BY <1>6
<1> HIDE DEF v, hand, last, now
<1>8. <<polled>> \o finalQ \in Seq(Signals) /\ AllMade(<<polled>> \o finalQ, now)
      /\ Ordered(Loads(<<polled>> \o finalQ), polled.load - 1, FinalTop)
  <2>1. polled.load - 1 <= polled.load
    BY <1>1
  <2>2. QED
    BY <1>1, <1>2, <1>3, <1>4, <2>1, Joined2
<1>9. /\ (<<polled>> \o finalQ) \o hand \in Seq(Signals)
      /\ AllMade((<<polled>> \o finalQ) \o hand, now)
      /\ Ordered(Loads((<<polled>> \o finalQ) \o hand), polled.load - 1, sig.load)
  <2>1. polled.load - 1 <= FinalTop
    BY <1>1, <1>3
  <2>2. QED
    BY <1>1, <1>2, <1>5, <1>8, <2>1, Joined2
<1>10. /\ ((<<polled>> \o finalQ) \o hand) \o rawQ \in Seq(Signals)
       /\ AllMade(((<<polled>> \o finalQ) \o hand) \o rawQ, now)
       /\ Ordered(Loads(((<<polled>> \o finalQ) \o hand) \o rawQ), polled.load - 1, RawTop)
  <2>1. polled.load - 1 <= sig.load
    BY <1>1, <1>3, <1>5
  <2>2. QED
    BY <1>1, <1>2, <1>3, <1>9, <2>1, Joined2
<1>11. Underway \in Seq(Signals) /\ AllMade(Underway, now)
       /\ Ordered(Loads(Underway), polled.load - 1, top)
  <2>1. polled.load - 1 <= RawTop
    BY <1>1, <1>3, <1>5
  <2>2. Underway = (((<<polled>> \o finalQ) \o hand) \o rawQ) \o last
    BY DEF Underway, hand, last, v
  <2>3. QED
    BY <1>1, <1>2, <1>6, <1>7, <1>10, <2>1, <2>2, Joined2
<1>12. SUFFICES ASSUME NEW i \in 1 .. Len(Underway)
                PROVE  /\ Underway[i].load <= Underway[i].tick
                       /\ Underway[i].tick <= latestTick
                       /\ \A j \in i + 1 .. Len(Underway) :
                             /\ Underway[i].load < Underway[j].load
                             /\ Lapped(Underway[i]) \/ Underway[i].tick < Underway[j].tick
  BY DEF SignalsInOrder
<1>13. /\ Len(Loads(Underway)) = Len(Underway) /\ Len(Underway) \in Nat
       /\ \A k \in 1 .. Len(Underway) :
            /\ Loads(Underway)[k] = Underway[k].load
            /\ Underway[k].load \in Int /\ Underway[k].tick \in Int
  BY <1>2, <1>11, LoadsFacts
<1>14. \A k \in 1 .. Len(Underway) :
         Underway[k].load <= Underway[k].tick /\ Underway[k].tick <= latestTick
  BY <1>11 DEF AllMade, Made, now
<1>15. ASSUME NEW j \in i + 1 .. Len(Underway)
       PROVE  /\ Underway[i].load < Underway[j].load
              /\ Lapped(Underway[i]) \/ Underway[i].tick < Underway[j].tick
  <2>1. j \in 1 .. Len(Underway) /\ i < j
    BY <1>13
  <2>2. Loads(Underway)[i] < Loads(Underway)[j]
    BY <1>11, <1>13, <2>1 DEF Ordered
  <2>3. Underway[i].load < Underway[j].load
    BY <1>13, <2>1, <2>2
  <2>4. Underway[i].load <= Underway[i].tick /\ Underway[j].load <= Underway[j].tick
    BY <1>14, <2>1
  <2>5. QED
    BY <1>13, <2>1, <2>3, <2>4 DEF Lapped
<1>16. QED
  BY <1>14, <1>15

LEMMA NotBehind == IInv => NeverBehindSnapshot
  BY DEF IInv, Signalling, Made, Loading, NeverBehindSnapshot

(* The inductive invariant.                                                *)
THEOREM PipelineInvariant == Spec => []IInv
  BY InitIInv, NextIInv, PTL DEF Spec

(* Every variable keeps its type and every queue its room.                 *)
THEOREM PipelineTypeCorrect == Spec => []TypeOK
<1>1. IInv => TypeOK
  BY DEF IInv
<1>2. QED
  BY <1>1, PipelineInvariant, PTL

(* Whatever the capacities of the queues, the signals under way are in the *)
(* order of the loads they come from, and one is followed by a signal of   *)
(* the same or an earlier tick only if its own load was lapped             *)
(* (SpscPingPong::load, logic_thread_fn, risk_thread_fn).                  *)
THEOREM SignalsStayInOrder == Spec => []SignalsInOrder
  BY PipelineInvariant, InOrder, PTL

(* The market a snapshot is paired with, and the prices a paper fill uses, *)
(* are never older than the snapshot or the signal (latest_tick).          *)
THEOREM MarketNeverBehind == Spec => []NeverBehindSnapshot
  BY PipelineInvariant, NotBehind, PTL
=============================================================================
