------------------------------ MODULE Pipeline ------------------------------
(***************************************************************************)
(* The four-thread signal pipeline (core/include/goldmine/pipeline.hpp):   *)
(* the caller's thread feeds ticks and polls signals, the indicator thread *)
(* turns ticks into snapshots, the logic thread turns snapshots into raw   *)
(* signals and learns from trade outcomes, the risk thread runs the paper  *)
(* engine and passes the signals on.                                       *)
(*                                                                         *)
(* A queue is the bounded FIFO that SpscQueue implements.  The ping-pong   *)
(* buffer between indicator and logic is there with its two slots and its  *)
(* index, written and read word by word as in PingPong (whose stale index  *)
(* loads are left to it): a load that is lapped takes words of a later     *)
(* store, announced or not, under the index it decided on.                 *)
(*                                                                         *)
(* A tick is its number.  A snapshot has two words: the tick it was        *)
(* computed from (computed_at_ns) and the DXY price.  A signal is the tick *)
(* its snapshot named and, as history, the index it was loaded under.  The *)
(* DXY queue stands for the three co-asset queues, which the indicator     *)
(* thread polls alike; XAG and yield prices are not shared with the logic  *)
(* thread.                                                                 *)
(***************************************************************************)
EXTENDS Integers, Sequences

CONSTANTS
    GoldCap,      \* room in the gold and DXY queues
    SignalCap,    \* room in the raw and the final signal queue
    OutcomeCap,   \* room in the outcome queue
    MaxTicks,     \* bound: gold ticks fed
    MaxDxy        \* bound: DXY ticks fed

ASSUME CapsAssumption == {GoldCap, SignalCap, OutcomeCap} \subseteq Nat \ {0}
ASSUME BoundsAssumption == MaxTicks \in Nat /\ MaxDxy \in Nat

VARIABLES
    running,                       \* PipelineState::running
    goldQ, dxyQ, rawQ, finalQ, outcomeQ,
    latestTick, latestDxy,         \* shared, not atomic
    slots, writeIdx,               \* snapshot_pp: buf_, write_idx_
    mpc, fed, dxyFed, polled,      \* caller: place, ticks fed, last signal got
    ipc, dxyLast, computed,        \* indicator: place, its DXY, its snapshot
    toStore,                       \* indicator: words store() has yet to copy
    lpc, seen, snap, market,       \* logic: place, last index, snapshot, MarketState
    toCopy,                        \* logic: words load() has yet to copy
    rpc, sig,                      \* risk: place, signal in hand
    paperOpen, closed, learned     \* paper position, trades closed, outcomes learned

pingPong == <<slots, writeIdx>>
shared == <<latestTick, latestDxy, pingPong>>
caller == <<mpc, fed, dxyFed, polled>>
indicator == <<ipc, dxyLast, computed, toStore>>
logic == <<lpc, seen, snap, toCopy, market, learned>>
risk == <<rpc, sig, paperOpen, closed>>
queues == <<goldQ, dxyQ, rawQ, finalQ, outcomeQ>>
vars == <<running, shared, caller, indicator, logic, risk, queues>>

Ticks == 0 .. MaxTicks
Snapshots == [tick : Ticks, dxy : 0 .. MaxDxy]
Nothing == [tick |-> 0, dxy |-> 0]
Words == DOMAIN Nothing
Signals == [tick : Ticks, load : Ticks]
NoSignal == [tick |-> 0, load |-> 0]

SlotOf(store) == (store - 1) % 2   \* the slot the given store writes

TypeOK ==
    /\ running \in BOOLEAN
    /\ goldQ \in Seq(Ticks) /\ Len(goldQ) <= GoldCap
    /\ dxyQ \in Seq(0 .. MaxDxy) /\ Len(dxyQ) <= GoldCap
    /\ rawQ \in Seq(Signals) /\ Len(rawQ) <= SignalCap
    /\ finalQ \in Seq(Signals) /\ Len(finalQ) <= SignalCap
    /\ outcomeQ \in Seq(Nat) /\ Len(outcomeQ) <= OutcomeCap
    /\ latestTick \in Ticks /\ latestDxy \in 0 .. MaxDxy
    /\ slots \in [0 .. 1 -> Snapshots] /\ writeIdx \in Ticks
    /\ {computed, snap, market} \subseteq Snapshots
    /\ toStore \subseteq Words /\ toCopy \subseteq Words
    /\ mpc \in {"tick", "feed", "poll", "join", "end"}
    /\ ipc \in {"dxy", "gold", "store", "done"}
    /\ lpc \in {"outcomes", "load", "copy", "state", "push", "done"}
    /\ rpc \in {"pop", "paper", "push", "done"}
    /\ {fed, seen} \subseteq Ticks /\ {polled, sig} \subseteq Signals
    /\ {dxyFed, dxyLast} \subseteq 0 .. MaxDxy
    /\ paperOpen \in BOOLEAN /\ closed \in Nat /\ learned \in Nat

(* After start().                                                          *)
Init ==
    /\ running = TRUE
    /\ goldQ = <<>> /\ dxyQ = <<>> /\ rawQ = <<>> /\ finalQ = <<>> /\ outcomeQ = <<>>
    /\ latestTick = 0 /\ latestDxy = 0
    /\ slots = [i \in 0 .. 1 |-> Nothing] /\ writeIdx = 0
    /\ mpc = "tick" /\ fed = 0 /\ dxyFed = 0 /\ polled = NoSignal
    /\ ipc = "dxy" /\ dxyLast = 0 /\ computed = Nothing /\ toStore = {}
    /\ lpc = "outcomes" /\ seen = 0 /\ snap = Nothing /\ toCopy = {} /\ market = Nothing
    /\ rpc = "pop" /\ sig = NoSignal
    /\ paperOpen = FALSE /\ closed = 0 /\ learned = 0

(* try_push: an item that finds no room is dropped by the caller.          *)
Offered(q, cap, v) == IF Len(q) < cap THEN Append(q, v) ELSE q

----------------------------------------------------------------------------
(* The caller's thread (expert_engine.cpp, tests): a tick arrives, is fed  *)
(* until the queue takes it, then the signals waiting are polled.          *)

MainTick ==
    /\ mpc = "tick" /\ fed < MaxTicks
    /\ mpc' = "feed"
    /\ UNCHANGED <<running, shared, fed, dxyFed, polled, indicator, logic, risk, queues>>

FeedDxy ==
    /\ mpc = "tick" /\ dxyFed < MaxDxy
    /\ dxyFed' = dxyFed + 1
    /\ dxyQ' = Offered(dxyQ, GoldCap, dxyFed + 1)
    /\ UNCHANGED <<running, shared, mpc, fed, polled, indicator, logic, risk,
                   goldQ, rawQ, finalQ, outcomeQ>>

FeedGold ==
    /\ mpc = "feed" /\ Len(goldQ) < GoldCap
    /\ goldQ' = Append(goldQ, fed + 1)
    /\ fed' = fed + 1
    /\ mpc' = "poll"
    /\ UNCHANGED <<running, shared, dxyFed, polled, indicator, logic, risk,
                   dxyQ, rawQ, finalQ, outcomeQ>>

PollSignal ==
    /\ mpc = "poll"
    /\ IF finalQ = <<>>
         THEN mpc' = "tick" /\ UNCHANGED <<polled, finalQ>>
         ELSE polled' = Head(finalQ) /\ finalQ' = Tail(finalQ) /\ UNCHANGED mpc
    /\ UNCHANGED <<running, shared, fed, dxyFed, indicator, logic, risk,
                   goldQ, dxyQ, rawQ, outcomeQ>>

(* stop(): clear the flag, then join the threads.  The engine may leave    *)
(* its loop for want of a tick or right after feeding one.                 *)
Stop ==
    /\ mpc \in {"tick", "poll"}
    /\ running' = FALSE
    /\ mpc' = "join"
    /\ UNCHANGED <<shared, fed, dxyFed, polled, indicator, logic, risk, queues>>

Joined ==
    /\ mpc = "join" /\ ipc = "done" /\ lpc = "done" /\ rpc = "done"
    /\ mpc' = "end"
    /\ UNCHANGED <<running, shared, fed, dxyFed, polled, indicator, logic, risk, queues>>

----------------------------------------------------------------------------
(* indicator_thread_fn.                                                    *)

IndicatorDxy ==
    /\ ipc = "dxy"
    /\ IF ~running
         THEN ipc' = "done" /\ UNCHANGED <<dxyQ, dxyLast, latestDxy>>
         ELSE /\ ipc' = "gold"
              /\ IF dxyQ = <<>> THEN UNCHANGED <<dxyQ, dxyLast, latestDxy>>
                 ELSE /\ dxyLast' = Head(dxyQ) /\ latestDxy' = Head(dxyQ)
                      /\ dxyQ' = Tail(dxyQ)
    /\ UNCHANGED <<running, latestTick, pingPong, caller, computed, toStore, logic, risk,
                   goldQ, rawQ, finalQ, outcomeQ>>
(* Wrong variants: the tick is shared after the snapshot is stored; the    *)
(* DXY tick is waited for.                                                 *)
IndicatorGoldLate ==
    /\ ipc = "gold"
    /\ IF goldQ = <<>>
         THEN ipc' = "dxy" /\ UNCHANGED <<goldQ, latestTick, computed, toStore>>
         ELSE /\ ipc' = "store" /\ toStore' = Words
              /\ goldQ' = Tail(goldQ)
              /\ latestTick' = computed.tick
              /\ computed' = [tick |-> Head(goldQ), dxy |-> dxyLast]
    /\ UNCHANGED <<running, latestDxy, pingPong, caller, dxyLast, logic, risk,
                   dxyQ, rawQ, finalQ, outcomeQ>>

IndicatorGoldPaired ==
    /\ ipc = "gold"
    /\ IF goldQ = <<>> \/ dxyLast = 0
         THEN ipc' = "dxy" /\ UNCHANGED <<goldQ, latestTick, computed, toStore>>
         ELSE /\ ipc' = "store" /\ toStore' = Words
              /\ goldQ' = Tail(goldQ)
              /\ latestTick' = Head(goldQ)
              /\ computed' = [tick |-> Head(goldQ), dxy |-> dxyLast]
    /\ UNCHANGED <<running, latestDxy, pingPong, caller, dxyLast, logic, risk,
                   dxyQ, rawQ, finalQ, outcomeQ>>

IndicatorGold ==
    /\ ipc = "gold"
    /\ IF goldQ = <<>>
         THEN ipc' = "dxy" /\ UNCHANGED <<goldQ, latestTick, computed, toStore>>
         ELSE /\ ipc' = "store" /\ toStore' = Words
              /\ goldQ' = Tail(goldQ)
              /\ latestTick' = Head(goldQ)
              /\ computed' = [tick |-> Head(goldQ), dxy |-> dxyLast]
    /\ UNCHANGED <<running, latestDxy, pingPong, caller, dxyLast, logic, risk,
                   dxyQ, rawQ, finalQ, outcomeQ>>

(* snapshot_pp.store: the slot word by word, then the index.               *)
IndicatorStoreWord(w) ==
    /\ ipc = "store" /\ w \in toStore
    /\ slots' = [slots EXCEPT ![SlotOf(writeIdx + 1)][w] = computed[w]]
    /\ toStore' = toStore \ {w}
    /\ UNCHANGED <<running, latestTick, latestDxy, writeIdx, caller, ipc, dxyLast, computed,
                   logic, risk, queues>>

IndicatorRaise ==
    /\ ipc = "store" /\ toStore = {}
    /\ writeIdx' = writeIdx + 1
    /\ ipc' = "dxy"
    /\ UNCHANGED <<running, latestTick, latestDxy, slots, caller, dxyLast, computed, toStore,
                   logic, risk, queues>>

----------------------------------------------------------------------------
(* logic_thread_fn.                                                        *)

(* Drain the outcomes; the learner is updated with each.                   *)
LogicOutcomes ==
    /\ lpc = "outcomes"
    /\ IF ~running
         THEN lpc' = "done" /\ UNCHANGED <<learned, outcomeQ>>
         ELSE /\ lpc' = "load"
              /\ learned' = learned + Len(outcomeQ)
              /\ outcomeQ' = <<>>
    /\ UNCHANGED <<running, shared, caller, indicator, seen, snap, toCopy, market, risk,
                   goldQ, dxyQ, rawQ, finalQ>>
(* Wrong variants: an old snapshot is taken again; a load skips every      *)
(* other snapshot.                                                         *)
LogicLoadAgain ==
    /\ lpc = "load"
    /\ lpc' = "copy" /\ seen' = writeIdx /\ toCopy' = Words
    /\ UNCHANGED <<running, shared, caller, indicator, snap, market, learned, risk, queues>>

LogicLoadLate ==
    /\ lpc = "load"
    /\ IF writeIdx <= seen + 1
         THEN lpc' = "outcomes" /\ UNCHANGED <<seen, toCopy>>
         ELSE lpc' = "copy" /\ seen' = writeIdx /\ toCopy' = Words
    /\ UNCHANGED <<running, shared, caller, indicator, snap, market, learned, risk, queues>>

(* snapshot_pp.load: the index, which becomes last_seen_, then the slot it *)
(* names, word by word and never looked at again.                          *)
LogicLoad ==
    /\ lpc = "load"
    /\ IF writeIdx = seen
         THEN lpc' = "outcomes" /\ UNCHANGED <<seen, toCopy>>
         ELSE lpc' = "copy" /\ seen' = writeIdx /\ toCopy' = Words
    /\ UNCHANGED <<running, shared, caller, indicator, snap, market, learned, risk, queues>>

LogicCopyWord(w) ==
    /\ lpc = "copy" /\ w \in toCopy
    /\ snap' = [snap EXCEPT ![w] = slots[SlotOf(seen)][w]]
    /\ toCopy' = toCopy \ {w}
    /\ lpc' = IF toCopy = {w} THEN "state" ELSE "copy"
    /\ UNCHANGED <<running, shared, caller, indicator, seen, market, learned, risk, queues>>

(* The latest tick is read on its own: it may be newer than the snapshot.  *)
LogicState ==
    /\ lpc = "state"
    /\ market' = [tick |-> latestTick, dxy |-> latestDxy]
    /\ lpc' = "push"
    /\ UNCHANGED <<running, shared, caller, indicator, seen, snap, toCopy, learned, risk,
                   queues>>

LogicPush ==
    /\ lpc = "push"
    /\ rawQ' = Offered(rawQ, SignalCap, [tick |-> snap.tick, load |-> seen])
    /\ lpc' = "outcomes"
    /\ UNCHANGED <<running, shared, caller, indicator, seen, snap, toCopy, market, learned,
                   risk, goldQ, dxyQ, finalQ, outcomeQ>>

----------------------------------------------------------------------------
(* risk_thread_fn with PaperEngine::on_signal; PaperEngine models prices.  *)
(* Wrong variant: the flag is looked at only when there is a signal.       *)
RiskPopWaits ==
    /\ rpc = "pop" /\ rawQ # <<>>
    /\ IF ~running THEN rpc' = "done" /\ UNCHANGED <<sig, rawQ>>
       ELSE sig' = Head(rawQ) /\ rawQ' = Tail(rawQ) /\ rpc' = "paper"
    /\ UNCHANGED <<running, shared, caller, indicator, logic, paperOpen, closed,
                   goldQ, dxyQ, finalQ, outcomeQ>>

RiskPop ==
    /\ rpc = "pop"
    /\ IF ~running THEN rpc' = "done" /\ UNCHANGED <<sig, rawQ>>
       ELSE rawQ # <<>> /\ sig' = Head(rawQ) /\ rawQ' = Tail(rawQ) /\ rpc' = "paper"
    /\ UNCHANGED <<running, shared, caller, indicator, logic, paperOpen, closed,
                   goldQ, dxyQ, finalQ, outcomeQ>>

(* The open paper position may be closed (hit), which pushes its outcome,  *)
(* and one may be opened in the same call (actionable).                    *)
RiskPaper(hit, actionable) ==
    /\ rpc = "paper"
    /\ hit => paperOpen
    /\ closed' = IF hit THEN closed + 1 ELSE closed
    /\ outcomeQ' = IF hit THEN Offered(outcomeQ, OutcomeCap, closed + 1) ELSE outcomeQ
    /\ paperOpen' = ((paperOpen /\ ~hit) \/ actionable)
    /\ rpc' = "push"
    /\ UNCHANGED <<running, shared, caller, indicator, logic, sig,
                   goldQ, dxyQ, rawQ, finalQ>>

RiskPush ==
    /\ rpc = "push"
    /\ finalQ' = Offered(finalQ, SignalCap, sig)
    /\ rpc' = "pop"
    /\ UNCHANGED <<running, shared, caller, indicator, logic, sig, paperOpen, closed,
                   goldQ, dxyQ, rawQ, outcomeQ>>

----------------------------------------------------------------------------
Caller == MainTick \/ FeedDxy \/ FeedGold \/ PollSignal \/ Stop \/ Joined
IndicatorThread == IndicatorDxy \/ IndicatorGold \/ IndicatorRaise
                     \/ \E w \in Words : IndicatorStoreWord(w)
LogicThread == LogicOutcomes \/ LogicLoad \/ LogicState \/ LogicPush
                 \/ \E w \in Words : LogicCopyWord(w)
RiskThread == RiskPop \/ (\E hit, actionable \in BOOLEAN : RiskPaper(hit, actionable))
                \/ RiskPush
Ended == mpc = "end" /\ UNCHANGED vars

Next == Caller \/ IndicatorThread \/ LogicThread \/ RiskThread \/ Ended

Spec == Init /\ [][Next]_vars

(* Each thread is a loop that never blocks; the caller finishes what it    *)
(* began, but no tick need ever arrive again and stop() need not be called.*)
FairSpec == Spec /\ WF_vars(IndicatorThread) /\ WF_vars(LogicThread)
                 /\ WF_vars(RiskThread) /\ WF_vars(FeedGold \/ PollSignal \/ Joined)

(***************************************************************************)
(* Properties                                                              *)
(***************************************************************************)

(* The signals between the logic thread's last load and the last one       *)
(* polled are in the order of the loads, and none names a tick older than  *)
(* its load decided on.  So a signal is followed by one of the same or an  *)
(* earlier tick only if its own load was lapped: skipping snapshots and    *)
(* dropping signals never reorders or doubles one (logic_thread_fn,        *)
(* risk_thread_fn, SpscPingPong::load).                                    *)
Underway ==
    <<polled>> \o finalQ \o (IF rpc \in {"paper", "push"} THEN <<sig>> ELSE <<>>)
      \o rawQ
      \o (IF lpc \in {"state", "push"} THEN <<[tick |-> snap.tick, load |-> seen]>> ELSE <<>>)

Lapped(s) == s.tick > s.load

SignalsInOrder ==
    \A i \in 1 .. Len(Underway) :
        /\ Underway[i].load <= Underway[i].tick /\ Underway[i].tick <= latestTick
        /\ \A j \in i + 1 .. Len(Underway) :
              /\ Underway[i].load < Underway[j].load
              /\ Lapped(Underway[i]) \/ Underway[i].tick < Underway[j].tick

(* The unsynchronised latest tick may run ahead of the snapshot, never     *)
(* behind it, lapped or torn as it may be: MarketState pairs indicators    *)
(* with a tick and a DXY price at least as new, and a paper fill uses      *)
(* prices at least as new as its signal (latest_tick is written before the *)
(* snapshot is stored).                                                    *)
NeverBehindSnapshot ==
    /\ lpc = "push" => market.tick >= snap.tick /\ market.dxy >= snap.dxy
    /\ rpc = "paper" => latestTick >= sig.tick

(* The caller's spin on a full gold queue always ends, even if nobody ever *)
(* polls and every other queue is full (feed_gold_tick in expert_engine).  *)
FeedNeverStuck == (mpc = "feed") ~> (mpc # "feed")

(* However many snapshots the logic thread skips or gets lapped, it copies *)
(* the last one whole (snapshot_pp).                                       *)
LastTickEvaluated ==
    (fed = MaxTicks) ~>
        ((seen = MaxTicks /\ snap = slots[SlotOf(MaxTicks)] /\ snap.tick = MaxTicks)
           \/ ~running)

(* stop() returns: no thread waits for another once running is cleared.    *)
StopReturns == (mpc = "join") ~> (mpc = "end")
=============================================================================
