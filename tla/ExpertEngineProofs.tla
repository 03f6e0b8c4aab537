------------------------- MODULE ExpertEngineProofs -------------------------
(***************************************************************************)
(* Proofs about ExpertEngine for every set of prices, costs, settings and  *)
(* bounds: the type invariant, HeldInsideBracket, AutoEntrySound and the   *)
(* action properties HaltIsPermanent, TakeProfitPays, AutoEntryConfirmed.  *)
(*                                                                         *)
(* Every property speaks of one moment, an entry or a close, but what      *)
(* makes it hold was established some steps before, while the console and  *)
(* the publisher kept acting.  The invariant carries it over those steps.  *)
(***************************************************************************)
EXTENDS ExpertEngine, TLAPS

(* The tick up to which convictions have been counted.                     *)
BeforeDrain == pc \in {"manage", "buy", "sell", "drain"}
Counted == IF BeforeDrain THEN ticks - 1 ELSE ticks

(* A position is of a tick already counted, and each confirmation counts   *)
(* ticks since then: an entry starts the counters over.                    *)
CountersSinceEntry ==
    /\ BeforeDrain => ticks >= 1
    /\ pos.entryTick + longConfirm <= Counted
    /\ pos.entryTick + shortConfirm <= Counted

(* The counters count the convictions at the end of the history.           *)
CountersTell ==
    /\ Len(recent) < Persist
          => longConfirm <= Len(recent) /\ shortConfirm <= Len(recent)
    /\ \A i \in 1 .. Len(recent) :
          /\ Len(recent) - i < longConfirm => recent[i] = 1
          /\ Len(recent) - i < shortConfirm => recent[i] = -1

(* Versions are numbered by the commands.                                  *)
VersionsCounted == params.version <= commands

(* From the decision to trade to the entry its reasons stay: no position   *)
(* was open, the breaker had not tripped.                                  *)
Deciding == pc \in {"sl", "tp", "size"} => CanTrade

(* Under the breaker nothing is held.                                      *)
HaltedFlat == pos.open => ~Halted

(* The stop distance in hand was typed, suggested or is the default.       *)
StopDistances == Overrides \cup SignalSls \cup {FallbackSl, 0}
StopInHand == pc = "size" => loaded.slDist \in StopDistances

(* The bracket, from the moment a tick has been compared with it.          *)
Inside ==
    (pc # "manage" /\ pos.open /\ pos.entryTick < ticks) => ~HitSl /\ ~HitTp

(* A position of some size has its target beyond the buffered costs.       *)
TargetBuffered ==
    (pos.open /\ pos.qty = 1) =>
        2 * (IF pos.long THEN pos.tp - pos.entry ELSE pos.entry - pos.tp)
            >= 3 * pos.entryCost

IInv ==
    /\ TypeOK /\ CountersSinceEntry /\ CountersTell /\ VersionsCounted
    /\ Deciding /\ HaltedFlat /\ StopInHand /\ Inside /\ TargetBuffered /\ AutoEntrySound

----------------------------------------------------------------------------
(* The numbers the code computes with are integers.                        *)
LEMMA NumberFacts ==
    ASSUME TypeOK
    PROVE  /\ bid \in Nat /\ cost \in Nat /\ cost >= 1 /\ ticks \in Nat
           /\ longConfirm \in Nat /\ shortConfirm \in Nat
           /\ Len(recent) \in Nat /\ Len(recent) <= Persist
           /\ cliSl \in Int /\ cliTp \in Int /\ cliRisk \in Int
           /\ commands \in Nat
<1>1. /\ bid \in Prices /\ cost \in Costs /\ ticks \in 0 .. MaxTicks
      /\ longConfirm \in 0 .. MaxTicks /\ shortConfirm \in 0 .. MaxTicks
      /\ recent \in Seq(Convictions) /\ Len(recent) <= Persist
      /\ cliSl \in Overrides \cup {0} /\ cliTp \in Overrides \cup {0} /\ cliRisk \in Int
      /\ commands \in 0 .. MaxCommands
  BY DEF TypeOK
<1>2. /\ bid \in Nat /\ cost \in Nat /\ cost >= 1
      /\ cliSl \in Int /\ cliTp \in Int /\ cliRisk \in Int
  BY <1>1, MoneyAssumption
<1>3. ticks \in Nat /\ longConfirm \in Nat /\ shortConfirm \in Nat /\ commands \in Nat
  BY <1>1, BoundAssumption
<1>4. QED
  BY <1>1, <1>2, <1>3

(* So are those a position and the parameters carry.                       *)
LEMMA PositionFacts ==
    ASSUME TypeOK
    PROVE  /\ pos.entry \in Int /\ pos.sl \in Int /\ pos.tp \in Int /\ pos.qty \in {0, 1}
           /\ pos.entryTick \in Nat /\ pos.entryCost \in Nat /\ pos.entryCost >= 1
           /\ params.version \in Nat
<1>1. /\ pos.entry \in Int /\ pos.sl \in Int /\ pos.tp \in Int /\ pos.qty \in {0, 1}
      /\ pos.entryTick \in 0 .. MaxTicks /\ pos.entryCost \in Costs
      /\ params.version \in 0 .. MaxCommands
  BY DEF TypeOK
<1>2. \A c \in Costs : c \in Nat /\ c >= 1
  BY MoneyAssumption
<1>3. pos.entryTick \in Nat /\ params.version \in Nat
  BY <1>1, BoundAssumption
<1>4. QED
  BY <1>1, <1>2, <1>3

LEMMA InitIInv == Init => IInv
<1> SUFFICES ASSUME Init PROVE IInv
  OBVIOUS
<1>1. cost \in Costs /\ bid \in Prices /\ 0 \in 0 .. MaxTicks /\ 0 \in 0 .. MaxCommands
  BY BoundAssumption DEF Init
<1>2. pos \in [open : BOOLEAN, long : BOOLEAN, entry : Int, sl : Int, tp : Int,
               qty : {0, 1}, entryTick : 0 .. MaxTicks, entryCost : Costs,
               manual : BOOLEAN, risk : Int]
  BY <1>1 DEF Init, NoPosition
<1>3. account \in [current : Int, peak : Int, realized : Int, start : StartEquities]
  BY MoneyAssumption DEF Init
<1>4. /\ loaded \in [sl : BOOLEAN, tp : BOOLEAN, slDist : Int]
      /\ params \in [version : 0 .. MaxCommands, risk : Int, gateOpen : BOOLEAN]
  BY <1>1, MoneyAssumption DEF Init, NotLoaded
<1>5. signals \in Seq(SignalType) /\ recent \in Seq(Convictions) /\ Len(recent) = 0
  BY DEF Init
<1>6. TypeOK
  <2>1. /\ algoConv \in Convictions /\ atrStop \in SignalSls \cup {FallbackSl}
        /\ {cfgRisk, cliRisk, typedRisk} \subseteq Int
        /\ {cliSl, cliTp} \subseteq Overrides \cup {0}
        /\ Len(recent) <= Persist
    BY <1>5, MoneyAssumption, PersistAssumption DEF Init, Convictions
  <2>2. /\ ticks \in 0 .. MaxTicks /\ longConfirm \in 0 .. MaxTicks
        /\ shortConfirm \in 0 .. MaxTicks /\ lastVersion \in 0 .. MaxCommands
        /\ commands \in 0 .. MaxCommands
    BY <1>1 DEF Init
  <2>3. /\ {manualBuy, manualSell, cliClose, cliBuy, cliSell} \subseteq BOOLEAN
        /\ pc = "tick"
    BY DEF Init
  <2>4. QED
    BY <1>1, <1>2, <1>3, <1>4, <1>5, <2>1, <2>2, <2>3 DEF TypeOK
<1>7. ~pos.open /\ pos.entryTick = 0
  BY DEF Init, NoPosition
<1>8. CountersSinceEntry /\ CountersTell /\ VersionsCounted
  BY <1>5, <1>7 DEF Init, CountersSinceEntry, CountersTell, VersionsCounted, Counted, BeforeDrain
<1>9. QED
  BY <1>6, <1>7, <1>8
     DEF Init, IInv, Deciding, HaltedFlat, StopInHand, Inside, TargetBuffered, AutoEntrySound

----------------------------------------------------------------------------
(* The console, the pipeline and the publisher: only types and the number  *)
(* of commands are at stake.                                               *)

LEMMA LoopUntouched ==
    ASSUME IInv, UNCHANGED loopVars
    PROVE  /\ CountersSinceEntry' /\ CountersTell' /\ Deciding' /\ HaltedFlat'
           /\ StopInHand' /\ Inside' /\ TargetBuffered' /\ AutoEntrySound'
<1> USE DEF IInv, loopVars, market, orders, view, riskGate
<1>1. CountersSinceEntry' /\ CountersTell' /\ StopInHand'
  BY DEF CountersSinceEntry, CountersTell, Counted, BeforeDrain, StopInHand
<1>2. Deciding' /\ HaltedFlat'
  BY DEF Deciding, CanTrade, Halted, Manual, SigLong, SigShort, HaltedFlat
<1>3. Inside' /\ TargetBuffered' /\ AutoEntrySound'
  BY DEF Inside, HitSl, HitTp, Mark, TargetBuffered, AutoEntrySound
<1>4. QED
  BY <1>1, <1>2, <1>3

LEMMA CliStep == ASSUME IInv, Cli PROVE IInv'
<1> USE DEF IInv
<1>1. /\ UNCHANGED loopVars /\ UNCHANGED <<signals, params>>
      /\ commands < MaxCommands /\ commands' = commands + 1
  BY DEF Cli, Typing, CliClose, CliBuy, CliSell, CliSl, CliTp, CliRisk
<1>2. /\ {cliClose', cliBuy', cliSell'} \subseteq BOOLEAN
      /\ {cliRisk', typedRisk'} \subseteq Int
      /\ {cliSl', cliTp'} \subseteq Overrides \cup {0}
  BY MoneyAssumption DEF Cli, CliClose, CliBuy, CliSell, CliSl, CliTp, CliRisk,
                         flags, settings, TypeOK
<1>3. commands \in Nat /\ commands' \in 0 .. MaxCommands
  <2>1. commands \in Nat
    BY NumberFacts
  <2>2. QED
    BY <1>1, <2>1, BoundAssumption
<1>4. TypeOK'
  BY <1>1, <1>2, <1>3 DEF TypeOK, loopVars, market, orders, view, riskGate
<1>5. VersionsCounted'
  BY <1>1, <1>3, PositionFacts DEF VersionsCounted
<1>6. QED
  BY <1>1, <1>4, <1>5, LoopUntouched

LEMMA EnvironmentStep == ASSUME IInv, Environment PROVE IInv'
<1> USE DEF IInv
<1>1. ASSUME NEW sig \in SignalType, Signal(sig) PROVE IInv'
  <2>1. signals' \in Seq(SignalType)
    BY <1>1 DEF Signal
  <2>2. TypeOK' /\ VersionsCounted'
    BY <1>1, <2>1 DEF Signal, TypeOK, VersionsCounted,
       loopVars, market, orders, view, riskGate, flags, settings
  <2>3. QED
    BY <1>1, <2>2, LoopUntouched DEF Signal
<1>2. ASSUME NEW r \in PublishedRisks, NEW open \in BOOLEAN, Publish(r, open) PROVE IInv'
  <2>1. params.version + 1 \in 0 .. MaxCommands /\ commands' \in 0 .. MaxCommands
    <3>1. commands \in Nat /\ params.version \in Nat
      BY NumberFacts, PositionFacts
    <3>2. QED
      BY <1>2, <3>1, BoundAssumption DEF Publish, VersionsCounted
  <2>2. params' \in [version : 0 .. MaxCommands, risk : Int, gateOpen : BOOLEAN]
    BY <1>2, <2>1, MoneyAssumption DEF Publish
  <2>3. TypeOK'
    BY <1>2, <2>1, <2>2 DEF Publish, TypeOK,
       loopVars, market, orders, view, riskGate, flags, settings
  <2>4. VersionsCounted'
    <3>1. params'.version = params.version + 1 /\ commands' = commands + 1
      BY <1>2 DEF Publish
    <3>2. commands \in Nat /\ params.version \in Nat
      BY NumberFacts, PositionFacts
    <3>3. QED
      BY <3>1, <3>2 DEF VersionsCounted
  <2>5. QED
    BY <1>2, <2>3, <2>4, LoopUntouched DEF Publish
<1>3. QED
  BY <1>1, <1>2 DEF Environment

----------------------------------------------------------------------------
(* The steps of the loop.                                                  *)

LEMMA NextTickStep ==
    ASSUME IInv, NEW p \in Prices, NEW c \in Costs, NextTick(p, c)
    PROVE  IInv'
<1> USE DEF IInv, NextTick, orders, view, riskGate, flags, settings, outside
<1>1. ticks + 1 \in 0 .. MaxTicks
  <2>1. ticks \in Nat
    BY NumberFacts
  <2>2. QED
    BY <2>1, BoundAssumption
<1>2. TypeOK'
  BY <1>1 DEF TypeOK
<1>3. CountersSinceEntry'
  <2>1. /\ pos.entryTick + longConfirm <= ticks
        /\ pos.entryTick + shortConfirm <= ticks
    BY DEF CountersSinceEntry, Counted, BeforeDrain
  <2>2. ticks \in Nat /\ Counted' = ticks
    BY NumberFacts DEF Counted, BeforeDrain
  <2>3. QED
    BY <2>1, <2>2 DEF CountersSinceEntry
<1>4. CountersTell' /\ VersionsCounted'
  BY DEF CountersTell, VersionsCounted
<1>5. Deciding' /\ HaltedFlat' /\ StopInHand' /\ Inside' /\ TargetBuffered' /\ AutoEntrySound'
  BY DEF Deciding, HaltedFlat, Halted, StopInHand, Inside, TargetBuffered, AutoEntrySound
<1>6. QED
  BY <1>2, <1>3, <1>4, <1>5

LEMMA EndOfFileStep == ASSUME IInv, EndOfFile PROVE IInv'
<1> USE DEF IInv, EndOfFile, market, orders, view, riskGate, flags, settings, outside
<1>1. TypeOK'
  BY DEF TypeOK
<1>2. CountersSinceEntry' /\ CountersTell' /\ VersionsCounted'
  BY DEF CountersSinceEntry, CountersTell, VersionsCounted, Counted, BeforeDrain
<1>3. Inside'
  BY DEF Inside, HitSl, HitTp, Mark
<1>4. Deciding' /\ HaltedFlat' /\ StopInHand' /\ TargetBuffered' /\ AutoEntrySound'
  BY DEF Deciding, HaltedFlat, Halted, StopInHand, TargetBuffered, AutoEntrySound
<1>5. QED
  BY <1>1, <1>2, <1>3, <1>4

(* What a close does to the account.                                       *)
LEMMA RecordTradeType ==
    ASSUME TypeOK, NEW pnl \in Int
    PROVE  /\ RecordTrade(pnl) \in
                [current : Int, peak : Int, realized : Int, start : StartEquities]
           /\ RecordTrade(pnl).current = account.current + pnl
<1> DEFINE equity == account.current + pnl
           peak == IF equity > account.peak THEN equity ELSE account.peak
<1>1. account \in [current : Int, peak : Int, realized : Int, start : StartEquities]
  BY DEF TypeOK
<1>2. equity \in Int /\ peak \in Int /\ account.realized + pnl \in Int
  BY <1>1
<1>3. RecordTrade(pnl) = [account EXCEPT !.current = equity, !.realized = @ + pnl,
                                         !.peak = peak]
  BY DEF RecordTrade
<1>4. QED
  BY <1>1, <1>2, <1>3

(* The profit is an integer, whatever the size of the position.            *)
LEMMA NetPnlType ==
    ASSUME TypeOK, NEW exit \in Int
    PROVE  NetPnl(exit) \in Int
<1>1. pos.entry \in Int /\ cost \in Int /\ pos.qty \in {0, 1}
  BY NumberFacts, PositionFacts
<1>2. (IF pos.long THEN exit - pos.entry ELSE pos.entry - exit) - cost \in Int
  BY <1>1
<1>3. QED
  BY <1>1, <1>2 DEF NetPnl

LEMMA ManageStep == ASSUME IInv, Manage PROVE IInv'
<1> USE DEF IInv
<1>1. Mark \in Int
  BY NumberFacts, MoneyAssumption DEF Mark
<1>2. account' \in [current : Int, peak : Int, realized : Int, start : StartEquities]
  BY <1>1, NetPnlType, RecordTradeType DEF Manage, TypeOK
<1>3. /\ pos' \in [open : BOOLEAN, long : BOOLEAN, entry : Int, sl : Int, tp : Int,
                    qty : {0, 1}, entryTick : 0 .. MaxTicks, entryCost : Costs,
                    manual : BOOLEAN, risk : Int]
      /\ pos'.open <=> pos.open /\ ~MustClose
      /\ pos'.entryTick = pos.entryTick /\ pos'.long = pos.long
      /\ pos'.sl = pos.sl /\ pos'.tp = pos.tp /\ pos'.entry = pos.entry
      /\ pos'.qty = pos.qty /\ pos'.entryCost = pos.entryCost /\ pos'.manual = pos.manual
  BY DEF Manage, TypeOK, MustClose
<1>4. TypeOK'
  <2>1. cliClose' \in BOOLEAN /\ pc' \in {"stopped", "buy"}
    BY DEF Manage, TypeOK
  <2>2. QED
    BY <1>2, <1>3, <2>1
       DEF Manage, TypeOK, market, orders, view, riskGate, settings, outside
<1>5. CountersSinceEntry'
  <2>1. /\ pos.entryTick + longConfirm <= ticks - 1
        /\ pos.entryTick + shortConfirm <= ticks - 1
        /\ ticks >= 1
    BY DEF Manage, CountersSinceEntry, Counted, BeforeDrain
  <2>2. Counted' \in {ticks - 1, ticks} /\ ticks \in Nat /\ pos.entryTick \in Nat
    BY NumberFacts, PositionFacts DEF Manage, market, Counted
  <2>3. /\ ticks' = ticks /\ pos'.entryTick = pos.entryTick
        /\ longConfirm' = longConfirm /\ shortConfirm' = shortConfirm
        /\ longConfirm \in Nat /\ shortConfirm \in Nat
    BY <1>3, NumberFacts DEF Manage, market, view
  <2>4. QED
    BY <2>1, <2>2, <2>3 DEF CountersSinceEntry
<1>6. CountersTell' /\ VersionsCounted' /\ Deciding' /\ StopInHand'
  BY DEF Manage, CountersTell, VersionsCounted, Deciding, StopInHand, view, outside
<1>7. HaltedFlat'
  BY <1>3 DEF Manage, HaltedFlat, Halted
<1>8. Inside'
  <2> SUFFICES ASSUME pos'.open PROVE (~HitSl /\ ~HitTp)'
    BY DEF Inside
  <2>1. ~HitSl /\ ~HitTp
    BY <1>3 DEF MustClose
  <2>2. bid' = bid
    BY DEF Manage, market
  <2>3. QED
    BY <1>3, <2>1, <2>2 DEF HitSl, HitTp, Mark
<1>9. TargetBuffered' /\ AutoEntrySound'
  BY <1>3 DEF TargetBuffered, AutoEntrySound
<1>10. QED
  BY <1>4, <1>5, <1>6, <1>7, <1>8, <1>9

LEMMA TakeBuyStep == ASSUME IInv, TakeBuy PROVE IInv'
<1> USE DEF IInv, TakeBuy, market, view, riskGate, settings, outside
<1>1. TypeOK'
  BY DEF TypeOK
<1>2. CountersSinceEntry' /\ CountersTell' /\ VersionsCounted'
  BY DEF CountersSinceEntry, CountersTell, VersionsCounted, Counted, BeforeDrain
<1>3. Inside'
  BY DEF Inside, HitSl, HitTp, Mark
<1>4. Deciding' /\ HaltedFlat' /\ StopInHand' /\ TargetBuffered' /\ AutoEntrySound'
  BY DEF Deciding, HaltedFlat, Halted, StopInHand, TargetBuffered, AutoEntrySound
<1>5. QED
  BY <1>1, <1>2, <1>3, <1>4

LEMMA TakeSellStep == ASSUME IInv, TakeSell PROVE IInv'
<1> USE DEF IInv, TakeSell, market, view, riskGate, settings, outside
<1>1. TypeOK'
  BY DEF TypeOK
<1>2. CountersSinceEntry' /\ CountersTell' /\ VersionsCounted'
  BY DEF CountersSinceEntry, CountersTell, VersionsCounted, Counted, BeforeDrain
<1>3. Inside'
  BY DEF Inside, HitSl, HitTp, Mark
<1>4. Deciding' /\ HaltedFlat' /\ StopInHand' /\ TargetBuffered' /\ AutoEntrySound'
  BY DEF Deciding, HaltedFlat, Halted, StopInHand, TargetBuffered, AutoEntrySound
<1>5. QED
  BY <1>1, <1>2, <1>3, <1>4

(* What a signal, or its absence, makes of the view.                       *)
LEMMA SignalTaken ==
    ASSUME TypeOK, Drain
    PROVE  algoConv' \in Convictions /\ atrStop' \in SignalSls \cup {FallbackSl}
<1>1. /\ signals \in Seq(SignalType) /\ algoConv \in Convictions
      /\ algoConv' = IF signals = <<>> THEN algoConv ELSE signals[1].conv
      /\ atrStop' = IF signals = <<>> \/ signals[1].stop = 0 THEN FallbackSl
                    ELSE signals[1].stop
  BY DEF Drain, TypeOK
<1>2. signals # <<>> => signals[1] \in SignalType
  BY <1>1
<1>3. signals # <<>> =>
         signals[1].conv \in Convictions /\ signals[1].stop \in SignalSls \cup {0}
  BY <1>2 DEF SignalType
<1>4. QED
  BY <1>1, <1>3

(* The history keeps the last Persist convictions, the newest at the end.  *)
LEMMA RecentFacts ==
    ASSUME TypeOK, Drain
    PROVE  /\ algoConv' \in Convictions
           /\ recent' \in Seq(Convictions) /\ Len(recent') \in 1 .. Persist
           /\ recent'[Len(recent')] = algoConv'
           /\ Len(recent) < Persist => Len(recent') = Len(recent) + 1
           /\ Len(recent) = Persist => Len(recent') = Persist
           /\ \A i \in 1 .. Len(recent') - 1 :
                 /\ i + Len(recent) - Len(recent') + 1 \in 1 .. Len(recent)
                 /\ recent'[i] = recent[i + Len(recent) - Len(recent') + 1]
<1> DEFINE r == Append(recent, algoConv')
<1>1. recent \in Seq(Convictions) /\ Len(recent) <= Persist /\ Len(recent) \in Nat
  BY DEF TypeOK
<1>2. algoConv' \in Convictions
  BY SignalTaken
<1>3. /\ r \in Seq(Convictions) /\ Len(r) = Len(recent) + 1
      /\ r[Len(recent) + 1] = algoConv'
      /\ \A i \in 1 .. Len(recent) : r[i] = recent[i]
  BY <1>1, <1>2
<1>4. recent' = IF Len(r) > Persist THEN Tail(r) ELSE r
  BY DEF Drain
<1> HIDE DEF r
<1>5. CASE Len(recent) < Persist
  <2>1. recent' = r
    BY <1>1, <1>3, <1>4, <1>5, PersistAssumption
  <2>2. QED
    BY <1>1, <1>2, <1>3, <1>5, <2>1, PersistAssumption
<1>6. CASE Len(recent) = Persist
  <2>1. recent' = Tail(r)
    BY <1>1, <1>3, <1>4, <1>6, PersistAssumption
  <2>2. /\ recent' \in Seq(Convictions) /\ Len(recent') = Persist
        /\ \A i \in 1 .. Persist : recent'[i] = r[i + 1]
    BY <1>1, <1>3, <1>6, <2>1, PersistAssumption
  <2>3. QED
    BY <1>1, <1>2, <1>3, <1>6, <2>2, PersistAssumption
<1>7. QED
  BY <1>1, <1>5, <1>6, PersistAssumption

LEMMA DrainStep == ASSUME IInv, Drain PROVE IInv'
<1> USE DEF IInv
<1>1. /\ algoConv' \in Convictions
      /\ recent' \in Seq(Convictions) /\ Len(recent') \in 1 .. Persist
  BY RecentFacts
<1>2. atrStop' \in SignalSls \cup {FallbackSl}
  BY SignalTaken
<1>3. /\ longConfirm \in Nat /\ shortConfirm \in Nat /\ ticks \in 0 .. MaxTicks
      /\ pos.entryTick \in Nat
  BY NumberFacts, PositionFacts DEF TypeOK
<1>4. /\ longConfirm' = IF algoConv' = 1 THEN longConfirm + 1 ELSE 0
      /\ shortConfirm' = IF algoConv' = -1 THEN shortConfirm + 1 ELSE 0
      /\ pc = "drain" /\ pc' = "sync" /\ ticks' = ticks /\ pos' = pos
  BY DEF Drain, market
<1>5. CountersSinceEntry'
  <2>1. /\ pos.entryTick + longConfirm <= ticks - 1
        /\ pos.entryTick + shortConfirm <= ticks - 1
    BY <1>4 DEF CountersSinceEntry, Counted, BeforeDrain
  <2>2. Counted' = ticks /\ ~BeforeDrain'
    BY <1>4 DEF Counted, BeforeDrain
  <2>3. QED
    BY <1>3, <1>4, <2>1, <2>2 DEF CountersSinceEntry
<1>6. longConfirm' \in 0 .. MaxTicks /\ shortConfirm' \in 0 .. MaxTicks
  <2>1. /\ pos.entryTick + longConfirm <= ticks - 1
        /\ pos.entryTick + shortConfirm <= ticks - 1
    BY <1>4 DEF CountersSinceEntry, Counted, BeforeDrain
  <2>2. QED
    BY <1>3, <1>4, <2>1, BoundAssumption
<1>7. TypeOK'
  <2>1. signals' \in Seq(SignalType) /\ Len(recent') <= Persist
    BY <1>1, PersistAssumption DEF Drain
  <2>2. QED
    BY <1>1, <1>2, <1>6, <2>1
       DEF Drain, TypeOK, market, orders, riskGate, flags, settings
<1>8. CountersTell'
  <2>1. Len(recent) \in Nat /\ Len(recent) <= Persist
    BY NumberFacts
  <2>2. /\ Len(recent') \in Nat /\ recent'[Len(recent')] = algoConv'
        /\ Len(recent) < Persist => Len(recent') = Len(recent) + 1
        /\ Len(recent) = Persist => Len(recent') = Persist
    BY RecentFacts
  <2>3. Len(recent') < Persist
          => longConfirm' <= Len(recent') /\ shortConfirm' <= Len(recent')
    BY <1>3, <1>4, <2>1, <2>2, PersistAssumption DEF CountersTell
  <2>4. ASSUME NEW i \in 1 .. Len(recent')
        PROVE  /\ Len(recent') - i < longConfirm' => recent'[i] = 1
               /\ Len(recent') - i < shortConfirm' => recent'[i] = -1
    <3>1. CASE i = Len(recent')
      BY <1>4, <2>2, <3>1
    <3>2. CASE i # Len(recent')
      <4> DEFINE j == i + Len(recent) - Len(recent') + 1
      <4>1. i \in 1 .. Len(recent') - 1
        BY <2>2, <2>4, <3>2
      <4>2. j \in 1 .. Len(recent) /\ recent'[i] = recent[j]
        BY <4>1, RecentFacts
      <4>3. Len(recent') - i - 1 = Len(recent) - j
        BY <2>1, <2>2, <4>1
      <4>4. /\ Len(recent) - j < longConfirm => recent[j] = 1
            /\ Len(recent) - j < shortConfirm => recent[j] = -1
        BY <4>2 DEF CountersTell
      <4> HIDE DEF j
      <4>5. j \in Int
        BY <4>2
      <4>6. /\ Len(recent') - i < longConfirm' => Len(recent) - j < longConfirm
            /\ Len(recent') - i < shortConfirm' => Len(recent) - j < shortConfirm
        BY <1>3, <1>4, <2>1, <2>2, <4>1, <4>3, <4>5
      <4>7. QED
        BY <4>2, <4>4, <4>6
    <3>3. QED
      BY <3>1, <3>2
  <2>5. QED
    BY <2>3, <2>4 DEF CountersTell
<1>9. VersionsCounted' /\ Inside' /\ HaltedFlat' /\ TargetBuffered' /\ AutoEntrySound'
  BY DEF Drain, market, VersionsCounted, Inside, HitSl, HitTp, Mark, HaltedFlat, Halted,
         TargetBuffered, AutoEntrySound
<1>10. Deciding' /\ StopInHand'
  BY <1>4 DEF Deciding, StopInHand
<1>11. QED
  BY <1>5, <1>7, <1>8, <1>9, <1>10

LEMMA NoTradeStep == ASSUME IInv, NoTrade PROVE IInv'
<1> USE DEF IInv, NoTrade, market, orders, view, riskGate, flags, settings, outside
<1>1. TypeOK'
  BY DEF TypeOK
<1>2. CountersSinceEntry' /\ CountersTell' /\ VersionsCounted'
  BY DEF CountersSinceEntry, CountersTell, VersionsCounted, Counted, BeforeDrain
<1>3. Inside'
  BY DEF Inside, HitSl, HitTp, Mark
<1>4. Deciding' /\ HaltedFlat' /\ StopInHand' /\ TargetBuffered' /\ AutoEntrySound'
  BY DEF Deciding, HaltedFlat, Halted, StopInHand, TargetBuffered, AutoEntrySound
<1>5. QED
  BY <1>1, <1>2, <1>3, <1>4

(* Counters that start over tell nothing and are not ahead of the entry.   *)
LEMMA CountersReset ==
    ASSUME TypeOK, ResetConfirm, pos'.entryTick \in 0 .. Counted', ~BeforeDrain'
    PROVE  CountersSinceEntry' /\ CountersTell'
<1>1. longConfirm' = 0 /\ shortConfirm' = 0 /\ recent' = recent
  BY DEF ResetConfirm
<1>2. Len(recent) \in Nat
  BY DEF TypeOK
<1>3. CountersTell'
  BY <1>1, <1>2 DEF CountersTell
<1>4. CountersSinceEntry'
  BY <1>1 DEF CountersSinceEntry
<1>5. QED
  BY <1>3, <1>4

(* From sync on no command is looked at, so the entry's reasons stay.      *)
LEMMA SyncStep == ASSUME IInv, Sync PROVE IInv'
<1> USE DEF IInv
<1>1. SyncedRisk \in Int
  <2>1. params.risk \in Int /\ cfgRisk \in Int /\ MaxRisk \in Int
    BY MoneyAssumption DEF TypeOK
  <2>2. QED
    BY <2>1 DEF SyncedRisk
<1>2. /\ pc' \in {"tick", "sl"} /\ longConfirm' \in {0, longConfirm}
      /\ shortConfirm' \in {0, shortConfirm}
      /\ algoConv' = algoConv /\ atrStop' = atrStop /\ recent' = recent
  BY DEF Sync, ResetConfirm, view
<1>3. TypeOK'
  <2>1. lastVersion' \in 0 .. MaxCommands
    <3>1. params.version \in 0 .. MaxCommands /\ lastVersion \in 0 .. MaxCommands
      BY DEF TypeOK
    <3>2. QED
      BY <3>1 DEF Sync
  <2>2. longConfirm' \in 0 .. MaxTicks /\ shortConfirm' \in 0 .. MaxTicks
    <3>1. longConfirm \in 0 .. MaxTicks /\ shortConfirm \in 0 .. MaxTicks
      BY DEF TypeOK
    <3>2. QED
      BY <1>2, <3>1, BoundAssumption
  <2>3. {cfgRisk', cliRisk'} \subseteq Int
    BY <1>1 DEF Sync
  <2>4. QED
    BY <1>2, <2>1, <2>2, <2>3 DEF Sync, TypeOK, market, orders, flags, outside
<1>4. CountersSinceEntry' /\ CountersTell'
  <2>1. /\ longConfirm' \in Nat /\ longConfirm' <= longConfirm
        /\ shortConfirm' \in Nat /\ shortConfirm' <= shortConfirm
        /\ longConfirm \in Nat /\ shortConfirm \in Nat
    BY <1>2, NumberFacts
  <2>2. pos.entryTick \in Nat /\ ticks \in Nat /\ Len(recent) \in Nat
    BY NumberFacts, PositionFacts
  <2>3. Counted' = ticks /\ Counted = ticks /\ ~BeforeDrain' /\ pos' = pos /\ ticks' = ticks
    BY <1>2 DEF Sync, Counted, BeforeDrain, market
  <2>4. CountersSinceEntry'
    BY <2>1, <2>2, <2>3 DEF CountersSinceEntry
  <2>5. CountersTell'
    BY <1>2, <2>1, <2>2 DEF CountersTell
  <2>6. QED
    BY <2>4, <2>5
<1>5. Deciding'
  <2>1. pc' = "sl" => CanTrade'
    BY DEF Sync, CanTrade, Halted, Manual, SigLong, SigShort, orders, view
  <2>2. QED
    BY <1>2, <2>1 DEF Deciding
<1>6. VersionsCounted' /\ Inside' /\ HaltedFlat' /\ StopInHand'
  BY <1>2 DEF Sync, market, outside, VersionsCounted, Inside, HitSl, HitTp, Mark,
              HaltedFlat, Halted, StopInHand
<1>7. TargetBuffered' /\ AutoEntrySound'
  BY DEF Sync, TargetBuffered, AutoEntrySound
<1>8. QED
  BY <1>3, <1>4, <1>5, <1>6, <1>7

(* The two loads change nothing but what is in hand.                       *)
LEMMA LoadStep ==
    ASSUME IInv, SeeSl \/ LoadSl
    PROVE  /\ CountersSinceEntry' /\ CountersTell' /\ VersionsCounted' /\ Deciding'
           /\ HaltedFlat' /\ Inside' /\ TargetBuffered' /\ AutoEntrySound'
<1> USE DEF IInv
<1>1. /\ pc \in {"sl", "tp"} /\ pc' \in {"tp", "size"}
      /\ UNCHANGED <<market, account, pos, orders, view, outside>>
  BY DEF SeeSl, LoadSl
<1> USE DEF market, orders, view, outside
<1>2. CountersSinceEntry' /\ CountersTell' /\ VersionsCounted'
  BY <1>1 DEF CountersSinceEntry, CountersTell, VersionsCounted, Counted, BeforeDrain
<1>3. Deciding' /\ HaltedFlat'
  BY <1>1 DEF Deciding, CanTrade, Halted, Manual, SigLong, SigShort, HaltedFlat
<1>4. Inside' /\ TargetBuffered' /\ AutoEntrySound'
  BY <1>1 DEF Inside, HitSl, HitTp, Mark, TargetBuffered, AutoEntrySound
<1>5. QED
  BY <1>2, <1>3, <1>4

LEMMA SeeSlStep == ASSUME IInv, SeeSl PROVE IInv'
<1> USE DEF IInv
<1>1. loaded' \in [sl : BOOLEAN, tp : BOOLEAN, slDist : Int]
  <2>1. loaded \in [sl : BOOLEAN, tp : BOOLEAN, slDist : Int]
    BY DEF TypeOK
  <2>2. (cliSl > 0) \in BOOLEAN
    OBVIOUS
  <2>3. loaded' = [loaded EXCEPT !.sl = cliSl > 0]
    BY DEF SeeSl
  <2>4. QED
    BY <2>1, <2>2, <2>3
<1>2. TypeOK'
  BY <1>1 DEF SeeSl, TypeOK, market, orders, view, flags, settings, outside
<1>3. StopInHand'
  BY DEF SeeSl, StopInHand
<1>4. QED
  BY <1>2, <1>3, LoadStep

LEMMA LoadSlStep == ASSUME IInv, LoadSl PROVE IInv'
<1> USE DEF IInv
<1>1. loaded \in [sl : BOOLEAN, tp : BOOLEAN, slDist : Int] /\ cliSl \in Overrides \cup {0}
      /\ atrStop \in SignalSls \cup {FallbackSl}
  BY DEF TypeOK
<1>2. loaded' \in [sl : BOOLEAN, tp : BOOLEAN, slDist : Int]
      /\ loaded'.slDist \in StopDistances
  <2>1. (IF loaded.sl THEN cliSl ELSE atrStop) \in StopDistances
    BY <1>1 DEF StopDistances
  <2>2. \A d \in StopDistances : d \in Int
    BY MoneyAssumption DEF StopDistances
  <2>3. (IF loaded.sl THEN cliSl ELSE atrStop) \in Int
    BY <2>1, <2>2
  <2>4. (cliTp > 0) \in BOOLEAN
    OBVIOUS
  <2>5. loaded' = [loaded EXCEPT !.slDist = IF loaded.sl THEN cliSl ELSE atrStop,
                                 !.tp = cliTp > 0]
    BY DEF LoadSl
  <2>6. QED
    BY <1>1, <2>1, <2>3, <2>4, <2>5
<1>3. TypeOK'
  BY <1>2 DEF LoadSl, TypeOK, market, orders, view, flags, settings, outside
<1>4. StopInHand'
  BY <1>2 DEF StopInHand, StopDistances
<1>5. QED
  BY <1>3, <1>4, LoadStep

(* An order sized zero has the hurdle of an empty position, which no       *)
(* target reaches.                                                         *)
LEMMA HurdleOutOfReach ==
    ASSUME TypeOK, loaded.slDist \in StopDistances
    PROVE  TpDistRaw \in Int /\ TpDistRaw < Hopeless
<1>1. \A d \in StopDistances : d \in Int /\ 2 * d < Hopeless
  BY MoneyAssumption, HurdleAssumption DEF StopDistances
<1>2. cliTp \in StopDistances
  BY DEF TypeOK, StopDistances
<1>3. Hopeless \in Nat
  BY MoneyAssumption
<1>4. /\ loaded.slDist \in Int /\ 2 * loaded.slDist < Hopeless
      /\ cliTp \in Int /\ 2 * cliTp < Hopeless
  BY <1>1, <1>2
<1>5. QED
  BY <1>3, <1>4 DEF TpDistRaw

(* The distance of the target covers one and a half times the hurdle.      *)
LEMMA TpDistFacts ==
    ASSUME TpDistRaw \in Int, NEW hurdle \in Nat
    PROVE  /\ TpDist(hurdle) \in Int
           /\ 2 * TpDist(hurdle) >= 3 * hurdle
           /\ TpDist(hurdle) >= TpDistRaw
<1>1. CASE 2 * TpDistRaw >= 3 * hurdle
  BY <1>1 DEF TpDist
<1>2. CASE ~(2 * TpDistRaw >= 3 * hurdle)
  <2> DEFINE up == (3 * hurdle + 1) \div 2
  <2>1. up \in Int /\ 2 * up >= 3 * hurdle
    OBVIOUS
  <2>2. TpDist(hurdle) = up
    BY <1>2 DEF TpDist
  <2> HIDE DEF up
  <2>3. QED
    BY <1>2, <2>1, <2>2
<1>3. QED
  BY <1>1, <1>2

(* What an entry makes of the position in hand.                            *)
Entered ==
    LET qty == PositionSize(loaded.slDist, cliRisk)
        entry == IF GoLong THEN bid + Spread ELSE bid
        dir == IF GoLong THEN 1 ELSE -1
    IN [open |-> TRUE, long |-> GoLong, entry |-> entry,
        sl |-> entry - dir * loaded.slDist,
        tp |-> entry + dir * TpDist(MinProfitPrice(qty)),
        qty |-> qty, entryTick |-> ticks, entryCost |-> cost,
        manual |-> Manual, risk |-> cliRisk]

LEMMA EnteredFacts ==
    ASSUME IInv, Size
    PROVE  /\ pos' = pos \/ pos' = Entered
           /\ Entered.open /\ Entered.entryTick = ticks /\ Entered.entryCost = cost
           /\ Entered.manual <=> Manual
           /\ Entered.long <=> GoLong
           /\ Entered \in [open : BOOLEAN, long : BOOLEAN, entry : Int, sl : Int, tp : Int,
                           qty : {0, 1}, entryTick : 0 .. MaxTicks, entryCost : Costs,
                           manual : BOOLEAN, risk : Int]
           /\ Entered.qty = 1 => loaded.slDist > 0
           /\ Entered.sl = IF GoLong THEN Entered.entry - loaded.slDist
                                     ELSE Entered.entry + loaded.slDist
           /\ LET dist == TpDist(MinProfitPrice(Entered.qty))
              IN /\ dist \in Int
                 /\ Entered.tp = IF GoLong THEN Entered.entry + dist ELSE Entered.entry - dist
                 /\ Entered.qty = 1 => 2 * dist >= 3 * cost
                 /\ pos' = Entered /\ ~Manual => Entered.qty = 1
<1> DEFINE qty == PositionSize(loaded.slDist, cliRisk)
           dist == TpDist(MinProfitPrice(qty))
           entry == IF GoLong THEN bid + Spread ELSE bid
<1>1. /\ bid \in Nat /\ cost \in Nat /\ cost \in Costs /\ ticks \in 0 .. MaxTicks
      /\ cliRisk \in Int /\ cliTp \in Int
  BY NumberFacts DEF IInv, TypeOK
<1>2. loaded.slDist \in StopDistances /\ loaded.slDist \in Int
  BY DEF IInv, StopInHand, Size, TypeOK
<1>3. TpDistRaw \in Int /\ TpDistRaw < Hopeless
  BY <1>2, HurdleOutOfReach DEF IInv
<1>4. qty \in {0, 1} /\ (qty = 1 => loaded.slDist > 0)
  BY <1>1, <1>2 DEF PositionSize
<1>5. MinProfitPrice(qty) \in Nat /\ (qty = 1 => MinProfitPrice(qty) = cost)
      /\ (qty = 0 => MinProfitPrice(qty) = Hopeless)
  BY <1>1, <1>4, MoneyAssumption DEF MinProfitPrice
<1>6. dist \in Int /\ 2 * dist >= 3 * MinProfitPrice(qty)
  BY <1>3, <1>5, TpDistFacts
<1>7. GoLong \in BOOLEAN /\ Manual \in BOOLEAN
  BY DEF GoLong, Manual, SigLong, IInv, TypeOK
<1>8. entry \in Int
  BY <1>1, MoneyAssumption
<1>9. Entered = [open |-> TRUE, long |-> GoLong, entry |-> entry,
                 sl |-> entry - (IF GoLong THEN 1 ELSE -1) * loaded.slDist,
                 tp |-> entry + (IF GoLong THEN 1 ELSE -1) * dist,
                 qty |-> qty, entryTick |-> ticks, entryCost |-> cost,
                 manual |-> Manual, risk |-> cliRisk]
  BY DEF Entered
<1>10. pos' = IF ~Manual /\ TpDistRaw < MinProfitPrice(qty) THEN pos ELSE Entered
  BY <1>9 DEF Size
<1> HIDE DEF qty, dist, entry
<1>11. /\ entry - (IF GoLong THEN 1 ELSE -1) * loaded.slDist
             = IF GoLong THEN entry - loaded.slDist ELSE entry + loaded.slDist
       /\ entry + (IF GoLong THEN 1 ELSE -1) * dist
             = IF GoLong THEN entry + dist ELSE entry - dist
  BY <1>2, <1>6, <1>7, <1>8
<1>12. /\ Entered.open /\ Entered.entryTick = ticks /\ Entered.entryCost = cost
       /\ Entered.manual = Manual /\ Entered.long = GoLong /\ Entered.qty = qty
       /\ Entered.entry = entry
       /\ Entered.sl = IF GoLong THEN entry - loaded.slDist ELSE entry + loaded.slDist
       /\ Entered.tp = IF GoLong THEN entry + dist ELSE entry - dist
  BY <1>9, <1>11
<1>13. /\ (IF GoLong THEN entry - loaded.slDist ELSE entry + loaded.slDist) \in Int
       /\ (IF GoLong THEN entry + dist ELSE entry - dist) \in Int
  BY <1>2, <1>6, <1>8
<1>14. Entered \in [open : BOOLEAN, long : BOOLEAN, entry : Int, sl : Int, tp : Int,
                    qty : {0, 1}, entryTick : 0 .. MaxTicks, entryCost : Costs,
                    manual : BOOLEAN, risk : Int]
  BY <1>1, <1>4, <1>7, <1>8, <1>9, <1>11, <1>13
<1>15. dist = TpDist(MinProfitPrice(Entered.qty))
  BY <1>12 DEF dist
<1>16. qty = 1 => 2 * dist >= 3 * cost
  BY <1>5, <1>6
<1>17. pos' = Entered /\ ~Manual => qty = 1
  <2> SUFFICES ASSUME pos' = Entered, ~Manual, qty = 0 PROVE FALSE
    BY <1>4
  <2>1. TpDistRaw < MinProfitPrice(qty)
    BY <1>3, <1>5
  <2>2. pos' = pos
    BY <1>10, <2>1
  <2>3. ~pos.open
    BY DEF IInv, Deciding, Size, CanTrade
  <2>4. QED
    BY <1>12, <2>2, <2>3
<1>18. QED
  BY <1>4, <1>6, <1>10, <1>12, <1>13, <1>14, <1>15, <1>16, <1>17

(* The entry: what was decided still holds, and what is opened is sound.   *)
LEMMA SizeStep == ASSUME IInv, Size PROVE IInv'
<1> USE DEF IInv
<1>1. /\ pc' = "tick" /\ loaded' = NotLoaded /\ ResetConfirm
      /\ UNCHANGED <<market, account, orders, lastVersion, cfgRisk, flags, settings, outside>>
  BY DEF Size
<1>2. ~pos.open /\ ~Halted
  BY DEF Deciding, Size, CanTrade
<1>3. pos' = pos \/ pos' = Entered
  BY EnteredFacts
<1>4. pos' \in [open : BOOLEAN, long : BOOLEAN, entry : Int, sl : Int, tp : Int,
                qty : {0, 1}, entryTick : 0 .. MaxTicks, entryCost : Costs,
                manual : BOOLEAN, risk : Int]
  BY <1>3, EnteredFacts DEF TypeOK
<1>5. TypeOK'
  <2>1. loaded' \in [sl : BOOLEAN, tp : BOOLEAN, slDist : Int]
    BY <1>1 DEF NotLoaded
  <2>2. longConfirm' \in 0 .. MaxTicks /\ shortConfirm' \in 0 .. MaxTicks
    BY <1>1, BoundAssumption DEF ResetConfirm
  <2>3. QED
    BY <1>1, <1>4, <2>1, <2>2
       DEF TypeOK, ResetConfirm, market, orders, flags, settings, outside
<1>6. CountersSinceEntry' /\ CountersTell'
  <2>1. Counted' = ticks /\ ~BeforeDrain'
    BY <1>1 DEF Counted, BeforeDrain, market
  <2>2. pos.entryTick \in 0 .. ticks
    <3>1. /\ pos.entryTick + longConfirm <= ticks
          /\ pos.entryTick \in Nat /\ longConfirm \in Nat /\ ticks \in Nat
      BY NumberFacts, PositionFacts DEF CountersSinceEntry, Counted, BeforeDrain, Size
    <3>2. QED
      BY <3>1
  <2>3. pos'.entryTick \in 0 .. ticks
    <3>1. ticks \in Nat
      BY NumberFacts
    <3>2. pos'.entryTick \in {pos.entryTick, ticks}
      BY <1>3, EnteredFacts
    <3>3. QED
      BY <2>2, <3>1, <3>2
  <2>4. QED
    BY <1>1, <2>1, <2>3, CountersReset
<1>7. VersionsCounted' /\ Deciding' /\ StopInHand'
  BY <1>1 DEF VersionsCounted, Deciding, StopInHand, outside
<1>8. HaltedFlat'
  BY <1>1, <1>2 DEF HaltedFlat, Halted
<1>9. Inside'
  <2> SUFFICES ASSUME pos'.open, pos'.entryTick < ticks PROVE FALSE
    BY <1>1 DEF Inside, market
  <2>1. pos'.entryTick = ticks /\ ticks \in Nat
    BY <1>2, <1>3, EnteredFacts, NumberFacts
  <2>2. QED
    BY <2>1
<1>10. TargetBuffered' /\ AutoEntrySound'
  <2>1. CASE pos' = pos
    BY <1>2, <2>1 DEF TargetBuffered, AutoEntrySound
  <2>2. CASE pos' = Entered
    <3> DEFINE dist == TpDist(MinProfitPrice(Entered.qty))
    <3>1. /\ dist \in Int
          /\ Entered.tp = IF GoLong THEN Entered.entry + dist ELSE Entered.entry - dist
          /\ Entered.qty = 1 => 2 * dist >= 3 * cost
          /\ Entered.entryCost = cost
      BY EnteredFacts
    <3>2. Entered.entry \in Int /\ Entered.long = GoLong
      <4>1. /\ Entered.long <=> GoLong
            /\ Entered \in [open : BOOLEAN, long : BOOLEAN, entry : Int, sl : Int, tp : Int,
                            qty : {0, 1}, entryTick : 0 .. MaxTicks, entryCost : Costs,
                            manual : BOOLEAN, risk : Int]
        BY EnteredFacts
      <4>2. GoLong \in BOOLEAN
        BY DEF GoLong, SigLong, TypeOK
      <4>3. QED
        BY <4>1, <4>2
    <3>3. /\ ~Entered.manual => Entered.qty = 1
          /\ Entered.qty = 1 => loaded.slDist > 0
          /\ Entered.sl = IF GoLong THEN Entered.entry - loaded.slDist
                                    ELSE Entered.entry + loaded.slDist
      BY <2>2, EnteredFacts
    <3>4. loaded.slDist \in Int /\ cost \in Nat /\ cost >= 1
      BY NumberFacts DEF TypeOK
    <3> HIDE DEF dist
    <3>5. TargetBuffered'
      <4> SUFFICES ASSUME Entered.qty = 1
                   PROVE  2 * (IF GoLong THEN Entered.tp - Entered.entry
                                         ELSE Entered.entry - Entered.tp) >= 3 * cost
        BY <2>2, <3>1, <3>2 DEF TargetBuffered
      <4>1. QED
        BY <3>1, <3>4, <3>2
    <3>6. AutoEntrySound'
      <4> SUFFICES ASSUME ~Entered.manual
                   PROVE  /\ Entered.qty > 0
                          /\ IF GoLong
                               THEN Entered.sl < Entered.entry /\ Entered.entry < Entered.tp
                               ELSE Entered.tp < Entered.entry /\ Entered.entry < Entered.sl
        BY <2>2, <3>2 DEF AutoEntrySound
      <4>1. Entered.qty = 1 /\ dist >= 1 /\ loaded.slDist > 0
        BY <3>1, <3>3, <3>4
      <4>2. QED
        BY <3>1, <3>3, <3>4, <3>2, <4>1
    <3>7. QED
      BY <3>5, <3>6
  <2>3. QED
    BY <1>3, <2>1, <2>2
<1>11. QED
  BY <1>5, <1>6, <1>7, <1>8, <1>9, <1>10

----------------------------------------------------------------------------
LEMMA NextIInv == IInv /\ [Next]_vars => IInv'
<1> SUFFICES ASSUME IInv, [Next]_vars PROVE IInv'
  OBVIOUS
<1>1. CASE Tick
  BY <1>1, NextTickStep DEF Tick
<1>2. CASE EndOfFile
  BY <1>2, EndOfFileStep
<1>3. CASE Body
  BY <1>3, ManageStep, TakeBuyStep, TakeSellStep, DrainStep, NoTradeStep, SyncStep,
     SeeSlStep, LoadSlStep, SizeStep DEF Body
<1>4. CASE Cli
  BY <1>4, CliStep
<1>5. CASE Environment
  BY <1>5, EnvironmentStep
<1>6. CASE UNCHANGED vars
  <2>1. TypeOK' /\ VersionsCounted'
    BY <1>6 DEF IInv, TypeOK, VersionsCounted, vars, loopVars, market, orders, view,
                riskGate, flags, settings, outside
  <2>2. QED
    BY <1>6, <2>1, LoopUntouched DEF IInv, vars
<1>7. QED
  BY <1>1, <1>2, <1>3, <1>4, <1>5, <1>6 DEF Next

LEMMA Inductive == Spec => []IInv
BY InitIInv, NextIInv, PTL DEF Spec

(* Every variable of the loop stays in its range, whatever is typed,       *)
(* published or signalled between its steps.                               *)
THEOREM TypeCorrect == Spec => []TypeOK
<1>1. IInv => TypeOK
  BY DEF IInv
<1>2. QED
  BY <1>1, Inductive, PTL

(* A position held while the loop waits for the next tick is strictly      *)
(* between its stop and its target, unless it was opened at this tick.     *)
THEOREM HeldInside == Spec => []HeldInsideBracket
<1>1. IInv => HeldInsideBracket
  <2> SUFFICES ASSUME IInv, pc = "tick", pos.open, pos.entryTick < ticks
               PROVE  IF pos.long THEN pos.sl < bid /\ bid < pos.tp
                                  ELSE pos.tp < bid + Spread /\ bid + Spread < pos.sl
    BY DEF HeldInsideBracket
  <2>1. ~HitSl /\ ~HitTp
    BY DEF IInv, Inside
  <2>2. /\ pos.sl \in Int /\ pos.tp \in Int /\ bid \in Int /\ bid + Spread \in Int
    BY NumberFacts, PositionFacts, MoneyAssumption DEF IInv
  <2>3. QED
    BY <2>1, <2>2 DEF HitSl, HitTp, Mark
<1>2. QED
  BY <1>1, Inductive, PTL

(* No automatic entry is empty or has a bracket on the wrong side, also    *)
(* when the operator clears an override between its two loads.             *)
THEOREM AutoEntriesSound == Spec => []AutoEntrySound
<1>1. IInv => AutoEntrySound
  BY DEF IInv
<1>2. QED
  BY <1>1, Inductive, PTL

(* Managing the position at most closes it.                                *)
LEMMA ManageCloses ==
    ASSUME TypeOK, Manage
    PROVE  pos'.open <=> pos.open /\ ~MustClose
BY DEF Manage, TypeOK, MustClose

(* A position opens only in Size, and then none was open and the breaker   *)
(* had not tripped.                                                        *)
LEMMA OnlySizeOpens ==
    ASSUME IInv, [Next]_vars, Opens
    PROVE  Size /\ ~Halted /\ CanTrade
<1>1. ASSUME UNCHANGED pos PROVE FALSE
  BY <1>1 DEF Opens
<1>2. CASE Size
  BY <1>2 DEF IInv, Deciding, Size, CanTrade
<1>3. CASE Manage
  BY <1>3, ManageCloses DEF IInv, Opens
<1>4. CASE Tick \/ EndOfFile \/ TakeBuy \/ TakeSell \/ Drain \/ NoTrade \/ Sync
             \/ SeeSl \/ LoadSl
  BY <1>1, <1>4 DEF Tick, NextTick, EndOfFile, TakeBuy, TakeSell, Drain, NoTrade, Sync,
                    SeeSl, LoadSl
<1>5. CASE Cli \/ Environment
  BY <1>1, <1>5 DEF Cli, Typing, CliClose, CliBuy, CliSell, CliSl, CliTp, CliRisk,
                    Environment, Signal, Publish, loopVars
<1>6. CASE UNCHANGED vars
  BY <1>1, <1>6 DEF vars, loopVars
<1>7. QED
  BY <1>2, <1>3, <1>4, <1>5, <1>6 DEF Next, Body

(* The account changes, and a position closes, only in Manage, when one is *)
(* open.                                                                   *)
LEMMA OnlyManageTrades ==
    ASSUME IInv, [Next]_vars, account' # account \/ Closes
    PROVE  Manage /\ MustClose
<1>1. ASSUME UNCHANGED <<account, pos>> PROVE FALSE
  BY <1>1 DEF Closes
<1>2. CASE Manage
  BY <1>2, ManageCloses DEF IInv, Manage, Closes
<1>3. CASE Size
  <2>1. account' = account
    BY <1>3 DEF Size
  <2>2. ~pos.open
    BY <1>3 DEF IInv, Deciding, Size, CanTrade
  <2>3. QED
    BY <2>1, <2>2 DEF Closes
<1>4. CASE Tick \/ EndOfFile \/ TakeBuy \/ TakeSell \/ Drain \/ NoTrade \/ Sync
             \/ SeeSl \/ LoadSl
  BY <1>1, <1>4 DEF Tick, NextTick, EndOfFile, TakeBuy, TakeSell, Drain, NoTrade, Sync,
                    SeeSl, LoadSl
<1>5. CASE Cli \/ Environment
  BY <1>1, <1>5 DEF Cli, Typing, CliClose, CliBuy, CliSell, CliSl, CliTp, CliRisk,
                    Environment, Signal, Publish, loopVars
<1>6. CASE UNCHANGED vars
  BY <1>1, <1>6 DEF vars, loopVars
<1>7. QED
  BY <1>2, <1>3, <1>4, <1>5, <1>6 DEF Next, Body

(* Once equity is at or under the circuit breaker no position opens and    *)
(* the account stands still.                                               *)
THEOREM HaltPermanent == Spec => HaltIsPermanent
<1>1. IInv /\ [Next]_vars => [Halted => ~Opens /\ account' = account]_vars
  <2> SUFFICES ASSUME IInv, [Next]_vars, Halted PROVE ~Opens /\ account' = account
    OBVIOUS
  <2>1. ~Opens
    BY OnlySizeOpens
  <2>2. account' = account
    BY OnlyManageTrades DEF IInv, HaltedFlat, MustClose
  <2>3. QED
    BY <2>1, <2>2
<1>2. QED
  BY <1>1, Inductive, PTL DEF Spec, HaltIsPermanent

(* A close at the target does not lose money while costs stay within the   *)
(* buffer of the entry.                                                    *)
THEOREM TargetsPay == Spec => TakeProfitPays
<1>1. IInv /\ [Next]_vars
        => [(Closes /\ TargetReached /\ 2 * cost <= 3 * pos.entryCost)
               => account'.current >= account.current]_vars
  <2> SUFFICES ASSUME IInv, [Next]_vars, Closes, TargetReached,
                      2 * cost <= 3 * pos.entryCost
               PROVE  account'.current >= account.current
    OBVIOUS
  <2>1. Manage /\ MustClose
    BY OnlyManageTrades
  <2>2. Mark \in Int
    BY NumberFacts, MoneyAssumption DEF Mark, IInv
  <2>3. NetPnl(Mark) \in Int /\ account.current \in Int
    BY <2>2, NetPnlType DEF IInv, TypeOK
  <2>4. account'.current = account.current + NetPnl(Mark)
    BY <2>1, <2>3, RecordTradeType DEF Manage, IInv
  <2>5. NetPnl(Mark) >= 0
    <3> DEFINE gain == IF pos.long THEN Mark - pos.entry ELSE pos.entry - Mark
    <3>1. /\ pos.entry \in Int /\ pos.tp \in Int /\ pos.qty \in {0, 1}
          /\ pos.entryCost \in Nat /\ cost \in Nat
      BY NumberFacts, PositionFacts DEF IInv
    <3>2. IF pos.long THEN Mark >= pos.tp ELSE Mark <= pos.tp
      BY DEF TargetReached, Mark
    <3>3. NetPnl(Mark) = (gain - cost) * pos.qty /\ gain \in Int
      BY <2>2, <3>1 DEF NetPnl
    <3>4. CASE pos.qty = 0
      BY <3>1, <3>3, <3>4
    <3>5. CASE pos.qty = 1
      <4>1. 2 * (IF pos.long THEN pos.tp - pos.entry ELSE pos.entry - pos.tp)
               >= 3 * pos.entryCost
        BY <2>1, <3>5 DEF IInv, TargetBuffered, MustClose
      <4>2. gain >= cost
        BY <2>2, <3>1, <3>2, <4>1
      <4> HIDE DEF gain
      <4>3. QED
        BY <3>1, <3>3, <3>5, <4>2
    <3>6. QED
      BY <3>1, <3>4, <3>5
  <2>6. QED
    BY <2>3, <2>4, <2>5
<1>2. QED
  BY <1>1, Inductive, PTL DEF Spec, TakeProfitPays

(* An automatic entry follows Persist ticks of conviction its way, all     *)
(* later than the previous entry.                                          *)
THEOREM EntriesConfirmed == Spec => AutoEntryConfirmed
<1> DEFINE Confirmed ==
      /\ Len(recent) = Persist
      /\ \A i \in 1 .. Persist : recent[i] = IF pos'.long THEN 1 ELSE -1
      /\ pos.entryTick = 0 \/ ticks - pos.entryTick >= Persist
<1>1. IInv /\ [Next]_vars => [(Opens /\ ~pos'.manual) => Confirmed]_vars
  <2> SUFFICES ASSUME IInv, [Next]_vars, Opens, ~pos'.manual PROVE Confirmed
    OBVIOUS
  <2>1. Size /\ CanTrade
    BY OnlySizeOpens
  <2>2. pos' = Entered
    BY <2>1, EnteredFacts DEF Opens
  <2>3. ~Manual /\ (pos'.long <=> SigLong)
    <3>1. ~Manual /\ (pos'.long <=> GoLong)
      BY <2>1, <2>2, EnteredFacts
    <3>2. QED
      BY <3>1 DEF Manual, GoLong
  <2>4. IF pos'.long THEN longConfirm >= Persist ELSE shortConfirm >= Persist
    BY <2>1, <2>3 DEF CanTrade, SigLong, SigShort
  <2>5. /\ Len(recent) \in Nat /\ Len(recent) <= Persist /\ Persist \in Nat
        /\ longConfirm \in Nat /\ shortConfirm \in Nat /\ ticks \in Nat
        /\ pos.entryTick \in Nat
    BY NumberFacts, PositionFacts, PersistAssumption DEF IInv
  <2>6. Len(recent) = Persist
    BY <2>4, <2>5 DEF IInv, CountersTell
  <2>7. ASSUME NEW i \in 1 .. Persist PROVE recent[i] = IF pos'.long THEN 1 ELSE -1
    <3>1. /\ Len(recent) - i < longConfirm => recent[i] = 1
          /\ Len(recent) - i < shortConfirm => recent[i] = -1
      BY <2>6, <2>7 DEF IInv, CountersTell
    <3>2. QED
      BY <2>4, <2>5, <2>6, <2>7, <3>1
  <2>8. ticks - pos.entryTick >= Persist
    <3>1. pos.entryTick + longConfirm <= ticks /\ pos.entryTick + shortConfirm <= ticks
      BY <2>1 DEF IInv, CountersSinceEntry, Counted, BeforeDrain, Size
    <3>2. QED
      BY <2>4, <2>5, <3>1
  <2>9. QED
    BY <2>6, <2>7, <2>8
<1>2. QED
  BY <1>1, Inductive, PTL DEF Spec, AutoEntryConfirmed
=============================================================================
