------------------------- MODULE SharedMemoryProofs -------------------------
(***************************************************************************)
(* Proofs about the two blocks the engine shares with other processes.     *)
(*                                                                         *)
(* TickShm, for every set of fields and every number of ticks: the type    *)
(* invariant, WholeUnlessOvertaken and EveryReturnIsNews.                  *)
(* WholeUnlessOvertaken speaks of the copy only.  It rests on what the     *)
(* shared fields hold (FieldsHold): between two ticks the published one,   *)
(* during one its number exactly where it has been written.  The news of a *)
(* return rests on where the three numbers of the reader stand (Numbers).  *)
(*                                                                         *)
(* ParamShm, for every set of fields and every number of publications: the *)
(* type invariant, RiskNotOlder and GateNearRisk, which speak of the       *)
(* engine's copies.  They rest on the shared block: a version that was not *)
(* begun before the engine was up is backed by values at least as new      *)
(* (ValuesBack), because the publisher stores them first and nobody wipes  *)
(* them any more; and no value is more than one publication behind another *)
(* (Spread), because a publication stores all of them before the next one  *)
(* begins.                                                                 *)
(***************************************************************************)
EXTENDS TickShm, ParamShm, TLAPS

(* A tick is being filled in within the bound, and only then.              *)
Filling == (writing => seq < MaxTick) /\ (~writing => toFill = {})

FieldsHold ==
    \A f \in TickFields : payload[f] = IF writing /\ f \notin toFill THEN seq + 1 ELSE seq

(* Between calls the last number taken is the one returned; during a call  *)
(* it is remembered, and a number is passed on only if it is larger.       *)
Numbers ==
    /\ lastSeq <= seq
    /\ rpc = "engine" => delivered = lastSeq
    /\ rpc # "engine" => delivered = currentSeq /\ currentSeq <= lastSeq
    /\ rpc \in {"magic", "copy"} => currentSeq < lastSeq

TickIInv == TickTypeOK /\ Filling /\ FieldsHold /\ Numbers /\ WholeUnlessOvertaken

----------------------------------------------------------------------------
LEMMA TickInitIInv == TickInit => TickIInv
<1> SUFFICES ASSUME TickInit PROVE TickIInv
  OBVIOUS
<1>1. 0 \in 0 .. MaxTick
  BY MaxTickAssumption
<1>2. TickTypeOK
  BY <1>1 DEF TickInit, TickTypeOK
<1>3. QED
  BY <1>2 DEF TickInit, TickIInv, Filling, FieldsHold, Numbers, WholeUnlessOvertaken

(* The feed's steps.                                                       *)
LEMMA FeedBeginStep == ASSUME TickIInv, NEW ok \in BOOLEAN, FeedBegin(ok) PROVE TickIInv'
<1> USE DEF TickIInv, FeedBegin, readerVars
<1>1. TickTypeOK'
  BY DEF TickTypeOK
<1>2. Filling' /\ Numbers'
  BY DEF Filling, Numbers
<1>3. FieldsHold'
  BY DEF FieldsHold
<1>4. WholeUnlessOvertaken'
  BY DEF WholeUnlessOvertaken
<1>5. QED
  BY <1>1, <1>2, <1>3, <1>4

LEMMA FeedFieldStep == ASSUME TickIInv, NEW g \in TickFields, FeedField(g) PROVE TickIInv'
<1> USE DEF TickIInv, FeedField, readerVars
<1>1. seq + 1 \in 0 .. MaxTick
  BY MaxTickAssumption DEF TickTypeOK, Filling
<1>2. \A f \in TickFields : payload'[f] = IF f = g THEN seq + 1 ELSE payload[f]
  BY DEF TickTypeOK
<1>3. TickTypeOK'
  BY <1>1 DEF TickTypeOK
<1>4. Filling' /\ Numbers'
  BY DEF Filling, Numbers
<1>5. FieldsHold'
  BY <1>2 DEF FieldsHold
<1>6. WholeUnlessOvertaken'
  BY DEF WholeUnlessOvertaken
<1>7. QED
  BY <1>3, <1>4, <1>5, <1>6

LEMMA FeedPublishStep == ASSUME TickIInv, FeedPublish PROVE TickIInv'
<1> USE DEF TickIInv, FeedPublish, readerVars
<1>1. seq + 1 \in 0 .. MaxTick
  BY MaxTickAssumption DEF TickTypeOK, Filling
<1>2. TickTypeOK'
  BY <1>1 DEF TickTypeOK
<1>3. Filling' /\ Numbers'
  BY MaxTickAssumption DEF Filling, Numbers, TickTypeOK
<1>4. FieldsHold'
  BY DEF FieldsHold
<1>5. seq' # lastSeq'
  BY MaxTickAssumption DEF Numbers, TickTypeOK
<1>6. WholeUnlessOvertaken'
  BY <1>5 DEF WholeUnlessOvertaken
<1>7. QED
  BY <1>2, <1>3, <1>4, <1>6

(* The reader's steps: none of them touches what the feed wrote.           *)
LEMMA FeedUntouched ==
    ASSUME TickIInv, UNCHANGED feedVars
    PROVE  Filling' /\ FieldsHold'
  BY DEF TickIInv, feedVars, Filling, FieldsHold

LEMMA CallStep == ASSUME TickIInv, Call PROVE TickIInv'
<1> USE DEF TickIInv, Call
<1>1. Filling' /\ FieldsHold'
  BY FeedUntouched
<1>2. TickTypeOK'
  BY DEF TickTypeOK, feedVars
<1>3. Numbers'
  BY MaxTickAssumption DEF Numbers, TickTypeOK, feedVars
<1>4. WholeUnlessOvertaken'
  BY DEF WholeUnlessOvertaken
<1>5. QED
  BY <1>1, <1>2, <1>3, <1>4

LEMMA SpinStep == ASSUME TickIInv, Spin PROVE TickIInv'
<1> USE DEF TickIInv, Spin
<1>1. Filling' /\ FieldsHold'
  BY FeedUntouched
<1>2. PICK s \in lastSeq .. seq :
          IF s > currentSeq THEN lastSeq' = s /\ rpc' = "magic"
                            ELSE UNCHANGED <<lastSeq, rpc>>
  OBVIOUS
<1>3. s \in 0 .. MaxTick /\ lastSeq <= s /\ s <= seq
  BY MaxTickAssumption DEF TickTypeOK
<1>4. TickTypeOK'
  BY <1>2, <1>3 DEF TickTypeOK, feedVars
<1>5. Numbers'
  BY <1>2, <1>3, MaxTickAssumption DEF Numbers, TickTypeOK, feedVars
<1>6. rpc' # "copy"
  BY <1>2
<1>7. QED
  BY <1>1, <1>4, <1>5, <1>6 DEF WholeUnlessOvertaken

LEMMA CheckMagicStep == ASSUME TickIInv, CheckMagic PROVE TickIInv'
<1> USE DEF TickIInv, CheckMagic
<1>1. Filling' /\ FieldsHold'
  BY FeedUntouched
<1>2. TickTypeOK'
  BY DEF TickTypeOK, feedVars
<1>3. Numbers'
  BY DEF Numbers, feedVars
<1>4. WholeUnlessOvertaken'
  BY DEF WholeUnlessOvertaken, feedVars
<1>5. QED
  BY <1>1, <1>2, <1>3, <1>4

LEMMA CopyFieldStep == ASSUME TickIInv, NEW g \in TickFields, CopyField(g) PROVE TickIInv'
<1> USE DEF TickIInv, CopyField
<1>1. Filling' /\ FieldsHold'
  BY FeedUntouched
<1>2. \A f \in TickFields : tick'[f] = IF f = g THEN payload[g] ELSE tick[f]
  BY DEF TickTypeOK
<1>3. TickTypeOK'
  BY DEF TickTypeOK, feedVars
<1>4. Numbers'
  BY DEF Numbers, feedVars
<1>5. WholeUnlessOvertaken'
  <2> SUFFICES ASSUME seq = lastSeq, ~writing
               PROVE  header /\ \A f \in TickFields \ toRead' : tick'[f] = lastSeq
    BY DEF WholeUnlessOvertaken, feedVars
  <2>1. payload[g] = lastSeq
    BY DEF FieldsHold
  <2>2. QED
    BY <1>2, <2>1 DEF WholeUnlessOvertaken
<1>6. QED
  BY <1>1, <1>3, <1>4, <1>5

LEMMA ReturnStep == ASSUME TickIInv, Return PROVE TickIInv'
<1> USE DEF TickIInv, Return
<1>1. Filling' /\ FieldsHold'
  BY FeedUntouched
<1>2. TickTypeOK'
  BY DEF TickTypeOK, feedVars
<1>3. Numbers'
  BY DEF Numbers, feedVars
<1>4. WholeUnlessOvertaken'
  BY DEF WholeUnlessOvertaken
<1>5. QED
  BY <1>1, <1>2, <1>3, <1>4

LEMMA TickNextIInv == TickIInv /\ [TickNext]_tickVars => TickIInv'
<1> SUFFICES ASSUME TickIInv, [TickNext]_tickVars PROVE TickIInv'
  OBVIOUS
<1>1. ASSUME NEW ok \in BOOLEAN, FeedBegin(ok) PROVE TickIInv'
  BY <1>1, FeedBeginStep
<1>2. ASSUME NEW f \in TickFields, FeedField(f) PROVE TickIInv'
  BY <1>2, FeedFieldStep
<1>3. ASSUME NEW f \in TickFields, CopyField(f) PROVE TickIInv'
  BY <1>3, CopyFieldStep
<1>4. CASE UNCHANGED tickVars
  BY <1>4 DEF tickVars, feedVars, readerVars, TickIInv, TickTypeOK, Filling,
     FieldsHold, Numbers, WholeUnlessOvertaken
<1>5. QED
  BY <1>1, <1>2, <1>3, <1>4, FeedPublishStep, CallStep, SpinStep, CheckMagicStep,
     ReturnStep DEF TickNext, Feed, Reader

----------------------------------------------------------------------------
(* The inductive invariant.                                                *)
THEOREM TickInvariant == TickSpec => []TickIInv
  BY TickInitIInv, TickNextIInv, PTL DEF TickSpec

(* Every variable keeps its type.                                          *)
THEOREM TickTypeCorrect == TickSpec => []TickTypeOK
<1>1. TickIInv => TickTypeOK
  BY DEF TickIInv
<1>2. QED
  BY <1>1, TickInvariant, PTL

(* A tick the feed has not begun to overwrite is copied whole, whatever    *)
(* fields a tick has and however many are published (spin_wait_next).      *)
THEOREM CopyIsWhole == TickSpec => []WholeUnlessOvertaken
<1>1. TickIInv => WholeUnlessOvertaken
  BY DEF TickIInv
<1>2. QED
  BY <1>1, TickInvariant, PTL

(* Each call returns under a larger number than every call before it, bad  *)
(* headers in between or not (last_seq_, current_seq).                     *)
THEOREM ReturnsAreNews == TickSpec => EveryReturnIsNews
<1>1. TickIInv /\ [TickNext]_tickVars
         => [Return => delivered < delivered' /\ delivered' <= seq]_tickVars
  <2> SUFFICES ASSUME TickIInv, Return PROVE delivered < delivered' /\ delivered' <= seq
    OBVIOUS
  <2>1. QED
    BY MaxTickAssumption DEF TickIInv, Return, Numbers, TickTypeOK
<1>2. QED
  BY <1>1, TickInvariant, PTL DEF TickSpec, EveryReturnIsNews

----------------------------------------------------------------------------
(***************************************************************************)
(* ParamShm                                                                *)
(***************************************************************************)

(* The publisher's count, and who is behind it.                            *)
Counts ==
    /\ publishing => version < published
    /\ version <= published /\ early <= published
    /\ \A f \in Fields : params[f] <= published
    /\ newVersion <= published /\ lastVersion <= published
    /\ newRisk <= published /\ cfgRisk <= published
    /\ ~EngineUp => early = published

(* What a publication under way has stored so far.                         *)
StoredSoFar ==
    publishing /\ published > early
        => \A f \in Fields \ toWrite : params[f] = published

(* A version announced is backed by the values in the block.               *)
ValuesBack == version > early => \A f \in Fields : params[f] >= version

(* So is the version a sync has loaded, and the one it remembers.          *)
LoadedBack ==
    /\ epc \in {"load", "apply"} /\ newVersion > early
          => \A f \in Fields : params[f] >= newVersion
    /\ lastVersion > early => \A f \in Fields : params[f] >= lastVersion

(* Between publications every value is the last one's; during one, none is *)
(* older than the one before.                                              *)
Spread ==
    /\ ~publishing /\ published > early => \A f \in Fields : params[f] >= published
    /\ published > early + 1 => \A f \in Fields : params[f] >= published - 1

(* So no value falls more than one behind a risk that was loaded.          *)
RiskBack ==
    /\ epc = "apply" /\ newRisk > early + 1 => \A f \in Fields : params[f] >= newRisk - 1
    /\ cfgRisk > early + 1 => \A f \in Fields : params[f] >= cfgRisk - 1

IInv ==
    /\ TypeOK /\ Counts /\ StoredSoFar /\ ValuesBack /\ LoadedBack /\ Spread /\ RiskBack
    /\ RiskNotOlder /\ GateNearRisk

----------------------------------------------------------------------------
LEMMA InitIInv == Init => IInv
<1> SUFFICES ASSUME Init PROVE IInv
  OBVIOUS
<1>1. 0 \in Versions
  BY MaxVersionAssumption DEF Versions
<1>2. TypeOK
  <2>1. params \in [Fields -> Versions]
    BY <1>1 DEF Init
  <2>2. QED
    BY <1>1, <2>1 DEF Init, TypeOK
<1>3. /\ Counts /\ StoredSoFar /\ ValuesBack /\ LoadedBack /\ Spread /\ RiskBack
      /\ RiskNotOlder /\ GateNearRisk
  BY DEF Init, Counts, StoredSoFar, ValuesBack, LoadedBack, Spread, RiskBack, RiskNotOlder,
     GateNearRisk
<1>4. QED
  BY <1>2, <1>3 DEF IInv

(* The numbers in the invariant are naturals.                              *)
LEMMA NatFacts ==
    ASSUME TypeOK
    PROVE  /\ version \in Nat /\ published \in Nat /\ early \in Nat
           /\ lastVersion \in Nat /\ cfgRisk \in Nat
           /\ newVersion \in Nat /\ newRisk \in Nat /\ gate \in Nat
           /\ \A f \in Fields : params[f] \in Nat
           /\ 0 \in Versions
  BY MaxVersionAssumption DEF TypeOK, Versions

----------------------------------------------------------------------------
(* The publisher's steps.                                                  *)

LEMMA PublishBeginStep == ASSUME IInv, PublishBegin PROVE IInv'
<1> USE NatFacts DEF IInv, PublishBegin, engineVars
<1>1. published + 1 \in Versions
  BY MaxVersionAssumption DEF Versions
<1>2. TypeOK'
  BY <1>1 DEF TypeOK
<1>3. Counts'
  BY DEF Counts, EngineUp
<1>4. early' >= early
  BY DEF Counts
<1>5. StoredSoFar' /\ ValuesBack' /\ LoadedBack' /\ RiskNotOlder'
  BY <1>4 DEF Counts, StoredSoFar, ValuesBack, LoadedBack, RiskNotOlder
<1>6. GateNearRisk'
  BY <1>4 DEF GateNearRisk
<1>7. RiskBack'
  BY <1>4 DEF RiskBack
<1>8. Spread'
  <2>1. publishing' /\ published' = published + 1
    OBVIOUS
  <2>2. CASE EngineUp
    <3>1. early' = early
      BY <2>2
    <3>2. published' > early' + 1 => \A f \in Fields : params'[f] >= published' - 1
      BY <2>1, <3>1 DEF Spread
    <3>3. QED
      BY <2>1, <3>2 DEF Spread
  <2>3. CASE ~EngineUp
    BY <2>1, <2>3 DEF Spread
  <2>4. QED
    BY <2>2, <2>3
<1>9. QED
  BY <1>2, <1>3, <1>5, <1>6, <1>7, <1>8

LEMMA PublishFieldStep == ASSUME IInv, NEW g \in Fields, PublishField(g) PROVE IInv'
<1> USE NatFacts DEF IInv, PublishField, engineVars
<1>1. params' \in [Fields -> Versions]
  BY DEF TypeOK
<1>2. TypeOK'
  BY <1>1 DEF TypeOK
<1>3. /\ params'[g] = published
      /\ \A f \in Fields : f # g => params'[f] = params[f]
  BY DEF TypeOK
<1>4. \A f \in Fields : params'[f] >= params[f] /\ params'[f] <= published
  BY <1>3 DEF Counts
<1>5. Counts'
  BY <1>4 DEF Counts, EngineUp
<1>6. StoredSoFar'
  BY <1>3 DEF StoredSoFar
<1>7. \A f \in Fields : params[f] \in Nat /\ params'[f] \in Nat
  BY <1>2, <1>3
<1>8. ValuesBack' /\ LoadedBack'
  BY <1>4, <1>7, FieldsAssumption DEF ValuesBack, LoadedBack
<1>9. (RiskNotOlder /\ GateNearRisk)'
  BY DEF RiskNotOlder, GateNearRisk
<1>10. Spread' /\ RiskBack'
  BY <1>4, <1>7 DEF Spread, RiskBack
<1>11. QED
  BY <1>2, <1>5, <1>6, <1>8, <1>9, <1>10

LEMMA PublishVersionStep == ASSUME IInv, PublishVersion PROVE IInv'
<1> USE NatFacts DEF IInv, PublishVersion, engineVars
<1>1. TypeOK'
  BY DEF TypeOK
<1>2. Counts'
  BY DEF Counts, EngineUp
<1>3. ValuesBack'
  BY DEF ValuesBack, StoredSoFar
<1>4. StoredSoFar' /\ LoadedBack' /\ RiskBack' /\ (RiskNotOlder /\ GateNearRisk)'
  BY DEF StoredSoFar, LoadedBack, RiskBack, RiskNotOlder, GateNearRisk
<1>5. Spread'
  BY DEF Spread, StoredSoFar
<1>6. QED
  BY <1>1, <1>2, <1>3, <1>4, <1>5

----------------------------------------------------------------------------
(* The engine's steps.                                                     *)

LEMMA InitVersionStep == ASSUME IInv, InitVersion PROVE IInv'
<1> USE NatFacts DEF IInv, InitVersion, publisherVars
<1>1. TypeOK'
  BY DEF TypeOK
<1>2. Counts' /\ ValuesBack'
  BY DEF Counts, ValuesBack, EngineUp
<1>3. StoredSoFar' /\ LoadedBack' /\ (RiskNotOlder /\ GateNearRisk)'
  BY DEF StoredSoFar, LoadedBack, RiskNotOlder, GateNearRisk
<1>4. Spread' /\ RiskBack'
  BY DEF Spread, RiskBack
<1>5. QED
  BY <1>1, <1>2, <1>3, <1>4

(* Nothing published by now is called newer than the engine's start.       *)
LEMMA InitFieldStep == ASSUME IInv, NEW g \in Fields, InitField(g) PROVE IInv'
<1> USE NatFacts DEF IInv, InitField, publisherVars
<1>1. params' \in [Fields -> Versions]
  BY DEF TypeOK
<1>2. TypeOK'
  BY <1>1 DEF TypeOK
<1>3. early = published
  BY DEF Counts, EngineUp
<1>4. \A f \in Fields : params'[f] <= published
  <2> SUFFICES ASSUME NEW f \in Fields PROVE params'[f] <= published
    OBVIOUS
  <2>1. CASE f = g
    BY <2>1 DEF TypeOK
  <2>2. CASE f # g
    BY <2>2 DEF TypeOK, Counts
  <2>3. QED
    BY <2>1, <2>2
<1>5. Counts'
  BY <1>3, <1>4 DEF Counts
<1>6. StoredSoFar' /\ ValuesBack'
  BY <1>3 DEF StoredSoFar, ValuesBack, Counts
<1>7. ~(lastVersion' > early') /\ epc' \notin {"load", "apply"}
  BY <1>3 DEF Counts
<1>8. ~(cfgRisk' > early' + 1) /\ ~(published' > early')
  BY <1>3 DEF Counts
<1>9. LoadedBack' /\ RiskNotOlder'
  BY <1>7 DEF LoadedBack, RiskNotOlder
<1>10. GateNearRisk'
  BY <1>7, <1>8 DEF GateNearRisk
<1>11. Spread' /\ RiskBack'
  BY <1>7, <1>8 DEF Spread, RiskBack
<1>12. QED
  BY <1>2, <1>5, <1>6, <1>9, <1>10, <1>11

LEMMA SyncStep == ASSUME IInv, Sync PROVE IInv'
<1> USE NatFacts DEF IInv, publisherVars
<1>1. CASE SyncVersion
  <2>1. TypeOK'
    BY <1>1 DEF SyncVersion, TypeOK
  <2>2. Counts' /\ StoredSoFar' /\ ValuesBack' /\ Spread' /\ RiskBack'
    BY <1>1 DEF SyncVersion, Counts, StoredSoFar, ValuesBack, Spread, RiskBack, EngineUp
  <2>3. LoadedBack'
    BY <1>1 DEF SyncVersion, ValuesBack, LoadedBack
  <2>4. /\ epc' # "apply" /\ epc' # "judged"
        /\ lastVersion' = lastVersion /\ cfgRisk' = cfgRisk /\ early' = early
    BY <1>1 DEF SyncVersion
  <2>5. RiskNotOlder'
    BY <2>4 DEF RiskNotOlder
  <2>6. GateNearRisk'
    BY <2>4 DEF GateNearRisk
  <2>7. QED
    BY <2>1, <2>2, <2>3, <2>5, <2>6
<1>2. CASE SyncLoad
  <2>1. TypeOK'
    BY <1>2, FieldsAssumption DEF SyncLoad, TypeOK
  <2>2. Counts' /\ StoredSoFar' /\ ValuesBack' /\ Spread'
    BY <1>2, FieldsAssumption DEF SyncLoad, Counts, StoredSoFar, ValuesBack, Spread, EngineUp
  <2>3. LoadedBack' /\ (RiskNotOlder /\ GateNearRisk)'
    BY <1>2, FieldsAssumption DEF SyncLoad, LoadedBack, RiskNotOlder, GateNearRisk
  <2>4. RiskBack'
    <3>1. newRisk' <= published
      BY <1>2, FieldsAssumption DEF SyncLoad, Counts
    <3>2. newRisk' > early + 1 => \A f \in Fields : params[f] >= newRisk' - 1
      <4> SUFFICES ASSUME newRisk' > early + 1, NEW f \in Fields
                   PROVE  params[f] >= newRisk' - 1
        OBVIOUS
      <4>1. newRisk' \in Nat /\ published > early + 1
        BY <2>1, <3>1, NatFacts, MaxVersionAssumption DEF TypeOK, Versions
      <4>2. params[f] >= published - 1
        BY <4>1 DEF Spread
      <4>3. QED
        BY <3>1, <4>1, <4>2
    <3>3. QED
      BY <1>2, <3>2 DEF SyncLoad, RiskBack
  <2>5. QED
    BY <2>1, <2>2, <2>3, <2>4
<1>3. CASE SyncApply
  <2>1. TypeOK'
    BY <1>3 DEF SyncApply, TypeOK
  <2>2. Counts' /\ StoredSoFar' /\ ValuesBack' /\ Spread' /\ RiskBack'
    BY <1>3 DEF SyncApply, Counts, StoredSoFar, ValuesBack, Spread, RiskBack, EngineUp
  <2>3. LoadedBack' /\ (RiskNotOlder /\ GateNearRisk)'
    BY <1>3 DEF SyncApply, LoadedBack, RiskNotOlder, GateNearRisk
  <2>4. QED
    BY <2>1, <2>2, <2>3
<1>4. CASE LoadGate
  <2>1. TypeOK'
    BY <1>4, FieldsAssumption DEF LoadGate, TypeOK
  <2>2. Counts' /\ StoredSoFar' /\ ValuesBack' /\ LoadedBack' /\ Spread' /\ RiskBack'
    BY <1>4 DEF LoadGate, Counts, StoredSoFar, ValuesBack, LoadedBack, Spread, RiskBack,
       EngineUp
  <2>3. (RiskNotOlder /\ GateNearRisk)'
    BY <1>4, FieldsAssumption
       DEF LoadGate, LoadedBack, RiskBack, RiskNotOlder, GateNearRisk
  <2>4. QED
    BY <2>1, <2>2, <2>3
<1>5. CASE Enter
  <2>1. TypeOK'
    BY <1>5 DEF Enter, TypeOK
  <2>2. Counts' /\ StoredSoFar' /\ ValuesBack' /\ LoadedBack' /\ Spread' /\ RiskBack'
    BY <1>5 DEF Enter, Counts, StoredSoFar, ValuesBack, LoadedBack, Spread, RiskBack, EngineUp
  <2>3. (RiskNotOlder /\ GateNearRisk)'
    BY <1>5 DEF Enter, RiskNotOlder, GateNearRisk
  <2>4. QED
    BY <2>1, <2>2, <2>3
<1>6. QED
  BY <1>1, <1>2, <1>3, <1>4, <1>5 DEF Sync

LEMMA NextIInv == IInv /\ [Next]_vars => IInv'
<1> SUFFICES ASSUME IInv, [Next]_vars PROVE IInv'
  OBVIOUS
<1>1. CASE UNCHANGED vars
  BY <1>1 DEF vars, publisherVars, engineVars, IInv, TypeOK, Counts, StoredSoFar,
     ValuesBack, LoadedBack, Spread, RiskBack, RiskNotOlder, GateNearRisk, EngineUp
<1>2. CASE PublishBegin
  BY <1>2, PublishBeginStep
<1>3. CASE \E f \in Fields : PublishField(f)
  BY <1>3, PublishFieldStep
<1>4. CASE PublishVersion
  BY <1>4, PublishVersionStep
<1>5. CASE InitVersion
  BY <1>5, InitVersionStep
<1>6. CASE \E f \in Fields : InitField(f)
  BY <1>6, InitFieldStep
<1>7. CASE Sync
  BY <1>7, SyncStep
<1>8. QED
  BY <1>1, <1>2, <1>3, <1>4, <1>5, <1>6, <1>7 DEF Next, Publisher, Boot

LEMMA Inductive == Spec => []IInv
  BY InitIInv, NextIInv, PTL DEF Spec

----------------------------------------------------------------------------
(* Type correctness of the block, its publisher and sync_parameters.       *)
THEOREM ParamTypeCorrect == Spec => []TypeOK
<1>1. IInv => TypeOK
  BY DEF IInv
<1>2. QED
  BY Inductive, <1>1, PTL

(* The risk in force is never older than the version sync_parameters       *)
(* remembers, whatever publications overlap with its loads.                *)
THEOREM RiskInForceNotOlder == Spec => []RiskNotOlder
<1>1. IInv => RiskNotOlder
  BY DEF IInv
<1>2. QED
  BY Inductive, <1>1, PTL

(* The gate an automatic entry is judged by is as new as the version the   *)
(* risk was applied under, and at most one publication behind the risk     *)
(* that sizes the entry, which may have been stored ahead of it.           *)
THEOREM GateJudgedNearRisk == Spec => []GateNearRisk
<1>1. IInv => GateNearRisk
  BY DEF IInv
<1>2. QED
  BY Inductive, <1>1, PTL
=============================================================================
