------------------------------ MODULE ParamShm ------------------------------
(***************************************************************************)
(* The parameter shared memory (interfaces/cpp/goldmine/param_shm.hpp) and *)
(* its reader, RiskEngine::sync_parameters (core/include/goldmine/         *)
(* risk_engine.hpp): a publisher in another process stores new values and  *)
(* then raises the version; the engine, which also initialises the block   *)
(* when it starts, applies the values of a version it has not seen.        *)
(*                                                                         *)
(* The publisher is another program, modelled after README.md sections 2   *)
(* and 4: it may be up before the engine, and it numbers its publications. *)
(* A field holds the number of the publication that wrote it, 0 for the    *)
(* default.  Each field is an atomic of its own.                           *)
(***************************************************************************)
EXTENDS Integers

CONSTANTS
    Fields,          \* the fields beside version
    Applied,         \* the field sync_parameters keeps: risk_pct
    Gate,            \* the field main loads by itself: p_profitable_gate_bps
    MaxVersion       \* bound: publications

ASSUME FieldsAssumption == Applied \in Fields /\ Gate \in Fields
ASSUME MaxVersionAssumption == MaxVersion \in Nat

VARIABLES
    version, params,        \* DynamicParams in shared memory
    published, toWrite,     \* publisher: its last number, fields still to store
    publishing,             \* publisher: inside a publication
    early,                  \* history: the last one begun before the engine was up
    epc, toInit,            \* engine: where it is, fields init still resets
    lastVersion, cfgRisk,   \* RiskEngine: last_version_id_, cfg_.max_risk_pct
    newVersion, newRisk,    \* locals of sync_parameters
    gate                    \* the gate an automatic entry was judged by

publisherVars == <<published, toWrite, publishing, early>>
engineVars == <<epc, toInit, lastVersion, cfgRisk, newVersion, newRisk, gate>>
vars == <<version, params, publisherVars, engineVars>>

Versions == 0 .. MaxVersion

TypeOK ==
    /\ {version, published, early, lastVersion, cfgRisk, newVersion, newRisk, gate}
          \subseteq Versions
    /\ params \in [Fields -> Versions]
    /\ toWrite \subseteq Fields /\ toInit \subseteq Fields
    /\ publishing \in BOOLEAN
    /\ epc \in {"start", "init", "trade", "load", "apply", "gate", "judged"}

(* Fresh shared memory is zero, which no reader tells from the defaults.   *)
Init ==
    /\ version = 0 /\ params = [f \in Fields |-> 0]
    /\ published = 0 /\ toWrite = {} /\ publishing = FALSE /\ early = 0
    /\ epc = "start" /\ toInit = {}
    /\ lastVersion = 0 /\ cfgRisk = 0 /\ newVersion = 0 /\ newRisk = 0 /\ gate = 0

EngineUp == epc \notin {"start", "init"}

----------------------------------------------------------------------------
(* The publisher (external): values first, then the version.               *)

PublishBegin ==
    /\ ~publishing /\ published < MaxVersion
    /\ publishing' = TRUE /\ published' = published + 1
    /\ early' = IF EngineUp THEN early ELSE published + 1
    /\ toWrite' = Fields
    /\ UNCHANGED <<version, params, engineVars>>

PublishField(f) ==
    /\ publishing /\ f \in toWrite
    /\ params' = [params EXCEPT ![f] = published]
    /\ toWrite' = toWrite \ {f}
    /\ UNCHANGED <<version, published, publishing, early, engineVars>>

PublishVersion ==
    /\ publishing /\ toWrite = {}
    /\ version' = published
    /\ publishing' = FALSE
    /\ UNCHANGED <<params, published, toWrite, early, engineVars>>

----------------------------------------------------------------------------
(* The engine starts: ParamServerSHM::init(name, true) maps the block and  *)
(* constructs DynamicParams in it, member by member, version first.        *)

InitVersion ==
    /\ epc = "start"
    /\ epc' = "init" /\ toInit' = Fields
    /\ version' = 0
    /\ UNCHANGED <<params, publisherVars, lastVersion, cfgRisk, newVersion, newRisk,
                   gate>>

InitField(f) ==
    /\ epc = "init" /\ f \in toInit
    /\ params' = [params EXCEPT ![f] = 0]
    /\ toInit' = toInit \ {f}
    /\ epc' = IF toInit = {f} THEN "trade" ELSE "init"
    /\ UNCHANGED <<version, publisherVars, lastVersion, cfgRisk, newVersion, newRisk,
                   gate>>

(* sync_parameters, called when the engine is about to enter a trade.      *)
SyncVersion ==
    /\ epc = "trade"
    /\ newVersion' = version
    /\ epc' = IF version > lastVersion THEN "load" ELSE "gate"
    /\ UNCHANGED <<version, params, publisherVars, toInit, lastVersion, cfgRisk, newRisk,
                   gate>>

SyncLoad ==
    /\ epc = "load"
    /\ newRisk' = params[Applied]
    /\ epc' = "apply"
    /\ UNCHANGED <<version, params, publisherVars, toInit, lastVersion, cfgRisk,
                   newVersion, gate>>

(* Wrong variant: the version is read again after the values.              *)
SyncApplyNewest ==
    /\ epc = "apply" /\ epc' = "gate"
    /\ cfgRisk' = newRisk /\ lastVersion' = version
    /\ UNCHANGED <<version, params, publisherVars, toInit, newVersion, newRisk, gate>>

SyncApply ==
    /\ epc = "apply"
    /\ cfgRisk' = newRisk /\ lastVersion' = newVersion
    /\ epc' = "gate"
    /\ UNCHANGED <<version, params, publisherVars, toInit, newVersion, newRisk, gate>>

(* An automatic entry then loads the gate by itself, straight from shared  *)
(* memory; one the operator asked for does without.  Wrong variant: the    *)
(* gate is loaded once and kept.                                           *)
LoadGateOnce ==
    /\ epc = "gate" /\ epc' = "judged"
    /\ gate' = IF gate = 0 THEN params[Gate] ELSE gate
    /\ UNCHANGED <<version, params, publisherVars, toInit, lastVersion, cfgRisk, newVersion,
                   newRisk>>

LoadGate ==
    /\ epc = "gate"
    /\ gate' = params[Gate]
    /\ epc' = "judged"
    /\ UNCHANGED <<version, params, publisherVars, toInit, lastVersion, cfgRisk, newVersion,
                   newRisk>>

(* The entry is made or rejected; the risk in force sizes it.              *)
Enter ==
    /\ epc \in {"gate", "judged"}
    /\ epc' = "trade"
    /\ UNCHANGED <<version, params, publisherVars, toInit, lastVersion, cfgRisk, newVersion,
                   newRisk, gate>>

----------------------------------------------------------------------------
Publisher == PublishBegin \/ (\E f \in Fields : PublishField(f)) \/ PublishVersion
Boot == InitVersion \/ \E f \in Fields : InitField(f)
Sync == SyncVersion \/ SyncLoad \/ SyncApply \/ LoadGate \/ Enter
Next == Publisher \/ Boot \/ Sync

Spec == Init /\ [][Next]_vars

(* The engine comes up and, while the market gives it reasons to trade,    *)
(* synchronises again and again; nothing is assumed of the publisher.      *)
FairSpec == Spec /\ WF_vars(Boot) /\ WF_vars(Sync)

(***************************************************************************)
(* Properties                                                              *)
(***************************************************************************)

(* The risk in force is at least as new as the version it was applied      *)
(* under, and the risk about to be applied as the version that announced   *)
(* it: version is loaded before the values and stored after them           *)
(* (sync_parameters).  Only a publication begun before init() is done may  *)
(* be wiped and yet announced.                                             *)
RiskNotOlder ==
    /\ lastVersion > early => cfgRisk >= lastVersion
    /\ epc = "apply" /\ newVersion > early => newRisk >= newVersion

(* The gate an automatic entry is judged by is at least as new as the      *)
(* version the risk was applied under, and at most one publication behind  *)
(* the risk that sizes the entry: it can be behind only while the risk is  *)
(* one that a publication has stored ahead of its gate and its version.    *)
(* The risk may lag the gate by more, until the next sync                  *)
(* (p_profitable_gate_bps loaded after sync_parameters).                   *)
GateNearRisk ==
    epc = "judged" =>
        /\ lastVersion > early => gate >= lastVersion
        /\ cfgRisk > early + 1 => gate >= cfgRisk - 1

(* Whatever publication a sync overlaps with, the one that is current when *)
(* publishing stops is the one in force in the end, unless it was begun    *)
(* before the engine was up: that one may be lost to init().               *)
LastPublicationApplied ==
    (version = MaxVersion /\ early < MaxVersion)
        ~> (cfgRisk = MaxVersion /\ lastVersion = MaxVersion)
=============================================================================
