---------------------------- MODULE LearningLoop ----------------------------
(***************************************************************************)
(* The loop the logic and the risk thread close (pipeline.hpp,             *)
(* rule_registry.hpp, online_learner.hpp): the registry scores the rules   *)
(* that hold, the paper engine trades the signal, the outcome goes back to *)
(* the learner, which moves the weights of the rules that opened the trade *)
(* and copies them over the registry's.                                    *)
(*                                                                         *)
(* A weight is an integer number of 1/Unit; the learning rate and the      *)
(* decay are per cent of it and round down.  Which rules hold is whatever  *)
(* the snapshot makes them: any set.                                       *)
(***************************************************************************)
EXTENDS PaperEngine, SequencesExt

CONSTANTS
    RuleWeight,       \* the weight the rules are registered with, 0.30
    Unit,             \* the score 1.0
    Threshold,        \* the score 0.40
    Rate, Decay,      \* lr_ and decay_, per cent
    MaxWeight,        \* the clamp of a learned weight, 2.0
    DecayEvery,       \* updates between two decays of all weights, 128
    RawCap            \* room in the raw signal queue

ASSUME LearningAssumption ==
    /\ {RuleWeight, Unit, Threshold, Rate, Decay, MaxWeight} \subseteq Nat
    /\ {DecayEvery, RawCap} \subseteq Nat \ {0}

VARIABLES
    weights,          \* RuleRegistry::weights_
    learner,          \* OnlineLearner: its weights_ and update_count_
    adapted,          \* an outcome came in this pass
    lpc,              \* logic thread: "drain" or "evaluate"
    raw,              \* raw_signal_queue
    learned,          \* history: the outcomes taken
    replay            \* history: what the registration and each of them make
                      \* of a learner, the registration first

learnVars == <<weights, learner, adapted, lpc, learned, replay>>
vars == <<paperVars, learnVars, raw>>

Weights == [Rules -> Int]

(* add_rule: each rule has the weight it is registered with.               *)
DefaultWeight == [r \in Rules |-> IF r \in LongRules THEN RuleWeight ELSE -RuleWeight]
Signals == [rules : SUBSET Rules, direction : Directions, blocked : BOOLEAN,
            stop : Stops, heard : Nat]

TypeOK ==
    /\ PaperTypeOK
    /\ weights \in Weights /\ learner \in [weight : Weights, updates : Nat]
    /\ adapted \in BOOLEAN /\ lpc \in {"drain", "evaluate"}
    /\ raw \in Seq(Signals) /\ Len(raw) <= RawCap
    /\ learned \in Seq(Outcomes) /\ replay \in Seq([weight : Weights, updates : Nat])

----------------------------------------------------------------------------
(* score_mask and the clamp of apply_session_scaling.                      *)
Clamped(x, low, high) == Max({low, Min({x, high})})
Total(w, rules) == FoldFunctionOnSet(+, 0, w, rules)
Score(w, rules) == Clamped(Total(w, rules), -Unit, Unit)

DirectionOf(conviction) ==
    IF conviction >= Threshold THEN "LONG"
    ELSE IF conviction <= -Threshold THEN "SHORT" ELSE "NONE"

(* update(): the weights of the active rules move towards the label; now   *)
(* and then all of them decay.                                             *)
Updated(l, outcome) ==
    LET error == outcome.label * Unit - Total(l.weight, outcome.rules)
        step == [r \in Rules |->
                   IF r \in outcome.rules
                     THEN Clamped(l.weight[r] + (Rate * error - Decay * l.weight[r]) \div 100,
                                  -MaxWeight, MaxWeight)
                     ELSE l.weight[r]]
        dense == (l.updates + 1) % DecayEvery = 0
    IN [weight |-> IF dense THEN [r \in Rules |-> (step[r] * (100 - Decay)) \div 100] ELSE step,
        updates |-> l.updates + 1]

(* Wrong variant: the learner starts from nothing.                         *)
InitializedZero == [r \in Rules |-> 0]

(* initialize(): the learner starts from the registry's weights.           *)
Initialized == DefaultWeight

Init ==
    /\ PaperInit
    /\ weights = DefaultWeight
    /\ learner = [weight |-> Initialized, updates |-> 0]
    /\ adapted = FALSE /\ lpc = "drain" /\ raw = <<>> /\ learned = <<>>
    /\ replay = <<[weight |-> DefaultWeight, updates |-> 0]>>

----------------------------------------------------------------------------
(* The logic thread takes the next outcome ...                             *)
Learn ==
    /\ lpc = "drain" /\ outcomes # <<>>
    /\ learner' = Updated(learner, Head(outcomes))
    /\ adapted' = TRUE
    /\ outcomes' = Tail(outcomes)
    /\ learned' = Append(learned, Head(outcomes))
    /\ replay' = Append(replay, Updated(Last(replay), Head(outcomes)))
    /\ UNCHANGED <<pos, summary, fillCount, openers, dropped, curve, weights, lpc, raw>>

(* ... until there is none: the registry gets the learned weights.         *)
ApplyWeights ==
    /\ lpc = "drain" /\ outcomes = <<>>
    /\ weights' = IF adapted THEN learner.weight ELSE weights
    /\ adapted' = FALSE
    /\ lpc' = "evaluate"
    /\ UNCHANGED <<paperVars, learner, raw, learned, replay>>

(* No new snapshot: back to the outcomes.                                  *)
NoSnapshot ==
    /\ lpc = "evaluate" /\ lpc' = "drain"
    /\ UNCHANGED <<paperVars, weights, learner, adapted, raw, learned, replay>>

(* Score the rules that hold and push the signal, or drop it.  The history *)
(* field "heard" counts the outcomes the thread had taken.                 *)
Evaluate(mask, stop) ==
    LET sig == [rules |-> mask, direction |-> DirectionOf(Score(weights, mask)),
                blocked |-> FALSE, stop |-> stop, heard |-> Len(learned)]
    IN /\ lpc = "evaluate" /\ lpc' = "drain"
       /\ raw' = IF Len(raw) < RawCap THEN Append(raw, sig) ELSE raw
       /\ UNCHANGED <<paperVars, weights, learner, adapted, learned, replay>>

(* The risk thread takes the next signal to the paper engine.              *)
Execute(bid, ask) ==
    /\ raw # <<>>
    /\ OnSignal(Head(raw), bid, ask)
    /\ raw' = Tail(raw)
    /\ UNCHANGED learnVars

Next ==
    \/ Learn \/ ApplyWeights \/ NoSnapshot
    \/ \E mask \in SUBSET Rules, stop \in Stops : Evaluate(mask, stop)
    \/ \E bid, ask \in Prices : Execute(bid, ask)

Spec == Init /\ [][Next]_vars

(***************************************************************************)
(* Properties                                                              *)
(***************************************************************************)

(* The trades as the equity curve and the signals tell them.               *)
Label(k) == IF curve[k + 1] > curve[k] THEN 1 ELSE -1
Trade(k) == [label |-> Label(k), rules |-> openers[k]]

(* What the learner has taken or will take is, in order, every trade whose *)
(* outcome was not lost on a full queue, with the label of its profit and  *)
(* the rules of the signal that OPENED it; the summary counts the same     *)
(* winners (close_position, logic_thread_fn).                              *)
LearnerAgrees ==
    LET kept == (1 .. summary.trades) \ dropped
        Rank(k) == Cardinality({j \in kept : j <= k})
    IN /\ Len(learned \o outcomes) = Cardinality(kept)
       /\ \A k \in kept : (learned \o outcomes)[Rank(k)] = Trade(k)
       /\ summary.winners = Cardinality({k \in 1 .. summary.trades : Label(k) = 1})

(* The open position has the direction its rules score under the weights   *)
(* the registration and the outcomes heard so far make: the registry and   *)
(* the learner never part (initialize, apply_to).                          *)
TradesWhatItLearned ==
    pos.open => pos.direction =
        DirectionOf(Score(replay[pos.heard + 1].weight, pos.rules))

(* A trade that gains anything before commission has reached its target:   *)
(* positions are closed at or beyond one end of the bracket only, on       *)
(* either side and however the price jumped (on_signal, close_position).   *)
OnlyTargetsGain ==
    [][(summary'.trades # summary.trades
          /\ summary'.equity > summary.equity - Commission)
         => summary'.equity + Commission - summary.equity
              >= (IF pos.direction = "LONG" THEN pos.tp - pos.entry
                                            ELSE pos.entry - pos.tp)]_vars

(* The drawdown of a curve: the deepest fall from an earlier point.        *)
Drawdown(c) ==
    Max({0} \cup {IF i <= j THEN c[i] - c[j] ELSE 0 : i, j \in DOMAIN c})

(* max_drawdown is the drawdown of the equity after the closes.            *)
DrawdownOfCloses == summary.drawdown = Drawdown(Tail(curve))

(* "natively logs maximum drawdown, peak equity" (docs/PHASE2.md:29): the  *)
(* drawdown of the equity, the starting capital (types.hpp:327) included.  *)
DrawdownIsMaximal == summary.drawdown = Drawdown(curve)
=============================================================================
