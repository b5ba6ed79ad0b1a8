---------------------------- MODULE WalkForward ----------------------------
(***************************************************************************)
(* Training with walk-forward validation, and the gates a card is then     *)
(* held against: learning/training.py over the splits of                   *)
(* dataset_builder.py and the models of models.py, and evaluation.py.      *)
(*                                                                         *)
(* What a model predicts is abstracted to what the prediction rests on:    *)
(* the examples its intercept, and the coefficients of the example's       *)
(* features, were estimated from.  The figures a training computes from    *)
(* its predictions are any of Metrics, in hundredths.  Days are counted    *)
(* from the start of the data.  An example has the day of its observation, *)
(* its stamp, and the day on which its label was realised.                 *)
(***************************************************************************)
EXTENDS FiniteSetsExt, Integers, Sequences

CONSTANTS
  Datasets,        \* sets of examples, [id, time, realized, features]
  DataEnd,
  TrainingWindow,
  TestWindow,
  Step,
  CallersSplits,   \* sequences of splits that are not the builder's
  Metrics,         \* [known, sharpe, calibration]
  Champions,       \* metrics of the champions a card is held against
  MinSamples       \* min_out_of_sample_samples

VARIABLES
  model,        \* the examples the model's parameters were estimated from
  dataset,      \* all_examples
  plan,         \* the splits to walk through
  done,         \* how many of them are behind
  predictions,  \* made out of sample: [example, cutoff, rests]
  card,         \* of the training that ended: [samples, metrics]
  verdict,      \* of the last evaluation
  forward       \* history: the model was new, and the splits go forward

walkVars == <<model, dataset, plan, done, predictions, card, verdict, forward>>

(* Windows are numbers of days; a step that is not positive never ends the *)
(* builder's loop (dataset_builder.py:133).                                *)
ASSUME SplitsAssumption ==
  /\ MinSamples \in Int /\ DataEnd \in Int /\ TrainingWindow \in Nat /\ TestWindow \in Nat
  /\ Step \in Nat \ {0}
  /\ \A splits \in CallersSplits : splits \in Seq([train_end : Int, test_end : Int])

ASSUME DatasetsAssumption ==
  \A examples \in Datasets : IsFiniteSet(examples) /\ \A e \in examples : e.time \in Int

Features == UNION {e.features : e \in UNION Datasets}

Untrained == [intercept |-> {}, learned |-> [f \in Features |-> {}]]
NoMetrics == [known |-> FALSE, sharpe |-> 0, calibration |-> 0]
NoCard == [samples |-> 0, metrics |-> NoMetrics]

WalkInit ==
  /\ model = Untrained
  /\ dataset = {}
  /\ plan = <<>>
  /\ done = 0
  /\ predictions = {}
  /\ card = NoCard
  /\ verdict = "NONE"
  /\ forward = TRUE

-----------------------------------------------------------------------------
(* A split is [train_end, test_end]; it goes by the stamps.                *)

BuildersSplits ==
  LET room == DataEnd - TrainingWindow - TestWindow
      splits == IF room < 0 THEN 0 ELSE room \div Step + 1
  IN [k \in 1..splits |->
        LET start == TrainingWindow + (k - 1) * Step
        IN [train_end |-> start, test_end |-> start + TestWindow]]

\* Mutation: the model is fitted on the days it is then tested on.
TrainedOnTheTest(split) == {e \in dataset : e.time <= split.test_end}

TrainExamples(split) == {e \in dataset : e.time <= split.train_end}

TestExamples(split) ==
  {e \in dataset : split.train_end < e.time /\ e.time <= split.test_end}

-----------------------------------------------------------------------------
(* The models.  A fit leaves the coefficients of features alone that none  *)
(* of its examples has; a prediction reads those its example has.          *)

Fitted(examples) ==
  IF examples = {} THEN model
  ELSE [intercept |-> examples,
        learned |-> [f \in Features |->
                       IF \E e \in examples : f \in e.features THEN examples
                       ELSE model.learned[f]]]

Rests(fit, e) == fit.intercept \union UNION {fit.learned[f] : f \in e.features}

-----------------------------------------------------------------------------
(* train_with_walk_forward                                                 *)

NewModel ==
  /\ done = Len(plan)
  /\ model' = Untrained
  /\ card' = NoCard
  /\ verdict' = "NONE"
  /\ UNCHANGED <<dataset, plan, done, predictions, forward>>

Begin(examples, splits) ==
  /\ done = Len(plan)
  /\ dataset' = examples
  /\ plan' = splits
  /\ done' = 0
  /\ predictions' = {}
  /\ card' = NoCard
  /\ verdict' = "NONE"
  /\ forward' = /\ model = Untrained
                /\ \A j, k \in DOMAIN splits : j < k => splits[j].train_end <= splits[k].train_end
  /\ UNCHANGED model

Split ==
  /\ done < Len(plan)
  /\ done' = done + 1
  /\ LET split == plan[done + 1]
         fit == Fitted(TrainExamples(split))
     IN IF TrainExamples(split) = {} \/ TestExamples(split) = {}
        THEN UNCHANGED <<model, predictions>>
        ELSE /\ model' = fit
             /\ predictions' = predictions \union
                  {[example |-> e, cutoff |-> split.train_end, rests |-> Rests(fit, e)] :
                     e \in TestExamples(split)}
  /\ UNCHANGED <<dataset, plan, card, verdict, forward>>

\* The samples are counted over all splits, those that were skipped included.
Finish ==
  /\ dataset # {} /\ done = Len(plan) /\ card = NoCard
  /\ model' = Fitted(dataset)
  /\ \E metrics \in IF predictions = {} THEN {NoMetrics} ELSE Metrics :
       card' = [samples |-> SumFunction([k \in DOMAIN plan |-> Cardinality(TestExamples(plan[k]))]),
                metrics |-> metrics]
  /\ UNCHANGED <<dataset, plan, done, predictions, verdict, forward>>

-----------------------------------------------------------------------------
(* ModelEvaluator.evaluate_candidate                                       *)

MinSharpe == 30
MaxCalibrationError == 15
UnknownCalibration == 50

PerformanceGate ==
  card.metrics.known /\ card.metrics.sharpe >= MinSharpe /\ card.samples >= MinSamples

\* An error of zero is taken for an unknown one.
CalibrationGate ==
  LET error == IF card.metrics.calibration = 0 THEN UnknownCalibration
               ELSE card.metrics.calibration
  IN error <= MaxCalibrationError

RegressionGate(champion) ==
  10 * (champion.sharpe - card.metrics.sharpe) <= Max({1, champion.sharpe})

(* No training sets a drawdown, so the gate of risk bounds passes; so does *)
(* the one of drift, always.                                               *)
Evaluate ==
  /\ \/ \E champion \in Champions :
          verdict' = IF PerformanceGate /\ CalibrationGate /\ RegressionGate(champion)
                     THEN "PASSED" ELSE "FAILED"
     \/ verdict' = IF PerformanceGate /\ CalibrationGate THEN "PASSED" ELSE "FAILED"
  /\ UNCHANGED <<model, dataset, plan, done, predictions, card, forward>>

WalkNext ==
  \/ NewModel
  \/ \E examples \in Datasets, splits \in CallersSplits \union {BuildersSplits} :
       Begin(examples, splits)
  \/ Split
  \/ Finish
  \/ card # NoCard /\ Evaluate

WalkSpec == WalkInit /\ [][WalkNext]_walkVars

-----------------------------------------------------------------------------
(* "Prevents lookahead bias" (training.py:7): what a prediction rests on   *)
(* was known at the cutoff of its split.  The code goes by the day of the  *)
(* observation, and its label may be realised long after.                  *)
NoLookahead ==
  forward => \A p \in predictions : \A e \in p.rests : e.realized <= p.cutoff

(* "Evaluate on held-out test period" (training.py:12): a prediction rests *)
(* on examples observed before the cutoff of its split, and so never on    *)
(* the one it is of - whichever splits were skipped and whatever features  *)
(* the examples have, when a new model walks forward.                      *)
HeldOut ==
  forward => \A p \in predictions :
    p.cutoff < p.example.time /\ \A e \in p.rests : e.time <= p.cutoff

\* In how many of the builder's windows a day may be.
Overlap == (TestWindow + Step - 1) \div Step

(* A card passes on evidence: enough different examples were predicted, of *)
(* which each counts once per window it is in, unless a split was skipped  *)
(* whose samples were counted.                                             *)
PassedOnEvidence ==
  /\ verdict = "PASSED"
  /\ plan = BuildersSplits
  /\ \A k \in DOMAIN plan : TrainExamples(plan[k]) # {}
  => Overlap * Cardinality({p.example : p \in predictions}) >= MinSamples

(* Validation is out of sample, by the days of the observations: both.     *)
OutOfSample == HeldOut /\ PassedOnEvidence
=============================================================================
