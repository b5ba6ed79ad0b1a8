----------------------------- MODULE MCLearning -----------------------------
(***************************************************************************)
(* The learning pipeline with its registry, a trainer with its evaluator,  *)
(* and the engine of analogs with what integration.py says of them.        *)
(* Nothing that runs calls two of them: the pipeline's own trainings have  *)
(* no split, no gate is asked, and champions' cards are among the engine's *)
(* inputs.  So a behaviour of this instance is a behaviour of one while    *)
(* the others stay in their initial states.                                *)
(*                                                                         *)
(* The examples to walk through lie one per day or two; the second dataset *)
(* has a feature that appears late, the third none before the first cutoff.*)
(* Events are of two types and near or far from the setups; one is         *)
(* corrected, and becomes a far one.                                       *)
(***************************************************************************)
EXTENDS Learning, WalkForward, Analogs

Example(id, time, realized, features) ==
  [id |-> id, time |-> time, realized |-> realized, features |-> features]

MCDatasets ==
  {{Example(1, 1, 2, {"f"}), Example(2, 3, 3, {"f"}), Example(3, 4, 5, {"f"}), Example(4, 5, 6, {"f"})},
   {Example(1, 2, 3, {"f"}), Example(2, 3, 6, {}), Example(3, 4, 4, {"f", "g"}), Example(4, 5, 5, {"g"})},
   {Example(1, 4, 4, {"f"}), Example(2, 4, 5, {"g"}), Example(3, 5, 5, {"f"})}}

MCCallersSplits ==
  {<<>>,
   <<[train_end |-> 4, test_end |-> 5], [train_end |-> 2, test_end |-> 4]>>,
   <<[train_end |-> 2, test_end |-> 3], [train_end |-> 4, test_end |-> 5]>>}

Figures(sharpe, calibration) == [known |-> TRUE, sharpe |-> sharpe, calibration |-> calibration]

MCMetrics == {Figures(30, 15), Figures(29, 15), Figures(30, 16), Figures(100, 0)}
MCChampions == {Figures(33, 15), Figures(34, 15), [known |-> FALSE, sharpe |-> 0, calibration |-> 0]}

Setup(type, region, supply, backdrop) ==
  [event_type |-> type, region |-> region, commodity |-> "oil", supply_impact |-> supply,
   shipping_impact |-> "NONE", policy_mechanism |-> "NONE", market_regime |-> "NONE",
   volatility_regime |-> "NONE", macro_backdrop |-> backdrop]

Event(id, fingerprint, supply, commodity, producers, outcome) ==
  [id |-> id, fingerprint |-> fingerprint, supply |-> supply,
   commodity |-> commodity, producers |-> producers, outcome |-> outcome]

MCSetups == {Setup("sanctions", "gulf", "NONE", "NONE"), Setup("sanctions", "gulf", "low", "tight"),
             Setup("strike", "north", "low", "NONE")}
MCEvents ==
  {Event("e1", Setup("sanctions", "gulf", "high", "NONE"), 10, 4, 6, 3),
   Event("e1", Setup("war", "gulf", "high", "tight"), 25, 4, 6, -2),
   Event("e2", Setup("strike", "gulf", "NONE", "NONE"), 0, 5, 0, 0),
   Event("e3", Setup("sanctions", "north", "medium", "tight"), 15, 0, 2, -4),
   [Event("e4", Setup("war", "south", "high", "loose"), 5, 1, 3, 7)
      EXCEPT !.fingerprint.policy_mechanism = "embargo", !.fingerprint.shipping_impact = "high"]}

MCTrades == {[type |-> "standard", gained |-> FALSE], [type |-> "pair", gained |-> TRUE]}

\* A champion of returns or of drawdowns, and one that was retired.
Served(serving, sharpe, drawdown, r2) ==
  [champion |-> serving, sharpe |-> sharpe, drawdown |-> drawdown, r2 |-> r2]

MCReturnCards == {Nobody, Served(TRUE, 13, 0, 40), Served(TRUE, 12, 0, 0),
                  Served(TRUE, 4, 0, -5), Served(FALSE, 50, 0, 90)}
MCDrawdownCards == {Nobody, Served(TRUE, 0, 0, 50), Served(TRUE, 0, 9, 30),
                    Served(FALSE, 0, 16, 50), Served(TRUE, 0, 10, 70)}

\* Bound: a pipeline that has taken something in has few cards and failures.
LastCardAlone == Len(cards') + Cardinality(failures') < MaxCards \/ PipelineInit'

\* Bound: implementations are scored by an engine that has no records.
AdviceAlone ==
  /\ advice # NoAdvice => UNCHANGED <<events, trades, context>>
  /\ UNCHANGED advice \/ (events = <<>> /\ trades = <<>> /\ context = NoContext)

LearningAllInit == LearningInit /\ WalkInit /\ AnalogsInit
LearningAllNext ==
  \/ /\ WalkInit /\ AnalogsInit
     /\ LearningNext /\ LastCardAlone
     /\ UNCHANGED <<walkVars, analogVars>>
  \/ /\ LearningInit /\ AnalogsInit
     /\ WalkNext
     /\ UNCHANGED <<registryVars, pipelineVars, analogVars>>
  \/ /\ LearningInit /\ WalkInit
     /\ AnalogsNext /\ AdviceAlone
     /\ UNCHANGED <<registryVars, pipelineVars, walkVars>>

LearningAllSpec == LearningAllInit /\ [][LearningAllNext]_<<registryVars, pipelineVars, walkVars, analogVars>>
=============================================================================
