------------------------------ MODULE Learning ------------------------------
(***************************************************************************)
(* The learning pipeline over the model registry: learning/orchestrator.py *)
(* takes observations through the quality gate into the feature store,     *)
(* labels the outcomes of theses, trains a model on the labelled           *)
(* observations and registers its card.                                    *)
(*                                                                         *)
(* Observations, ids seen and labels live in memory; the cards are on      *)
(* file.  An observation is labelled by the thesis whose id it carries, so *)
(* the two are one here.  Trained models all have one id.                  *)
(*                                                                         *)
(* Some calls raise and leave nothing that is modelled: ingestion of a     *)
(* timestamp without a zone, or of values whose variance is rounded below  *)
(* zero; a label with an entry price of zero; training without examples,   *)
(* or over a range with room for a walk-forward split, where timestamps    *)
(* with and without a zone are compared.  A card is therefore trained      *)
(* without a split, and has no out-of-sample figures.                      *)
(***************************************************************************)
EXTENDS ModelRegistry

CONSTANTS
  Observations, \* ids of observations and of the theses that label them
  TrainedId     \* the model_id of ReturnModel

ASSUME TrainedAssumption == TrainedId \in Ids

VARIABLES
  seen_ids,    \* of the DataQualityGateKeeper
  store,       \* the feature store
  labelled,    \* theses with a label
  refused      \* history: ids refused when they were first seen, by this process

pipelineVars == <<seen_ids, store, labelled, refused>>

PipelineTypeOK ==
  /\ seen_ids \subseteq Observations
  /\ store \subseteq Observations
  /\ labelled \subseteq Observations
  /\ refused \subseteq Observations

PipelineInit ==
  /\ seen_ids = {}
  /\ store = {}
  /\ labelled = {}
  /\ refused = {}

LearningInit == RegistryInit /\ PipelineInit

-----------------------------------------------------------------------------
(* The gate finds an observation faulty for its schema, a time in the      *)
(* future, its source, an outlier against the values seen so far, or too   *)
(* many values missing; and it refuses an id it has seen.                  *)
Passes(t, faulty) == ~faulty /\ t \notin seen_ids

\* Mutation: only an observation that passes counts as seen.
SeenWhenPassed(t, faulty) ==
  IF Passes(t, faulty) THEN seen_ids \union {t} ELSE seen_ids

SeenAfter(t, faulty) == seen_ids \union {t}

Ingest(t) ==
  \E faulty \in BOOLEAN :
    /\ seen_ids' = SeenAfter(t, faulty)
    /\ store' = IF Passes(t, faulty) THEN store \union {t} ELSE store
    /\ refused' = IF t \in store \/ Passes(t, faulty) THEN refused ELSE refused \union {t}
    /\ UNCHANGED <<labelled, registryVars>>

LabelOutcome(t) ==
  /\ labelled' = labelled \union {t}
  /\ UNCHANGED <<seen_ids, store, refused, registryVars>>

(* build_training_dataset: what a range of dates selects of the store's    *)
(* labelled observations.                                                  *)
Examples == SUBSET (store \intersect labelled)

Train ==
  /\ \E examples \in Examples : examples # {}
  /\ Register(TrainedId, "draft")
  /\ UNCHANGED pipelineVars

(* The orchestrator's decisions are the registry's: no gate is asked.      *)
Decisions ==
  /\ \E id \in Ids : Promote(id) \/ Demote(id) \/ Hold(id)
  /\ UNCHANGED pipelineVars

\* Cards and shadow notes that come from elsewhere; drafts of other models.
RegistryUsed ==
  /\ \E id \in Ids :
       \/ Register(id, "challenger")
       \/ id # TrainedId /\ Register(id, "draft")
       \/ SetShadowDeployment(id)
  /\ UNCHANGED pipelineVars

\* A new process: what was in memory is gone, the cards are read again.
NewProcess ==
  /\ Restart
  /\ seen_ids' = {}
  /\ store' = {}
  /\ labelled' = {}
  /\ refused' = {}

LearningNext ==
  \/ \E t \in Observations : up /\ (Ingest(t) \/ LabelOutcome(t))
  \/ Train
  \/ Decisions
  \/ RegistryUsed
  \/ NewProcess

LearningSpec == LearningInit /\ [][LearningNext]_<<registryVars, pipelineVars>>

-----------------------------------------------------------------------------
(* Properties.                                                             *)

(* An observation that was refused is not stored later, corrected or not,  *)
(* under its id: models are trained on what was right when it first came   *)
(* (data_quality.py:86).                                                   *)
RefusedForGood == refused \intersect store = {}
=============================================================================
