--------------------------- MODULE ResearchFunnel ---------------------------
(***************************************************************************)
(* The research funnel: research/funnel.py.  It holds where each strategy  *)
(* sits and caches what was computed about it; it writes nothing to disk.  *)
(* Its methods appear as functions of a funnel, for the agent to call.     *)
(*                                                                         *)
(* Abstractions: a synthesis is whether it is usable; an implementation is *)
(* its kind, VEHICLE for those with an instrument to buy (ETF_LONG,        *)
(* ETF_HEDGED, SINGLE_NAME, EQUITY_BASKET) and NO_TRADE for those the      *)
(* agent does not size (NO_TRADE and OPTIONS).                             *)
(***************************************************************************)
EXTENDS FiniteSets, Integers, SequencesExt

CONSTANTS
  Strategies,  \* strategy ids, "theme:function"
  Rejected     \* those whose candidates do not clear the generator's floors

None == "NONE"

ASSUME StrategiesAssumption ==
  IsFiniteSet(Strategies) /\ None \notin Strategies /\ Rejected \subseteq Strategies

Stages == <<"STRATEGY_GENERATION", "DISCLOSURE_SYNTHESIS", "EVIDENCE_REVIEW",
            "IMPLEMENTATION_GENERATION", "IMPLEMENTATION_SELECTED",
            "TRADE_DESIGN", "APPROVAL", "EXECUTED">>

StageIndex(stage) == CHOOSE k \in DOMAIN Stages : Stages[k] = stage

Kinds == {"VEHICLE", "NO_TRADE"}

\* What a generator may return: always the null option, and what is eligible.
Alternatives == {kinds \in SUBSET Kinds : "NO_TRADE" \in kinds}

\* thesis and intent are numbers, 0 for none.
NewPosition == [stage |-> "STRATEGY_GENERATION", thesis |-> 0, intent |-> 0,
                implementation |-> None, blocked |-> FALSE]

EmptyFunnel ==
  [order       |-> [s \in Strategies |-> 0],   \* its place among positions, 0 for none
   positions   |-> [s \in Strategies |-> NewPosition],    \* those with a place are real
   syntheses   |-> <<>>,                                  \* [strategy, usable], in order
   evidenced   |-> {},          \* history: the strategies that have had a usable synthesis
   alternatives |-> [s \in Strategies |-> {}],
   selected    |-> [s \in Strategies |-> None]]

Keys(funnel) == {s \in Strategies : funnel.order[s] # 0}

Placed(funnel, s) == s \in Keys(funnel)

\* The first of them to be placed, if there is one.
First(funnel, among) ==
  IF among = {} THEN None
  ELSE CHOOSE s \in among : \A t \in among : funnel.order[s] <= funnel.order[t]

-----------------------------------------------------------------------------
Synthesized(funnel, s) == \E k \in DOMAIN funnel.syntheses : funnel.syntheses[k].strategy = s

Usable(funnel, s) == Contains(funnel.syntheses, [strategy |-> s, usable |-> TRUE])

\* A position only moves forward.
Advanced(position, stage) ==
  IF StageIndex(stage) > StageIndex(position.stage)
  THEN [position EXCEPT !.stage = stage] ELSE position

WithPlace(funnel, s) ==
  IF Placed(funnel, s) THEN funnel
  ELSE [funnel EXCEPT !.order[s] = Cardinality(Keys(funnel)) + 1]

\* The search found these candidates; rejected ones are placed, too, as blocked.
Generated(funnel, found) ==
  LET fresh(k)   == {j \in 1..k : ~Placed(funnel, found[j])}
      place(s)   == Cardinality(Keys(funnel))
                     + Cardinality(fresh(CHOOSE k \in DOMAIN found : found[k] = s))
      isFresh(s) == Contains(found, s) /\ ~Placed(funnel, s)
  IN [funnel EXCEPT
        !.order = [s \in Strategies |-> IF isFresh(s) THEN place(s) ELSE @[s]],
        !.positions = [s \in Strategies |->
           IF isFresh(s) THEN [NewPosition EXCEPT !.blocked = (s \in Rejected)] ELSE @[s]]]

\* A synthesis is computed once in a regime; usable is what the computation says.
SynthesizedAs(funnel, s, usable) ==
  LET known  == Synthesized(funnel, s)
      result == IF known THEN Usable(funnel, s) ELSE usable
      stage  == IF result THEN "EVIDENCE_REVIEW" ELSE "DISCLOSURE_SYNTHESIS"
      placed == WithPlace(funnel, s)
  IN [placed EXCEPT
        !.syntheses = IF known THEN @ ELSE Append(@, [strategy |-> s, usable |-> usable]),
        !.evidenced = IF result THEN @ \union {s} ELSE @,
        !.positions[s] = [Advanced(@, stage) EXCEPT !.blocked = ~result]]

\* Under another regime every synthesis is to be computed again; nothing else is.
Cleared(funnel) == [funnel EXCEPT !.syntheses = <<>>]

Marked(funnel, s, stage) ==
  [WithPlace(funnel, s) EXCEPT !.positions[s] = Advanced(@, stage)]

MarkedWithThesis(funnel, s, stage, thesis) ==
  [Marked(funnel, s, stage) EXCEPT !.positions[s].thesis = thesis]

MarkedWithIntent(funnel, s, stage, intent) ==
  [Marked(funnel, s, stage) EXCEPT !.positions[s].intent = intent]

\* Either generator, deterministic or model: the first to run fills the cache.
WithImplementations(funnel, s, kinds) ==
  LET fresh == funnel.alternatives[s] = {}
  IN Marked([funnel EXCEPT !.alternatives[s] = IF fresh THEN kinds ELSE @,
                           !.selected[s] = IF fresh THEN None ELSE @],
            s, "IMPLEMENTATION_GENERATION")

WithSelection(funnel, s, kind) ==
  [Marked([funnel EXCEPT !.selected[s] = kind], s, "IMPLEMENTATION_SELECTED")
     EXCEPT !.positions[s].implementation = kind]
=============================================================================
