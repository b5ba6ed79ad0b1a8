------------------------------ MODULE Analogs ------------------------------
(***************************************************************************)
(* What history says of a setup, and what the models say of a way to trade *)
(* it: learning/analogs.py behind learning/integration.py.                 *)
(*                                                                         *)
(* Events and trades are registered in memory, an event perhaps twice when *)
(* its record is corrected.  A question is matched against all events, and *)
(* answered from the outcomes of the best.  Similarities are in            *)
(* thousandths, other figures in hundredths; what a record does not say is *)
(* "NONE" or, of a figure, 0, which the code does not tell from missing.   *)
(***************************************************************************)
EXTENDS FiniteSetsExt, Integers, SequencesExt

CONSTANTS
  Events,         \* [id, fingerprint, supply, commodity, producers, outcome]
  Trades,         \* [type, gained]
  Setups,         \* fingerprints to ask about
  TopK,
  MinSimilarity,
  ReturnCards,    \* what get_champion may return: [champion, sharpe, r2],
  DrawdownCards,  \* [drawdown, r2], or Nobody
  Allocations,    \* base allocations to be scored, in basis points
  MaxRecords      \* bound: events and trades registered

VARIABLES
  events,     \* event_retriever.events
  lookup,     \* event_lookup: [ids -> the event registered last]
  trades,     \* trade_retriever.trades
  context,    \* the AnalogContext answered last, and what it was asked
  advice,     \* the score of an implementation, given last
  corrected   \* history: an id was registered twice

analogVars == <<events, lookup, trades, context, advice, corrected>>

(* top_k and min_similarity are numbers (analogs.py:216), as are the       *)
(* metrics of a card and an allocation.                                    *)
ASSUME AnalogsAssumption ==
  /\ TopK \in Nat /\ MinSimilarity \in Int /\ Allocations \subseteq Int
  /\ \A r \in ReturnCards : r.sharpe \in Int
  /\ \A d \in DrawdownCards : d.drawdown \in Int

Nobody == [champion |-> FALSE, drawdown |-> 0, sharpe |-> 0, r2 |-> 0]
NoContext == [matches |-> <<>>, confidence |-> "UNASKED"]
NoAdvice == [size |-> 0, base |-> 0, of |-> {}, confidence |-> 0]

AnalogsInit ==
  /\ events = <<>>
  /\ lookup = [id \in {} |-> 0]
  /\ trades = <<>>
  /\ context = NoContext
  /\ advice = NoAdvice
  /\ corrected = FALSE

-----------------------------------------------------------------------------
(* SimilarityCalculator                                                    *)

component_weights ==
  [event_type |-> 30, region |-> 10, commodity |-> 10, supply_impact |-> 15,
   shipping_impact |-> 10, policy_mechanism |-> 10, market_regime |-> 5,
   volatility_regime |-> 5, macro_backdrop |-> 5]

\* What is left, in tenths, when one is unknown or they differ.
Partial ==
  [event_type |-> 0, region |-> 5, commodity |-> 5, policy_mechanism |-> 5,
   market_regime |-> 3, volatility_regime |-> 3, macro_backdrop |-> 2]

ScalarPartial(level, other) ==
  IF "NONE" \in {level, other} THEN 5
  ELSE IF "medium" \in {level, other} THEN 7 ELSE 0

Scalars == {"supply_impact", "shipping_impact"}

\* Mutation: the type of event earns partial credit as the others do.
ComponentOfAnyType(current, historical, c) ==
  IF current[c] = historical[c] THEN 10
  ELSE IF c \in Scalars THEN ScalarPartial(current[c], historical[c])
  ELSE IF c = "event_type" THEN 5 ELSE Partial[c]

Component(current, historical, c) ==
  IF current[c] = historical[c] THEN 10
  ELSE IF c \in Scalars THEN ScalarPartial(current[c], historical[c]) ELSE Partial[c]

Similarity(current, historical) ==
  SumFunction([c \in DOMAIN component_weights |->
                 component_weights[c] * Component(current, historical, c)])

Quality(similarity) ==
  IF similarity >= 800 THEN "high" ELSE IF similarity >= 650 THEN "medium" ELSE "low"

-----------------------------------------------------------------------------
(* Retrieval: the best first, of equals the one registered first.          *)

BestFirst(places, score) ==
  LET before(k) == {j \in places : score[j] > score[k] \/ (score[j] = score[k] /\ j < k)}
  IN [m \in 1..Min({TopK, Cardinality(places)}) |->
        CHOOSE k \in places : Cardinality(before(k)) = m - 1]

Similar(setup, k) == Similarity(setup, events[k].fingerprint)

EventMatches(setup) ==
  BestFirst({k \in DOMAIN events : Similar(setup, k) >= MinSimilarity},
            [k \in DOMAIN events |-> Similar(setup, k)])

\* In per cent; every trade is a match.
TradeScore(type, trade) ==
  ((IF trade.type = type THEN 100 ELSE 50) * (IF trade.gained THEN 11 ELSE 10)) \div 10

TradeMatches(type) ==
  BestFirst(DOMAIN trades, [k \in DOMAIN trades |-> TradeScore(type, trades[k])])

-----------------------------------------------------------------------------
(* Of the matched events' records: patterns and outcomes.                  *)

Known(matched, field) ==
  SelectSeq([m \in DOMAIN matched |-> matched[m][field]], LAMBDA figure : figure # 0)

Total(figures) == FoldSeq(LAMBDA figure, n : figure + n, 0, figures)

Patterns(matched) ==
  LET producers == Known(matched, "producers")
      commodity == Known(matched, "commodity")
      supply == Known(matched, "supply")
      better == Total(producers) * Len(commodity) > Total(commodity) * Len(producers)
  IN {pattern \in {"PRODUCERS", "COMMODITY", "REROUTING"} :
        \/ pattern = "PRODUCERS" /\ producers # <<>> /\ commodity # <<>> /\ better
        \/ pattern = "COMMODITY" /\ producers # <<>> /\ commodity # <<>> /\ ~better
        \/ /\ pattern = "REROUTING" /\ supply # <<>>
           /\ \A k \in DOMAIN supply : 0 < supply[k] /\ supply[k] < 20}

\* The pattern of producers is looked for by words that it does not have.
Recommendation(confidence, patterns) ==
  IF confidence = "no_analog" THEN "NOVEL"
  ELSE IF "REROUTING" \in patterns THEN "REROUTING" ELSE "REVIEW"

-----------------------------------------------------------------------------
(* Operations.                                                             *)

RegisterEvent(event) ==
  /\ Len(events) + Len(trades) < MaxRecords
  /\ events' = Append(events, event)
  /\ lookup' = [id \in DOMAIN lookup \union {event.id} |->
                  IF id = event.id THEN event ELSE lookup[id]]
  /\ corrected' = (corrected \/ event.id \in DOMAIN lookup)
  /\ UNCHANGED <<trades, context, advice>>

RegisterTrade(trade) ==
  /\ Len(events) + Len(trades) < MaxRecords
  /\ trades' = Append(trades, trade)
  /\ UNCHANGED <<events, lookup, context, advice, corrected>>

(* get_historical_analogs, and the recommendation for research.            *)
Ask(setup, type) ==
  LET matches == EventMatches(setup)
      matched == [m \in DOMAIN matches |-> lookup[events[matches[m]].id]]
      confidence == IF matches = <<>> THEN "no_analog"
                    ELSE Quality(Max({Similar(setup, matches[m]) : m \in DOMAIN matches}))
  IN /\ context' = [setup |-> setup, known |-> Len(events), matches |-> matches,
                    confidence |-> confidence, trades |-> TradeMatches(type),
                    outcomes |-> Known(matched, "outcome"),
                    recommendation |-> Recommendation(confidence, Patterns(matched))]
     /\ UNCHANGED <<events, lookup, trades, advice, corrected>>

-----------------------------------------------------------------------------
(* score_implementation.  The prediction of a return is the champion's     *)
(* Sharpe ratio; a drawdown that no training has set is one of ten.        *)

ReturnPrediction(card) ==
  IF card.champion
  THEN [prediction |-> card.sharpe, confidence |-> IF card.r2 = 0 THEN 50 ELSE Max({0, card.r2})]
  ELSE [prediction |-> 0, confidence |-> 0]

DrawdownPrediction(card) ==
  IF card = Nobody THEN [prediction |-> 0, confidence |-> 0]
  ELSE [prediction |-> IF card.drawdown = 0 THEN 10 ELSE card.drawdown,
        confidence |-> IF card.r2 = 0 THEN 50 ELSE Max({0, card.r2})]

SuggestedSize(return, drawdown, base) ==
  LET suggested == CASE drawdown > 15 \/ return < 5  -> (base * 8) \div 10
                     [] return > 12 /\ drawdown < 10 -> (base * 12) \div 10
                     [] OTHER                        -> base
  IN Max({100, Min({suggested, 500})})

Score(r, d, base) ==
  LET return == ReturnPrediction(r)
      drawdown == DrawdownPrediction(d)
  IN /\ advice' = [size |-> SuggestedSize(return.prediction, drawdown.prediction, base),
                   base |-> base, of |-> {r, d},
                   confidence |-> Min({return.confidence, drawdown.confidence})]
     /\ UNCHANGED <<events, lookup, trades, context, corrected>>

AnalogsNext ==
  \/ \E event \in Events : RegisterEvent(event)
  \/ \E trade \in Trades : RegisterTrade(trade)
  \/ \E setup \in Setups, type \in {trade.type : trade \in Trades} : Ask(setup, type)
  \/ \E r \in ReturnCards, d \in DrawdownCards, base \in Allocations : Score(r, d, base)

AnalogsSpec == AnalogsInit /\ [][AnalogsNext]_analogVars

-----------------------------------------------------------------------------
Asked == context.confidence # "UNASKED"

(* No event that was registered when the question came, and is not among   *)
(* the matches, is nearer than one that is; none is near when the answer   *)
(* is that the regime is novel.                                            *)
NothingNearer ==
  Asked =>
    \A k \in (1..context.known) \ Range(context.matches) :
      Similar(context.setup, k) >= MinSimilarity =>
        /\ Len(context.matches) = TopK
        /\ \A m \in Range(context.matches) :
             Similar(context.setup, k) <= Similar(context.setup, m)

(* "High" confidence is of an event of the same type, however alike two    *)
(* events are in everything else.                                          *)
HighIsOfItsType ==
  Asked /\ context.confidence = "high" =>
    events[context.matches[1]].fingerprint.event_type = context.setup.event_type

(* The outcomes that are averaged are those of the events that matched,    *)
(* when none was corrected under its id.                                   *)
OutcomesAreOfTheMatches ==
  Asked /\ ~corrected =>
    context.outcomes =
      Known([m \in DOMAIN context.matches |-> events[context.matches[m]]], "outcome")

(* "Does NOT override deterministic limits; only informs"                  *)
(* (integration.py:362): advice stays between one and five per cent, and   *)
(* goes above what was asked for only up to the one per cent, or for the   *)
(* champion's returns when the drawdown predicted is below ten per cent;   *)
(* no model of drawdowns predicts none.                                    *)
AdviceIsEarned ==
  advice # NoAdvice =>
    /\ advice.size \in 100..500
    /\ advice.size > Max({advice.base, 100}) =>
         /\ \E r \in advice.of : r.champion /\ r.sharpe > 12
         /\ \E d \in advice.of : d = Nobody \/ (d.drawdown # 0 /\ d.drawdown < 10)

(* What the engine says is what its records say: the parts above together. *)
Grounded ==
  /\ NothingNearer
  /\ HighIsOfItsType
  /\ OutcomesAreOfTheMatches
  /\ AdviceIsEarned
=============================================================================
