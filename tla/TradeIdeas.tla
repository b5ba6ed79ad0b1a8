---------------------------- MODULE TradeIdeas ----------------------------
(***************************************************************************)
(* From a universe of funds to the alternatives a person chooses from, for *)
(* one theme and function: research/strategy_generation.py builds the      *)
(* strategy, research/synthesis.py reads its funds' disclosures,           *)
(* research/implementations.py or a language model behind the gate of      *)
(* research/llm_implementations.py proposes how to express it.             *)
(*                                                                         *)
(* Returns and risks are in hundredths of a percent, fits, shares and      *)
(* liquidity in percent.  The measured edge of a security is chosen, not   *)
(* computed; the assumptions are the defaults (180 days, a volatility of   *)
(* 28 percent, half of a position hedged, calls 20 percent in the money).  *)
(* Proposals have the shape the schema of the model's answer demands.      *)
(***************************************************************************)
EXTENDS FiniteSetsExt, Integers, SequencesExt

CONSTANTS
  Universes,     \* sets of funds: [ticker, class, theme, functions, cluster, liquidity]
  Theme, Function,
  Panels,        \* sets of disclosed rows: [fund, security, date, units]
  Edges,         \* composite scores of the securities, -100..100
  Proposals,     \* what a model may propose: candidates
  MaxProposals   \* bound: proposals in one answer

VARIABLES
  stage,        \* how far the idea has come
  strategy,     \* StrategyCandidate
  synthesis,    \* ThemeSynthesis
  answer,       \* history: what the model proposed
  menu,         \* the alternatives, best first
  quarantined   \* of the model's proposals

(* A fund's score of liquidity and a measured edge are numbers, a row is   *)
(* of shares held, and a proposal has the figures ProposedImplementation   *)
(* demands, or has left them out.                                          *)
Unstated == -9999

ASSUME IdeasAssumption ==
  /\ \A universe \in Universes : IsFiniteSet(universe) /\ \A f \in universe : f.liquidity \in Int
  /\ \A panel \in Panels : IsFiniteSet(panel) /\ \A row \in panel : row.units \in Nat \ {0}
  /\ Edges \subseteq Int
  /\ \A proposal \in Proposals :
       /\ proposal.by # "EDGE" /\ proposal.fit \in 0..100
       /\ proposal.expected \in Int /\ proposal.downside \in Nat \union {Unstated}
       /\ proposal.carry \in Nat \union {Unstated}
       /\ proposal.liquidity \in 0..100 \union {Unstated}
  /\ MaxProposals \in Nat

ideaVars == <<stage, strategy, synthesis, answer, menu, quarantined>>

NoStrategy == [signal |-> {}, vehicles |-> <<>>, controls |-> <<>>, rejections |-> {}]
NoSynthesis == [securities |-> <<>>, blocked |-> {}]

IdeasInit ==
  /\ stage = "UNIVERSE"
  /\ strategy = NoStrategy
  /\ synthesis = NoSynthesis
  /\ answer = <<>>
  /\ menu = <<>>
  /\ quarantined = <<>>

-----------------------------------------------------------------------------
(* Some places of a sequence, sorted by a figure, the highest first; equal *)
(* ones keep their order.                                                  *)
Sorted(seq, places, figure) ==
  LET before(k) == {j \in places : figure[j] > figure[k] \/ (figure[j] = figure[k] /\ j < k)}
  IN [m \in 1..Cardinality(places) |->
        seq[CHOOSE k \in places : Cardinality(before(k)) = m - 1]]

-----------------------------------------------------------------------------
(* The strategy.                                                           *)

SIGNAL_CLASSIFICATIONS == {"active_thematic", "rules_based_thematic", "specialist_adjacency"}
MIN_INDEPENDENT_CLUSTERS == 2

ByLiquidity(funds) ==
  LET all == SetToSeq(funds)
  IN Sorted(all, DOMAIN all, [k \in DOMAIN all |-> all[k].liquidity])

Upto(seq, n) == SubSeq(seq, 1, Min({n, Len(seq)}))

ClustersOf(funds) == {f.cluster : f \in funds}

Strategy(universe) ==
  LET expresses(f) == Function \in f.functions
      signal == {f \in universe : /\ f.theme = Theme /\ expresses(f)
                                  /\ f.class \in SIGNAL_CLASSIFICATIONS}
      dedicated == {f \in universe : /\ f.class = "implementation_etf"
                                     /\ f.theme = Theme \/ expresses(f)}
      vehicles == ByLiquidity(dedicated) \o ByLiquidity(signal)
      passive == {f \in universe : f.class = "broad_passive_control"}
  IN [signal     |-> signal,
      vehicles   |-> Upto(vehicles, 5),
      controls   |-> Upto(SetToSeq(passive), 3),
      rejections |->
        (IF signal = {} THEN {"NO_DISCLOSING_SIGNAL_FUNDS"} ELSE {})
        \union (IF Cardinality(ClustersOf(signal)) < MIN_INDEPENDENT_CLUSTERS
                THEN {"INSUFFICIENT_MANAGER_BREADTH"} ELSE {})
        \union (IF vehicles = <<>> THEN {"NO_IMPLEMENTATION_VEHICLE"} ELSE {})]

BuildStrategy ==
  /\ stage = "UNIVERSE"
  /\ \E universe \in Universes : strategy' = Strategy(universe)
  /\ stage' = "STRATEGY"
  /\ UNCHANGED <<synthesis, answer, menu, quarantined>>

-----------------------------------------------------------------------------
(* The synthesis of what its signal funds disclose.                        *)

MIN_OBSERVATION_DATES == 2

\* compute_cluster_breadth, compute_manager_hhi: over every date of the panel.
Security(panel, id, edge) ==
  LET rows == {r \in panel : r.security = id}
      cluster(r) == (CHOOSE f \in strategy.signal : f.ticker = r.fund).cluster
      clusters == {cluster(r) : r \in rows}
      units == [c \in clusters |->
                  SumFunctionOnSet([r \in rows |-> IF cluster(r) = c THEN r.units ELSE 0], rows)]
      total == SumFunctionOnSet(units, clusters)
      squares == SumFunctionOnSet([c \in clusters |-> units[c] * units[c]], clusters)
  IN [ticker |-> id, edge |-> edge, breadth |-> Cardinality(clusters),
      hhi |-> (100 * squares) \div (total * total)]

\* A strategy that was rejected is synthesized all the same.
SynthesizeTheme ==
  /\ stage = "STRATEGY"
  /\ \E disclosed \in Panels :
       LET panel == {r \in disclosed : \E f \in strategy.signal : f.ticker = r.fund}
           ids == {r.security : r \in panel}
           dates == {r.date : r \in panel}
           blocked == IF panel = {} THEN {"NO_DISCLOSURES_AVAILABLE"}
                      ELSE IF Cardinality(dates) < MIN_OBSERVATION_DATES
                      THEN {"INSUFFICIENT_HISTORY"} ELSE {}
       IN \E edges \in [ids -> Edges] :
            synthesis' =
              [blocked |-> blocked,
               securities |-> IF blocked # {} THEN <<>>
                              ELSE [k \in DOMAIN SetToSeq(ids) |->
                                      LET id == SetToSeq(ids)[k] IN Security(panel, id, edges[id])]]
  /\ stage' = "SYNTHESIS"
  /\ UNCHANGED <<strategy, answer, menu, quarantined>>

RankedSecurities ==
  LET all == synthesis.securities
  IN Sorted(all, DOMAIN all, [k \in DOMAIN all |-> all[k].edge])

-----------------------------------------------------------------------------
(* A candidate: expected, downside, carry and liquidity are Unstated when  *)
(* the model left them out; an option names its underlying.                *)

Round(n, d) == (2 * n + d) \div (2 * d)

Clamp(percent) == Max({0, Min({100, percent})})

\* What is left of a return when it is paid for, by fit and liquidity; a figure of
\* zero counts as none.
Weighted(c) ==
  LET carry == IF c.carry = Unstated THEN 0 ELSE c.carry
      liquidity == IF c.liquidity \in {0, Unstated} THEN 50 ELSE c.liquidity
  IN (c.expected - carry) * c.fit * (100 + liquidity)

\* risk_adjusted_score, in ten-thousandths.
Score(c) ==
  IF Unstated \in {c.expected, c.downside} THEN 0
  ELSE IF c.downside = 0 THEN Weighted(c) * 50 ELSE Round(Weighted(c), 2 * c.downside)

Ranked(candidates, kept) == Sorted(candidates, kept, [k \in kept |-> Score(candidates[k])])

Candidate(kind, fit, expected, downside, carry, liquidity, tickers) ==
  [kind |-> kind, by |-> "EDGE", fit |-> Clamp(fit), expected |-> expected,
   downside |-> downside, carry |-> carry, liquidity |-> liquidity, tickers |-> tickers,
   risks |-> TRUE, roles |-> TRUE]

NoTrade(edge) ==
  Candidate("NO_TRADE", 100 - (IF edge < 0 THEN -edge ELSE edge), 0, 0, 0, 100, {})

\* What the deterministic builders make of the leader; each only where it can be had.
Own(leader) ==
  LET horizon == Round(1233 * leader.edge, 100)
      breadth == Min({leader.breadth, 3})
      bullish == Max({0, leader.edge})
      members == Upto(RankedSecurities, 4)
      fund == Head(strategy.vehicles)
      hedge == Head(strategy.controls)
      when(eligible, candidate) == IF eligible THEN <<candidate>> ELSE <<>>
      vehicle == strategy.vehicles # <<>>
  IN when(vehicle,
          Candidate("ETF_LONG", 55 + 15 * breadth - Round(3 * leader.hhi, 10),
                    horizon, 3235, 0, fund.liquidity, {fund.ticker}))
     \o when(vehicle /\ strategy.controls # <<>>,
          Candidate("ETF_HEDGED", 70 + 10 * breadth - Round(leader.hhi, 5),
                    Round(4 * horizon, 5), 1617, 86,
                    (fund.liquidity + hedge.liquidity) \div 2, {fund.ticker, hedge.ticker}))
     \o when(vehicle,
          Candidate("OPTIONS", 25 + Round(3 * bullish, 4), Round(4024 * horizon, 1000),
                    10000, 1371, Round(7 * fund.liquidity, 10), {fund.ticker}))
     \o <<Candidate("SINGLE_NAME", 20 + Round(leader.hhi, 2) + Round(3 * bullish, 10),
                    Round(14 * horizon, 10), 5175, 0, 60, {leader.ticker})>>
     \o when(Len(members) >= 2,
          Candidate("EQUITY_BASKET", 45 + 15 * Len(members) - Round(3 * leader.hhi, 10),
                    Round(115 * horizon, 100), 4043, 0, 55,
                    {members[k].ticker : k \in DOMAIN members}))

HasLeader == synthesis.securities # <<>>
Leader == Head(RankedSecurities)

NullOption == NoTrade(IF HasLeader THEN Leader.edge ELSE 0)

Ideas(candidates) == {k \in DOMAIN candidates : candidates[k].kind # "NO_TRADE"}

\* Mutation: EDGE's own null option is added unless the model has proposed one.
ClosedUnlessOffered(candidates) ==
  IF Ideas(candidates) # DOMAIN candidates THEN Ranked(candidates, DOMAIN candidates)
  ELSE Ranked(Append(candidates, NullOption), 1..Len(candidates) + 1)

\* "The null option is never sourced from the model."
Closed(candidates) ==
  Ranked(Append(candidates, NullOption), Ideas(candidates) \union {Len(candidates) + 1})

Offered(closed, proposed, refused) ==
  /\ stage' = "MENU"
  /\ menu' = closed
  /\ answer' = proposed
  /\ quarantined' = refused
  /\ UNCHANGED <<strategy, synthesis>>

GenerateOwn ==
  /\ stage = "SYNTHESIS"
  /\ Offered(Closed(IF HasLeader THEN Own(Leader) ELSE <<>>), <<>>, <<>>)

-----------------------------------------------------------------------------
(* The model's proposals and their gate.                                   *)

MIN_LIQUIDITY == 5

permitted_tickers ==
  {f.ticker : f \in strategy.signal}
    \union {strategy.vehicles[k].ticker : k \in DOMAIN strategy.vehicles}
    \union {strategy.controls[k].ticker : k \in DOMAIN strategy.controls}
    \union {synthesis.securities[k].ticker : k \in DOMAIN synthesis.securities}

Violates(proposal, accepted) ==
  \/ \E k \in DOMAIN accepted : accepted[k].kind = proposal.kind
  \/ /\ proposal.kind # "NO_TRADE"
     /\ proposal.tickers = {} \/ ~(proposal.tickers \subseteq permitted_tickers)
  \/ proposal.liquidity # Unstated /\ proposal.liquidity < MIN_LIQUIDITY
  \/ proposal.kind = "OPTIONS" /\ ~proposal.risks
  \/ ~proposal.roles

\* One after the other, in the order they were given.
Judged(verdict, proposal) ==
  IF Violates(proposal, verdict.accepted)
  THEN [verdict EXCEPT !.refused = Append(@, proposal)]
  ELSE [verdict EXCEPT !.accepted = Append(@, proposal)]

Gate(proposed) ==
  LET verdict[n \in 0..Len(proposed)] ==
        IF n = 0 THEN [accepted |-> <<>>, refused |-> <<>>]
        ELSE Judged(verdict[n - 1], proposed[n])
  IN verdict[Len(proposed)]

AskModel ==
  /\ stage = "SYNTHESIS"
  /\ \E proposed \in SeqOf(Proposals, MaxProposals) :
       LET verdict == Gate(proposed)
       IN Offered(Closed(verdict.accepted), proposed, verdict.refused)

\* Any failure of the call degrades to nothing proposed.
ModelFails == stage = "SYNTHESIS" /\ Offered(Closed(<<>>), <<>>, <<>>)

IdeasNext == BuildStrategy \/ SynthesizeTheme \/ GenerateOwn \/ AskModel \/ ModelFails

IdeasSpec == IdeasInit /\ [][IdeasNext]_ideaVars

-----------------------------------------------------------------------------
(* Whatever a model proposes, and in whatever order, "the model invents    *)
(* nothing" (llm_implementations.py:120) and loses nothing: the menu has   *)
(* each kind once, EDGE's own null option, and for the rest instruments    *)
(* the research has named; every proposal is in it or quarantined, apart   *)
(* from a null option; and nothing that is expected to lose, by more than  *)
(* a score rounds away, stands before doing nothing.                       *)
MenuStands ==
  stage = "MENU" =>
    LET kinds == {menu[k].kind : k \in DOMAIN menu}
        null == CHOOSE k \in DOMAIN menu : menu[k].kind = "NO_TRADE"
        gated == {k \in DOMAIN menu : menu[k].by # "EDGE"}
    IN /\ Cardinality(kinds) = Len(menu)
       /\ "NO_TRADE" \in kinds /\ menu[null].by = "EDGE"
       /\ \A k \in DOMAIN menu \ {null} :
            menu[k].tickers # {} /\ menu[k].tickers \subseteq permitted_tickers
       /\ Cardinality(gated) + Cardinality(Ideas(quarantined)) = Cardinality(Ideas(answer))
       /\ \A k \in 1..null - 1 :
            Unstated \in {menu[k].expected, menu[k].downside} \/ -Weighted(menu[k]) <= menu[k].downside
=============================================================================
