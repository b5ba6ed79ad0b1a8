------------------------------ MODULE MCAgent ------------------------------
(***************************************************************************)
(* The research: the agent with two strategies, the disclosures of a fund, *)
(* and the alternatives for one theme and function.  The agent takes from  *)
(* the other two only whether a synthesis is usable and which kinds are    *)
(* offered, which it chooses freely, so a behaviour of this instance is a  *)
(* behaviour of one of the three while the others stay in their initial    *)
(* state.                                                                  *)
(***************************************************************************)
EXTENDS Agent, Disclosures, TradeIdeas

Perms == Permutations(Strategies)

Fund(ticker, class, theme, functions, cluster, liquidity) ==
  [ticker |-> ticker, class |-> class, theme |-> theme, functions |-> functions,
   cluster |-> cluster, liquidity |-> liquidity]

Alpha == Fund("ALPHA", "active_thematic", "grid", {"storage"}, "A", 60)
Beta == Fund("BETA", "specialist_adjacency", "grid", {"storage"}, "B", 40)
Pure == Fund("PURE", "implementation_etf", "water", {"storage"}, "C", 80)
Index == Fund("INDEX", "broad_passive_control", "broad", {}, "D", 95)

MCUniverses == {{Index, Pure}, {Alpha, Pure}, {Alpha, Beta, Index}, {Alpha, Beta, Pure, Index}}

Row(fund, security, date, units) ==
  [fund |-> fund, security |-> security, date |-> date, units |-> units]

MCPanels ==
  {{Row("ALPHA", "X", 1, 3)},
   {Row("ALPHA", "X", 1, 3), Row("BETA", "X", 2, 1), Row("BETA", "Y", 2, 2), Row("ALPHA", "Y", 2, 2)}}

MCEdges == {-40, 5, 60}

\* Sound ones, one for each thing the gate refuses, and one for each default of the score.
Proposed(kind, expected, downside, tickers) ==
  [kind |-> kind, by |-> "MODEL", fit |-> 50, expected |-> expected, downside |-> downside,
   carry |-> Unstated, liquidity |-> Unstated, tickers |-> tickers, risks |-> TRUE, roles |-> TRUE]

MCProposals ==
  {Proposed("ETF_LONG", 300, 2000, {"ALPHA"}),
   Proposed("ETF_LONG", -300, 2000, {"ALPHA"}),
   Proposed("OPTIONS", 200, 0, {"PURE"}),
   [Proposed("OPTIONS", 200, 5000, {"ALPHA"}) EXCEPT !.risks = FALSE],
   Proposed("SINGLE_NAME", Unstated, 100, {"Y"}),
   Proposed("EQUITY_BASKET", 400, 3000, {"X", "INVENTED"}),
   [Proposed("ETF_HEDGED", 100, 900, {"ALPHA", "INDEX"}) EXCEPT !.carry = 150],
   [Proposed("NO_TRADE", 900, 10, {}) EXCEPT !.liquidity = 100]}

ResearchInit == AgentInit /\ DisclosuresInit /\ IdeasInit

\* Bound: in a behaviour an append raises, or a host acts, but not both.
OneMishap == failures' + switches' <= 1

ResearchNext ==
  \/ DisclosuresInit /\ IdeasInit /\ AgentNext /\ OneMishap /\ UNCHANGED <<disclosureVars, ideaVars>>
  \/ AgentInit /\ IdeasInit /\ DisclosuresNext /\ UNCHANGED <<agentVars, ideaVars>>
  \/ AgentInit /\ DisclosuresInit /\ IdeasNext /\ UNCHANGED <<agentVars, disclosureVars>>

ResearchSpec == ResearchInit /\ [][ResearchNext]_<<agentVars, disclosureVars, ideaVars>>
=============================================================================
