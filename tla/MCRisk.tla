------------------------------- MODULE MCRisk -------------------------------
(***************************************************************************)
(* The risk controls: the governor over the kill switch, the exposure of   *)
(* the sleeves, and the sizing of an order.  In src/ none calls another,   *)
(* so a behaviour of this instance is a behaviour of one while the others  *)
(* stay in their initial states.                                           *)
(*                                                                         *)
(* Two people, three authorised roles and one that is not; ann holds two   *)
(* of the roles, as authorization_verifier may well allow.  Two sleeves of *)
(* half the NAV: etf under the capital-flow gate, stock under the legacy   *)
(* one.  Each is given evidence that enters, harvests, closes, is refused, *)
(* deteriorates while its progress grows, or raises.  Evidence of the      *)
(* sizing is of each tier, twice and at its lower bound; a month's context *)
(* binds none of the limits, or the loss, the volatility, the liquidity or *)
(* an absolute one, or leaves a ratio undefined.                           *)
(***************************************************************************)
EXTENDS Governor, Exposure, Sizing

CONSTANTS ann, bob, cco, pm, cfo, trader

MCVerified == {<<ann, cco>>, <<ann, pm>>, <<bob, pm>>, <<bob, cfo>>, <<bob, trader>>}

\* One that fails nothing, and one for each rule: an empty one, one issuer,
\* three of which none is above its own cap, and one figure over its limit.
Sound == [weights |-> [i \in {"a", "b", "c"} |-> IF i = "c" THEN 5 ELSE 25],
          var |-> 200, illiquid |-> 15, aligned |-> 80, drawdown |-> 15]

MCPortfolios ==
  {Sound,
   [Sound EXCEPT !.weights = [i \in {} |-> 0]],
   [Sound EXCEPT !.weights = [i \in {"a"} |-> 26]],
   [Sound EXCEPT !.weights["c"] = 6],
   [Sound EXCEPT !.var = 201],
   [Sound EXCEPT !.illiquid = 16],
   [Sound EXCEPT !.aligned = 79],
   [Sound EXCEPT !.drawdown = 16]}

MCOrder == <<"etf", "stock">>
MCWeight == [s \in {"etf", "stock"} |-> 50]
MCDirection == [etf |-> 1, stock |-> -1]
MCMaxLeverage == [etf |-> 900, stock |-> 150]

Strong(flow, flaws, move, generic) ==
  [rank |-> 4, flow |-> flow, flaws |-> flaws, move |-> move,
   generic |-> generic, limit |-> 1000]

MCEvidence ==
  [etf |->
     {Strong(0, {}, 0, 0), Strong(40, {}, 5, 40), Strong(100, {"EV"}, 8, 30),
      Strong(0, {"INVALIDATION"}, -20, 0), Strong(120, {}, 0, 0)}
     \union
     {[rank |-> 3, flow |-> 50, flaws |-> {}, move |-> 8, generic |-> 30, limit |-> 1000],
      [rank |-> 1, flow |-> 90, flaws |-> {}, move |-> 0, generic |-> 0, limit |-> 100],
      [rank |-> 2, flow |-> 0, flaws |-> {}, move |-> -4, generic |-> 10, limit |-> 0],
      [rank |-> 2, flow |-> 0, flaws |-> {}, move |-> 0, generic |-> 10, limit |-> 800]},
   stock |->
     {Strong(0, {}, 0, 0), Strong(0, {"CONFIRMATION"}, 30, 10), Strong(0, {"THESIS"}, 0, 0),
      [rank |-> 2, flow |-> 0, flaws |-> {}, move |-> 25, generic |-> 10, limit |-> 1000]}]

Level(n, ambiguity) ==
  [s \in DOMAIN implementation_quality_weights \union {"ambiguity_penalty"} |->
     IF s = "ambiguity_penalty" THEN ambiguity ELSE n]

MCScores ==
  {Level(n, 0) : n \in {20, 30, 50, 60, 70, 80, 100}}
  \union {Level(90, 100), [Level(0, 40) EXCEPT !.iav = 20],
          [Level(80, 0) EXCEPT !.iav = 40, !.diffusion_score = 30]}

Roomy ==
  [worst |-> -5, volatility |-> 10, base |-> 100, executable |-> 1000,
   limits |-> [max_trade_loss |-> 20, volatility |-> 40, max_absolute |-> 20000,
               concentration |-> 20000, portfolio |-> 20000]]

MCContexts ==
  {Roomy, [Roomy EXCEPT !.worst = 40], [Roomy EXCEPT !.volatility = 50],
   [Roomy EXCEPT !.executable = 60], [Roomy EXCEPT !.limits.concentration = 7000],
   [Roomy EXCEPT !.worst = 0]}

MCAccounts == {[nav |-> 100, allocation |-> 50]}
MCSplits == {[long |-> 10, short |-> 0], [long |-> 5, short |-> 5], [long |-> 13, short |-> -3],
             [long |-> -3, short |-> 13]}

MCSignals == {[z |-> 196, bid |-> 985, ask |-> 1000], [z |-> 196, bid |-> 984, ask |-> 1000],
              [z |-> 195, bid |-> 10, ask |-> 10], [z |-> 300, bid |-> 10, ask |-> 9],
              [z |-> 300, bid |-> 0, ask |-> 9]}

MCCovariance == [s \in {"x", "y"} |-> [t \in {"x", "y"} |-> IF s = t THEN 4 ELSE 1]]

\* What a solver may say of weights that are right, over a limit each, or nothing.
MCSolutions ==
  {[status |-> "OPTIMAL", weights |-> [s \in {"x", "y"} |-> IF s = "x" THEN w[1] ELSE w[2]]] :
     w \in {<<0, 0>>, <<10, 10>>, <<11, 0>>, <<10, -1>>, <<10, 9>>}}
  \union {[status |-> status, weights |-> [s \in {"x", "y"} |-> 8]] :
            status \in {"INFEASIBLE", "RAISED"}}

RiskInit == GovernorInit /\ ExposureInit /\ SizingInit

(* What the governor is made with does not matter to the others.           *)
Ungoverned == GovernorInit /\ configured /\ reliable

RiskNext ==
  \/ GovernorNext /\ ExposureInit /\ SizingInit /\ UNCHANGED <<exposureVars, sizingVars>>
  \/ Ungoverned /\ SizingInit /\ ExposureNext /\ UNCHANGED <<governorVars, sizingVars>>
  \/ Ungoverned /\ ExposureInit /\ SizingNext /\ UNCHANGED <<governorVars, exposureVars>>

RiskSpec == RiskInit /\ [][RiskNext]_<<governorVars, exposureVars, sizingVars>>
=============================================================================
