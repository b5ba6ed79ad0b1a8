------------------------------- MODULE Sizing -------------------------------
(***************************************************************************)
(* From evidence to an order's size.  Month by month,                      *)
(* analytics/monthly_leverage_simulation.py turns evidence into a quality  *)
(* (conviction_engine.py), ratchets a leverage ceiling by the quality's    *)
(* tier, and holds the ceiling against the risk caps (leverage_engine.py); *)
(* position_sizer.py turns what is approved into shares or contracts.      *)
(* Beside it, analytics/pipeline.py holds a disclosed trade against the    *)
(* signal gate and has the convex optimizer allocate.                      *)
(*                                                                         *)
(* Scores are in per cent, in multiples of ten, so that quality and        *)
(* leverage are whole ten-thousandths; caps, which are ratios, are rounded *)
(* down.  Weights of an allocation are in per cent, which the optimizer's  *)
(* tolerance of a ten-thousandth does not reach.                           *)
(***************************************************************************)
EXTENDS FiniteSetsExt, Integers

CONSTANTS
  Scores,         \* ConvictionInputs: the seven scores and the ambiguity
  Contexts,       \* what else a month's snapshot holds, limits included
  FloorLeverage,  \* floor_leverage
  Accounts,       \* [nav, allocation] to size for: hundreds, and per cent of them
  Prices,         \* of a share, or of a contract's premium
  Splits,         \* [long, short] weights in tenths that sum to one; 13/-3 is such
  Signals,        \* what the gate sees: [z, bid, ask], z in hundredths
  Solutions,      \* what a solver may return: [status, weights]
  Covariance,     \* of the securities to allocate to
  VarianceBudget, \* max_drawdown_limit, which is a variance
  MaxWeight,      \* max_single_position
  MaxMonths       \* bound: months

VARIABLES
  month,       \* months evaluated
  tier,        \* rank of the month before, None before the first
  ceiling,
  snapshot,    \* history: the context the ceiling was held against
  approved,
  order,       \* the SizingResult, if the month's decision was sized
  allocation   \* what process_disclosure_pipeline returned last

sizingVars == <<month, tier, ceiling, snapshot, approved, order, allocation>>

(* LeverageLimits are numbers (schemas.py:222); the simulator raises for a *)
(* negative floor (monthly_leverage_simulation.py:96), the sizer for a     *)
(* negative NAV or allocation (position_sizer.py:25) and for weights that  *)
(* do not sum to one (position_sizer.py:33), and a price that is not       *)
(* positive buys nothing (position_sizer.py:40).                           *)
ASSUME SizingAssumption ==
  /\ FloorLeverage \in Nat
  /\ \A context \in Contexts :
       /\ {context.worst, context.volatility, context.base, context.executable} \subseteq Int
       /\ IsFiniteSet(DOMAIN context.limits)
       /\ {"max_trade_loss", "volatility"} \subseteq DOMAIN context.limits
       /\ \A l \in DOMAIN context.limits : context.limits[l] \in Nat
  /\ \A account \in Accounts : account.nav \in Nat /\ account.allocation \in Nat
  /\ Prices \subseteq Nat \ {0}
  /\ \A split \in Splits :
       split.long \in Int /\ split.short \in Int /\ split.long + split.short = 10

NoTier == -1
NoOrder == [permitted |-> FALSE, kind |-> "NONE", cost |-> 0, target |-> 0,
            deployed |-> 10]
NoSnapshot == [worst |-> 0]

Securities == DOMAIN Covariance
ZeroWeights == [s \in Securities |-> 0]
Refused == [permitted |-> FALSE, weights |-> ZeroWeights]

SizingInit ==
  /\ month = 0
  /\ tier = NoTier
  /\ ceiling = FloorLeverage
  /\ snapshot = NoSnapshot
  /\ approved = 0
  /\ order = NoOrder
  /\ allocation = Refused

-----------------------------------------------------------------------------
(* ConvictionEngine, with the policy of config/conviction_policy.json.     *)

implementation_quality_weights ==
  [iav |-> 25, aqd_quality |-> 15, anomaly_score |-> 10, manager_breadth_score |-> 15,
   persistence_score |-> 15, diffusion_score |-> 10, evidence_quality |-> 10]

ambiguity_penalty_weight == 25
min_leverage == 5000
max_leverage == 20000

ASSUME ScoresAssumption ==
  \A scores \in Scores :
    /\ scores.ambiguity_penalty \in Int
    /\ \A s \in DOMAIN implementation_quality_weights : scores[s] \in Int

Quality(scores) ==
  LET core == SumFunction([s \in DOMAIN implementation_quality_weights |->
                             implementation_quality_weights[s] * scores[s]])
      penalized == core - ambiguity_penalty_weight * scores.ambiguity_penalty
  IN Max({0, Min({10000, penalized})})

\* classify_quality, as its TIER_RANK: weak, emerging, confirmed, strong.
TierRank(quality) ==
  Cardinality({threshold \in {3000, 6000, 8000} : quality >= threshold})

RequestedLeverage(quality) ==
  min_leverage + (quality * (max_leverage - min_leverage)) \div 10000

-----------------------------------------------------------------------------
(* MonthlyLeverageSimulator.run                                            *)

\* Mutation: evidence that degrades leaves the ceiling where it is.
NextCeilingHeld(rank, requested) ==
  IF tier = NoTier THEN Max({FloorLeverage, requested})
  ELSE IF rank > tier THEN Max({ceiling, requested}) ELSE ceiling

NextCeiling(rank, requested) ==
  IF tier = NoTier THEN Max({FloorLeverage, requested})
  ELSE IF rank > tier THEN Max({ceiling, requested})
  ELSE IF rank < tier THEN Min({ceiling, requested}) ELSE ceiling

\* LeverageEngine.evaluate: a ratio that is undefined caps to zero.
Ratio(n, d) == IF d <= 0 THEN 0 ELSE (10000 * n) \div d

\* The worst case is a loss by its magnitude, whatever its sign.
Loss(context) == IF context.worst < 0 THEN -context.worst ELSE context.worst

Caps(context) ==
  {context.limits[l] : l \in DOMAIN context.limits \ {"max_trade_loss", "volatility"}}
  \union {Ratio(context.limits.max_trade_loss, Loss(context)),
          Ratio(context.limits.volatility, context.volatility),
          Ratio(context.executable, context.base)}

Month ==
  /\ month < MaxMonths
  /\ month' = month + 1
  /\ \E scores \in Scores, context \in Contexts :
       LET quality == Quality(scores)
       IN /\ tier' = TierRank(quality)
          /\ ceiling' = NextCeiling(TierRank(quality), RequestedLeverage(quality))
          /\ snapshot' = context
          /\ approved' = Max({0, Min({ceiling'} \union Caps(context))})
  /\ order' = NoOrder
  /\ UNCHANGED allocation

-----------------------------------------------------------------------------
(* PositionSizer, of the month's decision.                                 *)

\* In millionths of a unit of the NAV's currency.
TargetNotional(account) == account.nav * account.allocation * approved

Pieces(notional, price) == notional \div (1000000 * price)

Sized(kind, account, pieces, price, deployed) ==
  /\ order' = [permitted |-> approved > 0 /\ pieces > 0, kind |-> kind,
               cost |-> pieces * price, target |-> TargetNotional(account),
               deployed |-> deployed]
  /\ UNCHANGED <<month, tier, ceiling, snapshot, approved, allocation>>

\* Tenths of the target that the legs of a split stand for: a leg of a weight
\* that is not positive buys nothing, and the other is then above the target.
Deployed(split) == Max({split.long, split.short, 10})

\* Both legs are at one price.
SizeEquity(account, price, split) ==
  LET leg(weight) == IF weight <= 0 THEN 0
                     ELSE Pieces((TargetNotional(account) \div 10) * weight, price)
  IN Sized("EQUITY", account, leg(split.long) + leg(split.short), price, Deployed(split))

SizeOptions(account, premium) ==
  Sized("OPTIONS", account, Pieces(TargetNotional(account), 100 * premium), 100 * premium, 10)

-----------------------------------------------------------------------------
(* process_disclosure_pipeline                                             *)

\* verify_order, spread at most 1.5 per cent; the diffusion score, of a graph
\* of two nodes, is always enough.
GatePermits(signal) ==
  /\ signal.z >= 196
  /\ signal.bid > 0 /\ signal.ask > 0 /\ signal.ask >= signal.bid
  /\ 1000 * (signal.ask - signal.bid) <= 15 * signal.ask

Variance(weights) ==
  MapThenSumSet(LAMBDA pair : weights[pair[1]] * weights[pair[2]] * Covariance[pair[1]][pair[2]],
                Securities \X Securities)

Breached(weights) ==
  \/ Variance(weights) > VarianceBudget
  \/ \E s \in Securities : weights[s] > MaxWeight \/ weights[s] < 0
  \/ MapThenSumSet(LAMBDA s : weights[s], Securities) > 100

\* optimize_allocation_result: SCS is tried when CLARABEL raises.
Solved(clarabel) == IF clarabel.status = "RAISED" THEN Solutions ELSE {clarabel}

Allocated(solution) ==
  IF \/ solution.status \notin {"OPTIMAL", "OPTIMAL_INACCURATE"}
     \/ Breached(solution.weights)
  THEN Refused
  ELSE [permitted |-> solution.weights # ZeroWeights, weights |-> solution.weights]

DisclosurePipeline(signal) ==
  /\ \/ ~GatePermits(signal) /\ allocation' = Refused
     \/ /\ GatePermits(signal)
        /\ \E clarabel \in Solutions :
             \E solution \in Solved(clarabel) : allocation' = Allocated(solution)
  /\ UNCHANGED <<month, tier, ceiling, snapshot, approved, order>>

SizingNext ==
  \/ Month
  \/ /\ month > 0
     /\ \E account \in Accounts, price \in Prices :
          \/ \E split \in Splits : SizeEquity(account, price, split)
          \/ SizeOptions(account, price)
  \/ \E signal \in Signals : DisclosurePipeline(signal)

SizingSpec == SizingInit /\ [][SizingNext]_sizingVars

-----------------------------------------------------------------------------
(* "The ceiling only rises when the current month's quality tier ranks     *)
(* strictly above the prior month's tier.  It falls immediately when the   *)
(* tier degrades" (monthly_leverage_simulation.py:74): however the tiers   *)
(* went up and down and were held, the ceiling is one that evidence of     *)
(* this month's tier could have asked for, or the floor.                   *)
CeilingFitsTheTier ==
  month > 0 =>
    \/ ceiling = FloorLeverage
    \/ TierRank(((ceiling - min_leverage) * 10000) \div (max_leverage - min_leverage)) = tier

(* "Risk rules can always override signal strength" (leverage_engine.py:13)*)
(* to the order: it costs at most what the ceiling allows, it can be       *)
(* executed, and, in shares, the worst case loses at most the budget of    *)
(* the sleeve - each times what the split deploys of the target, which is  *)
(* more than all of it for 130/-30: position_sizer.py:33 asks for the sum  *)
(* of the weights alone, and no cap is held against the legs.              *)
OrderIsFunded ==
  order.permitted =>
    /\ 10000000 * order.cost <= order.target * order.deployed
    /\ \E account \in Accounts :
         /\ order.target = TargetNotional(account)
         /\ order.target <= account.nav * account.allocation * ceiling
         /\ order.cost * 1000 * snapshot.base
              <= account.nav * account.allocation * snapshot.executable * order.deployed
         /\ order.kind = "EQUITY" =>
              order.cost * 1000 * Loss(snapshot)
                <= account.nav * account.allocation * snapshot.limits.max_trade_loss * order.deployed

(* Whatever the two solvers return or raise, what may be traded is within  *)
(* the hard constraints, and what may not carries no weight.               *)
AllocationFailsClosed ==
  IF allocation.permitted THEN ~Breached(allocation.weights)
  ELSE allocation.weights = ZeroWeights

(* Leverage and weights are earned: the parts above together.              *)
CapitalIsEarned ==
  /\ CeilingFitsTheTier
  /\ OrderIsFunded
  /\ AllocationFailsClosed
=============================================================================
