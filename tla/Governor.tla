------------------------------ MODULE Governor ------------------------------
(***************************************************************************)
(* RiskGovernor of risk/risk_governor.py over the kill switch: an audit    *)
(* holds a portfolio against the statutory limits and the drawdown limit,  *)
(* trips the switch for what it finds, and passes only when it finds       *)
(* nothing and the switch is not locked.  Weights and ratios are in per    *)
(* cent.  Everything else the switch does may happen between two audits.   *)
(***************************************************************************)
EXTENDS FiniteSetsExt, KillSwitch

CONSTANT
  Portfolios   \* what audits are asked about

VARIABLES
  configured,  \* config_valid: whether the policy file could be read; never changes
  verdict,     \* of the last audit: PASSED or REFUSED, NONE when it raised
  open         \* history: an audit found a breach and its trip was written;
               \* no two roles signed since, and no later trip was lost

governorVars == <<vars, configured, verdict, open>>

GovernorInit ==
  /\ Init
  /\ configured \in BOOLEAN
  /\ verdict = "NONE"
  /\ open = FALSE

-----------------------------------------------------------------------------
(* DeterministicExecutionGate: the rules a portfolio fails.                *)

SingleCap == 25
AggregateCap == 50
Concentrated == 5
VarLimit == 200
IlliquidCap == 15
NamesFloor == 80
DrawdownLimit == 15

Issuers(p) == DOMAIN p.weights

ConcentratedWeight(p) ==
  MapThenSumSet(LAMBDA i : p.weights[i], {i \in Issuers(p) : p.weights[i] > Concentrated})

Violations(p) ==
  {r \in {"EMPTY", "SINGLE", "AGGREGATE", "VAR", "LIQUIDITY", "NAMES"} :
     \/ r = "EMPTY"     /\ Issuers(p) = {}
     \/ r = "SINGLE"    /\ \E i \in Issuers(p) : p.weights[i] > SingleCap
     \/ r = "AGGREGATE" /\ ConcentratedWeight(p) > AggregateCap
     \/ r = "VAR"       /\ p.var > VarLimit
     \/ r = "LIQUIDITY" /\ p.illiquid > IlliquidCap
     \/ r = "NAMES"     /\ p.aligned < NamesFloor}

-----------------------------------------------------------------------------
Breaches(p) == ~configured \/ p.drawdown > DrawdownLimit \/ Violations(p) # {}

\* Mutation: an audit that fails is refused, and the switch left alone.
TripsForDrawdown(p) == ~configured \/ p.drawdown > DrawdownLimit

\* What the governor trips the switch for: all it finds.  A drawdown and a
\* violation at once trip it twice, to the same effect.
Trips(p) == Breaches(p)

(* evaluate_pre_trade_compliance.  It raises when a trip cannot be         *)
(* written, or when the audit record cannot: after the trip in any case.   *)
Audit ==
  \E p \in Portfolios :
    /\ IF Trips(p)
       THEN Engage("TRIPPED_AUTO", rejections)
       ELSE UNCHANGED <<state, rejections, sigs, disk, signed, tripLost>>
    /\ UNCHANGED <<reliable, streak, configured>>
    /\ \/ verdict' = "NONE"
       \/ /\ ~(Trips(p) /\ tripLost')
          /\ verdict' = IF Breaches(p) \/ Locked
                        THEN "REFUSED" ELSE "PASSED"
    /\ open' = IF Breaches(p) THEN ~tripLost' ELSE open

\* Any operation of the switch itself.
SwitchMoves ==
  /\ Next
  /\ open' = (open /\ ~tripLost' /\ ~\E s, t \in signed' : s[2] # t[2])
  /\ UNCHANGED <<configured, verdict>>

GovernorNext == Audit \/ SwitchMoves

GovernorSpec == GovernorInit /\ [][GovernorNext]_governorVars

-----------------------------------------------------------------------------
(* Properties.                                                             *)

(* "Trip kill switch automatically on statutory breaches"                  *)
(* (risk_governor.py:186): after an audit that found a breach no other     *)
(* audit passes, of whatever portfolio, in whatever process, until two     *)
(* authorised roles have signed - unless the write of a trip was lost.     *)
BreachBlocksAudits == verdict = "PASSED" => ~open
=============================================================================
