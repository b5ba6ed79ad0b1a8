------------------------------ MODULE Exposure ------------------------------
(***************************************************************************)
(* The leverage of a portfolio of sleeves.  In each period                 *)
(* MultiSleevePortfolioEngine.update steps the sleeves one after the       *)
(* other - each has a DynamicExposureController with a book of leverage    *)
(* tranches - and then cuts all books when the gross leverage is above its *)
(* maximum.  A controller opens a tranche for what the evidence and the    *)
(* risk caps allow beyond the leverage it has, harvests gains from the     *)
(* riskiest tranche down, and keeps the level a harvest left as a ceiling  *)
(* until fresh evidence releases it.                                       *)
(*                                                                         *)
(* Leverage is counted in hundredths, weights, returns and flow progress   *)
(* in per cent; a cut that is not a whole number of hundredths is rounded  *)
(* up.  The NAV and prices cancel out of what is decided here.             *)
(***************************************************************************)
EXTENDS FiniteSetsExt, Integers, Sequences

CONSTANTS
  SleeveOrder,    \* the order of sleeve_policies
  StagedSleeves,  \* those given the legacy StagedLeverageGate in signal_gates
  Weight,         \* the target weight of each sleeve
  Direction,      \* 1 for a long sleeve, -1 for a hedge or a short one
  MaxLeverage,    \* the leverage its mandate allows
  MaxGross,       \* max_gross_leverage
  Evidence,       \* for each sleeve, the inputs it may be given in a period
  MaxPeriods      \* bound: periods

VARIABLES
  books,    \* the active tranches of each sleeve
  caps,     \* profit_protected_leverage_cap and the evidence it was set at
  turn,     \* the sleeve to step next
  blocked,  \* sleeves of this period without data
  period,   \* updates ended before this one: the time of entry of a tranche
  returned  \* whether the books are as the last update returned them

exposureVars == <<books, caps, turn, blocked, period, returned>>

Sleeves == {SleeveOrder[i] : i \in DOMAIN SleeveOrder}

\* EvidenceState: WAIT, SEEDED, EMERGING, CONFIRMED, STRONG.
Ranks == 0..4

\* What may be wrong with a sleeve's evidence, its flaws: "THESIS", "INVALIDATION",
\* "CATALYST", "EV", "PROBABILITY", "CONFIRMATION".

(* A mandate is for one sleeve, its weight and its leverage are not        *)
(* negative, and it is long or short (multi_sleeve_portfolio_engine.py:52).*)
ASSUME MandatesAssumption ==
  /\ SleeveOrder \in Seq(Sleeves)
  /\ \A i, j \in DOMAIN SleeveOrder : SleeveOrder[i] = SleeveOrder[j] => i = j
  /\ Weight \in [Sleeves -> Nat]
  /\ Direction \in [Sleeves -> {1, -1}]
  /\ MaxLeverage \in [Sleeves -> Nat]
  /\ MaxGross \in Nat

ASSUME EvidenceAssumption ==
  \A s \in Sleeves : \A in \in Evidence[s] :
    in.rank \in Ranks /\ in.flow \in Int /\ in.limit \in Nat

NoCap == [at |-> -1, rank |-> -1, flow |-> -1]

ExposureInit ==
  /\ books = [s \in Sleeves |-> {}]
  /\ caps = [s \in Sleeves |-> NoCap]
  /\ turn = 1
  /\ blocked = {}
  /\ period = 0
  /\ returned = FALSE

-----------------------------------------------------------------------------
(* The tranche book.                                                       *)

Least(m, n) == IF m < n THEN m ELSE n
PerCent(l, n) == (l * n + 99) \div 100

current_leverage(book) == SumFunction([t \in book |-> t.size])

Riskier(t, u) ==
  \/ t.rank > u.rank
  \/ t.rank = u.rank /\ t.since > u.since

\* Mutation: a tranche is trimmed without regard to those before it.
KeptAlone(book, t, amount) ==
  LET size == current_leverage(book)
  IN  t.size - (IF size = 0 THEN 0 ELSE (t.size * Least(amount, size)) \div size)

\* reduce_leverage: what a tranche keeps once those riskier than it are gone.
Kept(book, t, amount) ==
  LET ahead == current_leverage({u \in book : Riskier(u, t)})
  IN  t.size - Least(t.size, IF amount > ahead THEN amount - ahead ELSE 0)

Reduced(book, amount) ==
  {[t EXCEPT !.size = Kept(book, t, amount)] :
     t \in {u \in book : Kept(book, u, amount) > 0}}

-----------------------------------------------------------------------------
(* The signal gates: the leverage they ask for, 0 when they do not permit  *)
(* an entry.                                                               *)

\* DeploymentPolicy, and its requested_leverage_cap.
Floor   == [r \in Ranks |-> <<0, 0, 400, 600, 800>>[r + 1]]
Ceiling == [r \in Ranks |-> <<0, 200, 600, 800, 1000>>[r + 1]]
RequestedCap == 1000

BandedTarget(in) ==
  IF in.flaws \intersect {"THESIS", "CATALYST", "PROBABILITY", "EV"} # {}
  THEN 0
  ELSE Least(RequestedCap, Floor[in.rank]
         + (in.flow * (Ceiling[in.rank] - Floor[in.rank])) \div 100)

\* LeveragePolicy
Policy == [r \in Ranks |-> <<0, 50, 125, 175, 200>>[r + 1]]

StagedTarget(in) ==
  IF in.rank = 0
     \/ in.flaws \intersect {"THESIS", "CATALYST", "EV", "CONFIRMATION"} # {}
  THEN 0
  ELSE Policy[in.rank]

Target(s, in) == IF s \in StagedSleeves THEN StagedTarget(in) ELSE BandedTarget(in)

\* The capital-flow engine raises on a progress outside [0, 1].
Unusable(s, in) ==
  /\ s \notin StagedSleeves
  /\ in.flow \notin 0..100

\* LeverageEngine.evaluate: in.limit is the least of the sleeve's own limits,
\* 0 where a loss, a volatility or a notional leaves one undefined.
Approved(s, in) == Least(Target(s, in), Least(in.limit, MaxLeverage[s]))

-----------------------------------------------------------------------------
(* The profit ladder: per cent of the leverage to sell, given the return   *)
(* on the leverage l.                                                      *)

Captured(in, l, share) == in.generic > 0 /\ in.move * l >= in.generic * share

Unsound(in) == in.flaws \intersect {"THESIS", "INVALIDATION"} # {}

FractionToSell(in, l) ==
  IF Unsound(in) \/ ("EV" \in in.flaws /\ Captured(in, l, 200)) THEN 100
  ELSE IF in.move * l >= 4000 THEN (IF Captured(in, l, 150) THEN 33 ELSE 25)
  ELSE IF in.move * l >= 2000 THEN 25
  ELSE 0

-----------------------------------------------------------------------------
(* DynamicExposureController.update                                        *)

Fresh(cap, in) == in.rank > cap.rank \/ in.flow > cap.flow

\* The harvest ceiling that still stands once the evidence is seen.
Standing(s, in) ==
  IF caps[s] # NoCap /\ ~Fresh(caps[s], in) THEN caps[s] ELSE NoCap

\* Mutation: the target alone decides what may be entered.
CeilingUnharvested(s, in) == Approved(s, in)

EffectiveCeiling(s, in) ==
  IF Standing(s, in) = NoCap THEN Approved(s, in)
  ELSE Least(Approved(s, in), Standing(s, in).at)

\* The book with a tranche for the leverage newly unlocked, if any.
Entered(s, in) ==
  LET before == current_leverage(books[s])
  IN  IF EffectiveCeiling(s, in) > before
      THEN books[s] \union {[rank |-> in.rank, since |-> period,
                             size |-> EffectiveCeiling(s, in) - before]}
      ELSE books[s]

\* ProfitTakingInputs refuses a position worth less than nothing, a loss of more
\* than all of its capital, and one of no capital.
Ruined(s, in) == Weight[s] = 0 \/ in.move * current_leverage(Entered(s, in)) < -10000

\* A sleeve's step, and what it leaves of its book and its ceiling.
Update(s, in) ==
  LET entered == Entered(s, in)
      leverage == current_leverage(entered)
      sold == PerCent(leverage, FractionToSell(in, leverage))
      left == Reduced(entered, sold)
  IN  /\ books' = [books EXCEPT ![s] = left]
      /\ caps' = [caps EXCEPT ![s] =
                    IF sold > 0
                    THEN [at |-> current_leverage(left), rank |-> in.rank, flow |-> in.flow]
                    ELSE Standing(s, in)]

-----------------------------------------------------------------------------
(* MultiSleevePortfolioEngine.update, sleeve by sleeve.                    *)

Stepping == SleeveOrder[turn]
BlockedBefore == IF turn = 1 THEN {} ELSE blocked

Step ==
  /\ turn <= Len(SleeveOrder)
  /\ period < MaxPeriods
  /\ returned' = FALSE

Ended ==
  /\ turn' = 1
  /\ period' = period + 1

\* No data: the sleeve counts as zero in this period; its book stays.
SleeveBlocked ==
  /\ Step
  /\ blocked' = BlockedBefore \union {Stepping}
  /\ turn' = turn + 1
  /\ UNCHANGED <<books, caps, period>>

SleeveStepped(in) ==
  /\ Step
  /\ ~Unusable(Stepping, in) /\ ~Ruined(Stepping, in)
  /\ Update(Stepping, in)
  /\ blocked' = BlockedBefore
  /\ turn' = turn + 1
  /\ UNCHANGED period

(* The gate raises, after the evidence has been held against the ceiling:  *)
(* the sleeves stepped before this one keep what they did, the others and  *)
(* the gross cap are not reached, and no architecture is returned.         *)
GateRaises(in) ==
  /\ Step
  /\ Unusable(Stepping, in)
  /\ caps' = [caps EXCEPT ![Stepping] = Standing(Stepping, in)]
  /\ Ended
  /\ UNCHANGED <<books, blocked>>

(* The position cannot be valued: its tranche is open, and nothing is      *)
(* harvested or closed.                                                    *)
PositionRaises(in) ==
  /\ Step
  /\ ~Unusable(Stepping, in) /\ Ruined(Stepping, in)
  /\ books' = [books EXCEPT ![Stepping] = Entered(Stepping, in)]
  /\ caps' = [caps EXCEPT ![Stepping] = Standing(Stepping, in)]
  /\ Ended
  /\ UNCHANGED blocked

-----------------------------------------------------------------------------
\* gross_exposure, which is signed, times 100 and without the NAV.
Signed(s) == Weight[s] * current_leverage(books[s]) * Direction[s]
Magnitude(n) == IF n < 0 THEN -n ELSE n

\* Mutation: long and short sleeves net out, as in net_leverage.
GrossNetted == SumFunction([s \in Sleeves \ blocked |-> Signed(s)])

\* The gross leverage of the sleeves with data, times 100.
Gross == SumFunction([s \in Sleeves \ blocked |-> Magnitude(Signed(s))])

\* What a book loses when the gross is above its maximum.
Excess(book) ==
  IF Gross <= 100 * MaxGross THEN 0
  ELSE (current_leverage(book) * (Gross - 100 * MaxGross) + Gross - 1) \div Gross

CapGross ==
  /\ turn > Len(SleeveOrder)
  /\ books' = [s \in Sleeves |->
                 IF s \in blocked THEN books[s] ELSE Reduced(books[s], Excess(books[s]))]
  /\ returned' = TRUE
  /\ Ended
  /\ UNCHANGED <<caps, blocked>>

ExposureNext ==
  \/ SleeveBlocked
  \/ /\ turn <= Len(SleeveOrder)
     /\ \E in \in Evidence[Stepping] :
          SleeveStepped(in) \/ GateRaises(in) \/ PositionRaises(in)
  \/ CapGross

ExposureSpec == ExposureInit /\ [][ExposureNext]_exposureVars

-----------------------------------------------------------------------------
(* Properties.                                                             *)

(* Harvested leverage does not come back while the ceiling of the harvest  *)
(* stands: through periods without data, raises, cuts of the gross and     *)
(* later harvests, the book stays under it.                                *)
HarvestStands ==
  \A s \in Sleeves : caps[s] # NoCap => current_leverage(books[s]) <= caps[s].at

OrderOfTheCut ==
  \A s \in Sleeves : \A t \in books[s] :
    (\A u \in books'[s] : u.since = t.since => u.size < t.size) =>
      ~\E u \in books'[s] : Riskier(u, t)

(* Leverage comes off the riskiest tranche first: none shrinks, in a       *)
(* harvest or in a cut of the gross, while a riskier one is left.          *)
RiskiestGoesFirst == [][OrderOfTheCut]_exposureVars

(* Gross_t = sum(|Exposure_s,t|) / NAV_t <= GrossMax                       *)
(* (multi_sleeve_portfolio_engine.py:132): what an update returns is       *)
(* within the portfolio's maximum, its hedges counted like the rest, and   *)
(* every sleeve within its mandate, in whatever order sleeves had, lacked  *)
(* and regained their data and updates raised half way.                    *)
GrossIsBounded ==
  /\ returned =>
       SumFunction([s \in Sleeves \ blocked |-> Weight[s] * current_leverage(books[s])])
         <= 100 * MaxGross
  /\ \A s \in Sleeves : current_leverage(books[s]) <= MaxLeverage[s]
=============================================================================
