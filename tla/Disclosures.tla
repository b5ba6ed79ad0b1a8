---------------------------- MODULE Disclosures ----------------------------
(***************************************************************************)
(* What a fund's disclosures say of its manager.                           *)
(* normalization/normalizer.py and analytics/anomaly_detector.py take      *)
(* creations and redemptions out of what a fund holds, each in its way;    *)
(* core/etf_disclosures.py admits the disclosures while they are fresh.    *)
(* What is left, the active quantity deviation (AQD), is what the research *)
(* calls adoption.  ingestion/corporate_actions.py adjusts a panel for     *)
(* splits: the replay of audit/regression_audit_replay.py has it beside    *)
(* the normalizer, but research/synthesis.py gives its panel to the        *)
(* detector as it was filed.                                               *)
(*                                                                         *)
(* One fund and one of the lines it holds, under one name; others keep its *)
(* dates in the panel when the line is sold out.  The world acts on the    *)
(* holding, the fund files at the end of some days, and filings are        *)
(* ingested, in any order, some never.  Splits are two for one or one for  *)
(* two, and creations double the fund: a split is by how many doublings.   *)
(* Floats are rounded, by far less than a share; see Computed.             *)
(***************************************************************************)
EXTENDS FiniteSetsExt, Integers, SequencesExt

CONSTANTS
  MaxSnapshotAge,  \* max_snapshot_age, in days
  WindowDays,      \* RebalanceEvent.window_days
  MaxDay,          \* bound: days
  Precision,       \* how many of the floats' errors a traded share is worth
  MaxEvents,       \* bound: things that happen to the holding
  MaxHeld          \* bound: shares held, as disclosed

VARIABLES
  today,
  holding,      \* the fund's line: [held, outstanding]
  filings,      \* [date, held, outstanding, causes], one per day that was filed
  splits,       \* SplitEvents: [of, date, doublings]
  rebalances,   \* days of index rebalances
  causes,       \* history: who has changed the quantity since the last filing
  ingested,     \* the filings in the panel
  events

(* Bounds and windows are numbers of days, events and shares; an error is  *)
(* less than half of what a share makes.                                   *)
ASSUME DisclosuresAssumption ==
  /\ MaxEvents \in Nat /\ MaxHeld \in Nat /\ MaxSnapshotAge \in Nat /\ WindowDays \in Int
  /\ Precision \in Nat /\ Precision > 2

worldVars == <<today, holding, filings, splits, rebalances, causes, events>>
disclosureVars == <<worldVars, ingested>>

Lines == {"SECURITY", "FUND"}
Causes == {"BUY", "SELL", "INDEX"}

DisclosuresInit ==
  /\ today = 1
  /\ holding = [held |-> 2, outstanding |-> 2]
  /\ filings = <<>>
  /\ splits = <<>>
  /\ rebalances = {}
  /\ causes = {}
  /\ ingested = {}
  /\ events = 0

-----------------------------------------------------------------------------
(* The world.  On the day of a split, the filing is after it.              *)

Event == events < MaxEvents /\ events' = events + 1

Bounded(h) == h.held \in 0..MaxHeld /\ h.outstanding \in 1..MaxHeld

\* A purchase or a sale, of the manager's own or because the index says so.
Traded(by, shares) ==
  /\ Event
  /\ holding' = [holding EXCEPT !.held = @ + shares]
  /\ causes' = causes \union {by}
  /\ rebalances' = IF by = "INDEX" THEN rebalances \union {today} ELSE rebalances
  /\ UNCHANGED <<today, filings, splits, ingested>>

\* Creation or redemption in kind: the line scales with the fund.
Created ==
  /\ Event
  /\ holding' = [holding EXCEPT !.held = 2 * @, !.outstanding = 2 * @]
  /\ UNCHANGED <<today, filings, splits, rebalances, causes, ingested>>

Redeemed ==
  /\ Event
  /\ holding.held % 2 = 0 /\ holding.outstanding % 2 = 0
  /\ holding' = [holding EXCEPT !.held = @ \div 2, !.outstanding = @ \div 2]
  /\ UNCHANGED <<today, filings, splits, rebalances, causes, ingested>>

Doubled(n, doublings) == IF doublings = 1 THEN 2 * n ELSE n \div 2

Split(of, doublings) ==
  LET field == IF of = "SECURITY" THEN "held" ELSE "outstanding"
  IN /\ Event
     /\ doublings = -1 => holding[field] % 2 = 0
     /\ holding' = [holding EXCEPT ![field] = Doubled(@, doublings)]
     /\ splits' = Append(splits, [of |-> of, date |-> today, doublings |-> doublings])
     /\ UNCHANGED <<today, filings, rebalances, causes, ingested>>

DayEnds(files) ==
  /\ today < MaxDay
  /\ today' = today + 1
  /\ filings' = IF files THEN Append(filings, [date |-> today, held |-> holding.held,
                                outstanding |-> holding.outstanding, causes |-> causes])
                ELSE filings
  /\ causes' = IF files THEN {} ELSE causes
  /\ UNCHANGED <<holding, splits, rebalances, ingested, events>>

\* ETFDisclosureIngestor.ingest: not before it is available, nor when it is stale.
Ingest(k) ==
  /\ k \notin ingested
  /\ today - filings[k].date \in 0..MaxSnapshotAge
  /\ ingested' = ingested \union {k}
  /\ UNCHANGED worldVars

DisclosuresNext ==
  \/ /\ \/ Traded("BUY", 1)
        \/ Traded("SELL", -1)
        \/ \E shares \in {-1, 1} : Traded("INDEX", shares)
        \/ Created
        \/ Redeemed
        \/ \E of \in Lines, doublings \in {-1, 1} : Split(of, doublings)
     /\ Bounded(holding')
  \/ \E files \in BOOLEAN : DayEnds(files)
  \/ \E k \in DOMAIN filings : Ingest(k)

DisclosuresSpec == DisclosuresInit /\ [][DisclosuresNext]_disclosureVars

-----------------------------------------------------------------------------
(* The pipeline, over the panel of what was ingested.                      *)

\* Mutation: the day of the split is adjusted, too.
LaterOrNow(split, filing) == split.date >= filing.date

Later(split, filing) == split.date > filing.date

\* apply_split_adjustments: the doublings that were still to come.
Doublings(of, filing) ==
  LET later == {k \in DOMAIN splits : splits[k].of = of /\ Later(splits[k], filing)}
  IN SumFunctionOnSet([k \in DOMAIN splits |-> splits[k].doublings], later)

PowerOfTwo[n \in 0..2 * MaxEvents] == IF n = 0 THEN 1 ELSE 2 * PowerOfTwo[n - 1]

\* A row in units small enough for every split to be a whole number of them.
Adjusted(filing) ==
  LET in(of, n) == n * PowerOfTwo[MaxEvents + Doublings(of, filing)]
  IN [held |-> in("SECURITY", filing.held), outstanding |-> in("FUND", filing.outstanding)]

\* A filing has a row for the line while it is held.
Rows == {k \in ingested : filings[k].held > 0}

\* The row before it of the security: shift(1) of the rows in order of date.
Earlier(k) == {j \in Rows : j < k}

HasPrior(k) == Earlier(k) # {}
Prior(k) == Max(Earlier(k))

\* AQD = q - q0 * N / N0, times N0.
Deviation(now, before, outstanding) ==
  now.held * outstanding - before.held * now.outstanding

\* The normalizer's, of adjusted rows, with the N0 of the security's row before.
Normalized(k) ==
  LET before == Adjusted(filings[Prior(k)])
  IN Deviation(Adjusted(filings[k]), before, before.outstanding)

\* The detector's, of the rows as they were filed, with the N0 of the date the
\* fund has before, whether the security has a row on it or not.
Detected(k) ==
  Deviation(filings[k], filings[Prior(k)], filings[Max({j \in ingested : j < k})].outstanding)

\* What floats make of it, in their errors.
Computed(deviation) == {Precision * deviation + error : error \in -1..1}

\* Neither the security nor the fund was split between the row before and this one.
Unsplit(k) ==
  \A i \in DOMAIN splits : splits[i].date \notin filings[Prior(k)].date + 1..filings[k].date

\* The deviations that there are: the detector's says nothing across a split.
Deviations(k) ==
  Computed(Normalized(k)) \union (IF Unsplit(k) THEN Computed(Detected(k)) ELSE {})

\* tag_rebalance_contamination
Contaminated(filing) ==
  \E r \in rebalances : filing.date \in r - WindowDays..r + WindowDays

-----------------------------------------------------------------------------
\* Who changed the quantity since the row before, filed or not.
CausesOf(k) == UNION {filings[i].causes : i \in Prior(k) + 1..k}

(* "isolate active managerial accumulation from creation/redemption noise" *)
(* (anomaly_detector.py:6), as far as floats and the panel let it: between *)
(* two rows, however many filings are missing, a manager who did not trade *)
(* shows no more than a rounding error, one who only bought more than that *)
(* above 0, and one who only sold more than that below - in the normalizer *)
(* after the adjuster, and in the detector, which the adjuster does not    *)
(* come before, when there was no split in between; and a deviation that   *)
(* the index alone has caused is tagged, unless the rows are further apart *)
(* than the window.  (The detector's threshold is 0.0, so that an error of *)
(* the floats may count as a trade of the manager's: its size tells them   *)
(* apart, not its sign.)                                                   *)
FlowIsNotAdoption ==
  \A k \in Rows : HasPrior(k) =>
    /\ CausesOf(k) = {} => \A aqd \in Deviations(k) : aqd \in -1..1
    /\ CausesOf(k) = {"BUY"} => \A aqd \in Deviations(k) : aqd > 1
    /\ CausesOf(k) = {"SELL"} => \A aqd \in Deviations(k) : aqd < -1
    /\ CausesOf(k) = {"INDEX"} /\ filings[k].date - filings[Prior(k)].date <= WindowDays + 1
         => Contaminated(filings[k])
=============================================================================
