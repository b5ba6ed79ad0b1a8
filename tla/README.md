# EDGE-TF in TLA+

EDGE-TF turns fund disclosures into research ideas, ideas into trade intents,
and - after deterministic checks and a human's approval - trade intents into
orders that an external executor places at a broker. This directory models its
control: the transaction and execution boundaries, the kill switch and its
governor, the approval of workflow actions and the console they are decided in,
the event log, the research agent with the disclosures and the alternatives it
works from, the sizing and leverage rules, and the learning pipeline.
Paths below are relative to the repository's root (`src/` in PROJECT.json).

## 1. Inventory

| Component | State it keeps | Operations | Modules |
|---|---|---|---|
| Transaction boundary (`transactions/`, `execution/order_router.py`) | one `TransactionRecord` per intent: state, intent, preview, approval, approved fingerprint, broker response; in memory | `register_draft`, `create_preview`, `approve`, `execute`, `claim_for_external_execution`, `record_execution_report`, `cancel` | Transactions |
| Emergency kill switch (`risk/kill_switch.py`) | state, rejection tally, reset signatures; state file | `trip`, `record_order_rejection/success`, `submit_reset_authorization`, reload | KillSwitch, HaltLatch |
| Execution boundary (`execution/gateway.py`, `execution/client.py`, `api/execution_app.py`) | EDGE: the records and `PortfolioStateStore`; executor: `_claimed`; broker: its orders | list, claim, place, report, snapshot | ExecutionBoundary, Dispatch |
| Workflow approvals (`approvals/`) | one `ActionRecord` per request: state, request, hash, approvals; an event per transition in the log | `propose`, `submit_for_approval`, `approve`, `execute`, `cancel` | Approvals |
| Workbench log (`workbench/`) | one append-only, hash-chained JSONL file; everything else is a projection of it | `append`, `set_project_state`, `record_ui_event`, `evaluate_watch_conditions`, `verify_chain`; the starts of console and host, which seed | Workbench |
| Model registry (`learning/registry.py`) | cards and champion per model type, promotion history; a file per card and decision | `register_model`, `promote_model`, `set_shadow_deployment`, reload | ModelRegistry |
| Shadow deployment (`learning/shadow_deployment.py`) | a deployment per model type, a log of predictions in memory | `start_shadow_deployment`, `record_prediction_pair`, `record_outcome` | not modelled |
| Learning pipeline (`learning/`) | ids seen, feature store, labels; model parameters, splits; historical events and trades | ingest, label, train, evaluate; register an event, find analogs, score an implementation | Learning, WalkForward, Analogs |
| Research funnel and agent (`research/`, `orchestration/`) | positions of strategies, syntheses, alternatives; focus, plan, theses, live views | one handler per kind of message, `refresh_for`, the hosts' regime change and reopening; build a strategy, synthesise, generate, gate | Agent, ResearchFunnel, TradeIdeas |
| Operator interface state (`ui/`) | the fields of a project, dependency map, workflow state of a view | advance gate, field change, hydration, registry check | Agent, Console |
| Console and HTTP (`console/`, `api/`) | the transcript of views per project, fields, focus | the script, turns, clicks, decisions, controls | Console |
| Leverage tranches and gates (`analytics/`, `risk/risk_governor.py`) | tranches of each sleeve, ceilings; audit verdicts | step a sleeve, cap the gross; audit | Exposure, Governor |
| Analytics (`analytics/`) | tier and ceiling of the month; none otherwise | evaluate a month, size, allocate; detect anomalies | Sizing, Disclosures |
| Ingestion and normalisation (`core/`, `ingestion/`, `normalization/`) | filings in the panel, split events | file, ingest, adjust, normalise | Disclosures |
| Audit (`audit/`) | one file per record | log | not modelled |
| Hypothesis agents, shims | none | prompts, re-exports | not modelled |
| Strategy attribution, coordinator, first training cycle (`learning/`) | - | - | not modelled |

How they interact. The transaction service calls its providers (quotes,
portfolio, risk governor) and the order router inside its methods; the governor
trips the kill switch while it audits; the router and the service both read the
switch. The gateway exposes approved records over HTTP to an executor that
polls, claims, places and reports, and keeps the keys it has claimed in memory.
The approval service calls back validators and executors and appends every
transition to the workbench log, whose append may raise. The agent drives the
funnel, appends to the log, and registers and previews intents at the
transaction service; the console sends it messages and field changes, keeps the
views it returns, and checks them against what the services have on record
every time it draws. It also clears the funnel's syntheses when the simulated
regime is switched, and makes a new agent over the kept funnel whenever a
project is opened. Console and host seed the log when they start. The learning
orchestrator registers the cards it trains.
Intent and request objects inside records are the caller's own, so their
economics can change at any time.

What is hard about it, and what would make each part correct:

* *Transactions.* Two ways out of APPROVED, re-preview and re-approval loops,
  providers and brokers that raise in the middle of a method, reports out of
  order, cancels. Correct when an intent is sent at most once, under a live
  approval, for the quantity and price that were shown, and never while halted.
  (For every term that was shown, says the code's documentation; see
  transactions_terms.)
* *Kill switch and governor.* A halt must survive restarts, failing writes as
  far as possible and re-trips between two signatures; only two roles may end
  it, and no audit may pass in between.
* *Execution boundary.* Requests are lost, late or answered to nobody; the
  executor dies. Correct when a trade is placed at most once and only after its
  hand-off, when EDGE believes no fill that did not happen, and when an approved
  trade is eventually picked up.
* *Approvals.* The request changes tier or content while approvals are being
  collected, expire or are collected again; callbacks and the log fail. Correct
  when an executor runs at most once, with the quorum of what it runs on, and
  never before the log says so.
* *Console.* The page is a script that runs again at every interaction over a
  transcript of views that grow old, while the services move on. Correct when it
  can be drawn as long as nothing it shows was falsified, and when it settles.
* *Workbench log.* Two processes append to one file, each after reading its last
  hash, and every start creates the demonstration's projects and thesis again; an
  operation is judged by a projection read when it began, and may die between its
  appends; what it appends is only judged on replay. Correct when the chain
  verifies, a redelivered event is recorded once, breached conditions leave their
  mark, and what was appended can be replayed; two of these fail, see below.
* *Research.* A handler is a series of appends and calls, each of which may
  raise, and the gate that may refuse a turn asks after it has run; fields
  change under views computed from them. Correct when an intent rests on a
  complete thesis and an offered vehicle, a stage is earned, and the view shown
  is of the state the project is in. A model's proposals neither remove nor
  invent an alternative; flows, splits and index rebalances in any order do not
  read as a manager's conviction.
* *Leverage and sizing.* Ceilings ratchet over months, tranches of different
  risk are harvested and cut while sleeves lose their data and updates raise half
  way. Correct when a harvest stands, the gross is bounded, the riskiest goes
  first, and an order's capital is what the evidence, the caps, its split and the
  solver allow.
* *Model registry.* A decision is one file and up to two cards are others, written
  one after the other; a restart reads what is there, in the file system's
  order. Correct when decisions leave one champion, memory and files agree,
  every champion on file was decided, and no death leaves a type without one.
* *Learning.* Ids remembered from refused observations, overlapping windows,
  parameters kept from fit to fit, labels realised after the cutoff, corrected
  records. Correct when what was refused stays out, a model is judged by what it
  was not trained on, and advice is what the records say.

PROJECT.json lists each hazard at its line, with the properties that cover it.

## 2. Modules and their correspondence to the code

**Transactions.** One action per public method of `TransactionService`; a
method runs to its end on one thread, so an action is a whole call. `state`,
`econ`, `preview`, `approval` and `fingerprint` are the record's fields (an
intent's economics are one record: size by quantity or notional, limit price,
and all other terms as one value). What a provider answers is chosen by the
action: a quote is a price and a liquidity status, a risk evaluation is PASS,
FAIL or TRIP (fails and leaves the switch locked). A provider that raises gives
the actions `PreviewFailed` and `RevalidationFailed`, a broker that raises the
third reply of `Route`, with or without the order taken. `_set_state` is
`Moved`: an illegal transition raises and leaves the state. That matters in
`Approve`, which has stored the approval and the fingerprint before it raises.
`MutateIntent` is the caller changing the object the record holds. `orders` is
history: each order with its quantity, price, economics, the approval it was
sent under and the time.

**KillSwitch** is the production form of the engine, with a state file. A method
ends by writing the file (`Persists`) or, unless the disk is `reliable`, leaves
the old one (`PersistFails`): the write raised, or the process died just before
it. `reliable` is a variable that never changes, so that one run checks both
kinds of disk. `Restart` is `__init__` with `_load_state`; `FileDamaged` makes
the file unreadable from outside. `streak`, `signed` and `tripLost` are history.
**HaltLatch** is what the switch promises, without files, restarts and tallies.
**Governor** extends KillSwitch: `Audit` is `audit_portfolio`, which holds a
portfolio against the statutory limits, trips the switch for what it finds, and
may lose its own record; `SwitchMoves` is everything else the switch does.

**ExecutionBoundary** extends Transactions with the gateway's handlers
(`HandleClaim`, `HandleReport`), the executor's program counter through
`run_once` and `_execute_one`, the requests under way (`net`), and the broker.
A client that gives up marks its requests stale: EDGE may still handle them,
and they may vanish. When `edgeFails` (which never changes either), EDGE may
restart: every record is gone, and the owner may register and have approved the
same intent again. `execute` (the in-process path) does not occur in it: a
deployment uses the one or the other. **Dispatch** is its abstract
specification: a trade is open, then closed or sent, then placed.

**Approvals.** One action per method of `ApprovalService`. Every transition is
followed by an append to the workbench log that may raise (`LogMayFail`), which
ends the method: `Ends` is the last transition of a method, `Stops` a
transition the method did not mean to end with. `shown` is the action hash: the
content presented and the number of the presentation, which stands for
`presented_at`. `logged` is the latest state in the log, `effects` is history.

**Console.** `RunScript` is one run of `console/hedgehog.py` from the top: it
checks the entries of the transcript in order (`_validate_hash_binding`, the
actions a component permits) and either draws the page, is REFUSED, or meets a
control that differs from its view, which is an event: it records the value,
replaces the views it makes stale and runs again (`reruns` counts such runs in
a row). Every other action is something the operator does on a drawn page. A
hash of an order is the number of its previews; the registry's checks of
required data and provenance are left out, as every builder writes them as
literals.

**Workbench.** `Processes` have the file open. An operation puts what it has
decided to append into `todo`, as steps of one or more events (a call that
evaluates conditions has a step per breach); each append is `ReadLastHash`
followed by `WriteLine`, and other processes act in between. `intact` is what
`verify_chain` would answer. Instead of the lines the module keeps what a replay
of them gives (`Apply`, one disjunct per kind of event): an event that raises
makes its project unreadable, as it will raise in every later replay.
`HostStarts` seeds the file it finds: the thesis that is seeded is created once
more, in place of the one that was there, demoted or not, and without its watch
conditions, which are set again. `ConsoleStarts` deletes the file first.
`EvaluateWatchConditions` takes the set of conditions that its metrics make
true. `Dies` loses what an operation had still to append; `died` is history.

**Agent** is `orchestration/agent.py`. A turn is one action: it computes the
workflow state, runs the handler of the message's intent, and then asks the
advance gate, which raises without undoing anything. Any append inside a
handler may raise (`failures` bounds how often), which leaves what came before
it. `FieldDelivered` is an entered value, delivered for the first time or again;
`Refresh` re-runs, one after the other, the handlers of the live views that
`ui/dependencies.py` computes from the field. `RegimeChanges` is the console's
radio, which clears the syntheses and nothing else; `ProjectReopened` makes a
new agent over the kept funnel; `HostRestarts` and `ConsoleRestarts` begin with
an empty one, over the log or over a new one. `shown`, and the funnel's
`evidenced` (the strategies that have had a usable synthesis), are history.
**ResearchFunnel** holds the methods of `research/funnel.py` as functions of a
funnel; it has no state of its own.

**TradeIdeas** follows one theme through `strategy_generation.py`,
`synthesis.py`, `implementations.py` and `llm_implementations.py`: a strategy's
vehicles and rejections, what blocks a synthesis, the generated alternatives,
and the gate that judges a model's proposals in the order they came.
**Disclosures** has a world that acts on one line of a fund (trades, index
rebalances, creations, redemptions, splits), a fund that files or does not, and
an ingestion that sees the filings in any order. The two computations of the
active quantity deviation part in what they divide by and in what they are
given, so both are there: `Normalized`, of adjusted rows, and `Detected`, of the
rows as they were filed, which is what `research/synthesis.py` computes. Floats
are an error of up to one around the exact value (`Computed`), of which a
traded share is worth `Precision`.

**Exposure** steps the sleeves of a period one after the other
(`SleeveStepped`, `SleeveBlocked`) and then cuts the gross (`CapGross`), unless a
controller raises: at the signal gate (`GateRaises`), or where the position is
valued, after its tranche was opened and before anything is harvested
(`PositionRaises`). Either leaves the sleeves before it updated and ends the
update. A tranche is its time of entry, size and risk rank. **Sizing** is
the months of `monthly_leverage_simulation.py` with its quality tiers, ratchet
and caps, the sizers, and the disclosure pipeline with what the optimizer
accepts of a solver's answer. A split is any two weights that sum to one, 130/-30
included.

**ModelRegistry** is the registry of one model type (types are independent). A
method changes `cards` and `champion` and then writes files; `Persist` is how
far it came: all of them, or it raised (`RAISED`: memory is as decided, the
process goes on), or the process died (`DIED`), or a file was torn (`TORN`:
truncated and not rewritten, so it cannot be read). `Restart` is `_load_all`,
with the readable files in any order, and may happen to a running process too.
`decisions` is what the files in `promotions/` say, `failures` and `orderly` are
history: `orderly` until somebody demotes, registers an id again or promotes the
champion. A card is its id and status; a model trained again has the id and
version it had before (`learning/models.py:65`), which is why an id names a file.
**Learning** extends it with the orchestrator: the quality gate's `seen_ids`, the
store, labels, and `Train`, which registers `TrainedId`. **WalkForward** walks a
trainer through its splits; an example has the day of its observation and the
day its label was realised, and a prediction is what it rests on: the examples
that its intercept, and the coefficients of the example's features, were
estimated from. **Analogs** is the
engine's similarity over registered events and trades, and the advice
`integration.py` gives from it and from the champions' cards.

Instances are in `MC<component>`, with Governor, Exposure and Sizing in MCRisk,
everything of `learning/` in MCLearning, Agent, Disclosures and TradeIdeas in
MCAgent, Approvals and Console in MCApprovals; **MCDecisions**, **MCRecords** and
**MCDesk** put these side by side. The proofs are arranged alike:
**BoundaryProofs** (Transactions, ExecutionBoundary), **RiskProofs**,
**LearningProofs**, **WorkbenchProofs**, **ConsoleProofs** (Approvals, Console),
**AgentProofs** (Agent, ResearchFunnel) and **ResearchProofs** (Disclosures,
TradeIdeas); **Sums** has what several of them need of sums, counts, ranks and
recursion. Definitions marked "Mutation" are plausible bugs, used to see that a
property notices them; the specifications do not use them.

## 3. Runs

| Run (configuration) | What it shows |
|---|---|
| decisions (MCDecisions) | what people decide on. Orders: `TypeOK`, `AtMostOneOrder`, `StateTellsOfOrder`, `OrdersAuthorised`, `ApprovalIsCurrent`, `NoOrderWhileHalted`; requests with a failing log: `AtMostOneEffect`, `EffectsAuthorised`, `EffectsAreOnFile`; the console: `RefusedForARepreview`, `SettlesAtOnce` |
| records (MCRecords) | what has to survive. The boundary with every fault: `FilledIsReal`, `ImplementsDispatch`; the log, whose starts seed it anew: `RecordedOnce`, `BreachesDemote`; the registry, with writes that raise, die or tear a file: `OneChampion`, `ChampionsAreDecided`, `ChampionOutlivesDeath`; what is learned: `RefusedForGood`, `OutOfSample`, `Grounded` |
| boundary_live (MCBoundaryLive) | `ApprovedIsPickedUp`, `FillReachesEdge` without faults, two trades |
| desk (MCDesk) | research and what limits it. Two strategies through the agent: `IntentsAreGrounded`, `StagesAreEarned`, `ShownIsCurrent`; `FlowIsNotAdoption`; `MenuStands`; the switch and the governor: `HaltIsOnFile`, `RejectionRunTrips`, `TwoRolesRelease`, `ImplementsLatch`, `BreachBlocksAudits`; `HarvestStands`, `GrossIsBounded`, `RiskiestGoesFirst`; `CapitalIsEarned` |
| transactions_terms (MCTransactionsAltered) | `ApprovalBindsToReviewed` fails: an intent is changed, after its preview, in a term that the drift check does not look at, and the approval by the preview's hash sends terms that were never shown |
| boundary_reclaimed (MCBoundaryReclaimed) | `TradesClaimedOnce` fails: after a restart of EDGE the trade has another quantity and so another key, and an executor that has placed it places it again |
| approvals_stale (MCApprovalsStale) | `ApprovalsBindToShown` fails: an approval of an earlier presentation counts |
| console_redrawn (MCConsole) | `IssuedHashesAreDrawn` fails: an order approved and executed has a newer preview than the panel that was approved, and the page that shows both is refused from then on |
| workbench_breaches (MCWorkbenchBreaches) | `DemotionsReplay` fails: of two conditions breached together the second appends a transition that no replay accepts |
| workbench_forked (MCWorkbenchForked) | `OneChain` fails: console and host both read the last hash before either has written its line |
| registry_retrained (MCLearningRetrained) | `OnlyChampionsServe` fails: a model trained again has the id of the champion, and promoting it retires the card that serves |
| walk_lookahead (MCLearningLookahead) | `NoLookahead` fails: an example observed before the cutoff is trained on although its label was realised after it |

The runs that fail compare the code with a sentence of its own documentation;
PROJECT.json quotes the sentence and names the line.

**Components side by side.** MCDecisions, MCRecords and MCDesk check components
in one run that do not call each other in `src/`, or whose only connection is a
value that the receiving module chooses freely. A behaviour of such an instance
is a behaviour of one component while the others stay in their initial states;
their states add up and do not multiply. Where components do interact, one module
extends the other: Governor the switch, ExecutionBoundary the transactions,
Learning the registry, Agent the funnel.

**What the properties are stated around.** Some behaviour of the code is not what
a reader might expect of it, and no passing property says otherwise:

* *Transactions.* `approve` stores the fingerprint of the intent as it is then,
  so what is changed between preview and approval counts as approved.
  `OrdersAuthorised` therefore speaks of quantity and price, which the drift
  check compares with the preview; of the other terms transactions_terms shows
  the opposite.
* *Switch.* One person with two roles can release it (`risk/kill_switch.py:219`
  compares roles only; `TwoRolesRelease` speaks of roles). The tally of
  rejections starts again after a restart (`:156`; `RejectionRunTrips` speaks of
  one process's run).
* *Boundary.* A fill that comes after the broker's acknowledgement is never
  reported (`execution/client.py:160`; `FillReachesEdge` speaks of fills in the
  acknowledgement). `ImplementsDispatch` speaks of an EDGE that does not restart:
  after a restart a trade may be handed out once more, and boundary_reclaimed
  shows that the executor's memory of its keys does not always stop it. For an
  EDGE that does not restart `TradesClaimedOnce` is proved. A trade approved
  again on the same economics has the instruction id it had before
  (`execution/gateway.py:160`), where `execution/contracts.py:53` says that a
  re-approved record yields a different one; that follows from one definition
  and has no run.
* *Registry.* A demotion saves the demoted card and not the challenger it makes
  champion (`learning/registry.py:128`), so a restart after it finds no champion,
  and an id registered twice has two cards and one file. `OneChampion` and
  `ChampionOutlivesDeath` speak of histories without a demotion or a retrained
  model, `OneChampion` of writes that were all made. `ChampionsAreDecided`
  says less than its name after a demotion, and after a write that raised in a
  process that goes on: then a later save may put a champion on file whose
  decision is not.
* *Learning.* `OutOfSample` goes by the days of the observations; by the days on
  which labels are realised it is false, which walk_lookahead shows. The windows
  of a walk may overlap and a model that was trained before keeps its
  coefficients (it speaks of new models and splits that go forward). An event
  registered twice is matched under both its records, which `Grounded` leaves
  out where it matters, and similarities are thousandths where the code has
  floats at the limits 0.80, 0.65 and 0.50.
* *Workbench.* `RecordedOnce` is checked and proved for one process, as
  `BreachesDemote` is, which also excuses a process that died in the middle of
  an operation. A start that seeds the log creates its thesis anew: it stands as
  EVIDENCED after a demotion, and has no breached condition any more.
* *Agent.* A refresh re-runs a view's handler with the arguments of the message
  that made the view (`orchestration/agent.py:224`), so a stance just entered is
  overwritten by the one of the message, where `ui/hydration.py:6-8` says that
  the recorded value wins. A view whose stance is UNSPECIFIED, or whose agent is
  gone, differs from its control on every run of the script (`SettlesAtOnce`
  names both). A turn that raises leaves what it had done, and a view that was
  shown before; so does a new agent over a kept funnel, which has no focus
  (`ShownIsCurrent` speaks until either). A change of the regime leaves
  positions, intents and alternatives as they are, and alternatives made under
  the earlier regime are offered again (`console/hedgehog.py:207`): what
  `IntentsAreGrounded` and `StagesAreEarned` say is that there *was* a usable
  synthesis (`evidenced`).
* *Exposure.* An update that raises leaves the sleeves before it updated, and the
  position it raised at neither harvested nor closed: `GrossIsBounded` and
  `HarvestStands` speak of what is left standing then, too. A thesis that was
  falsified is then still open, where `analytics/profit_taking_engine.py:88` says it
  is closed regardless of return; that follows from one action
  (`PositionRaises`) and has no run.
* *Sizing.* A split of 130/-30 buys for 130% of the target
  (`analytics/position_sizer.py:33` checks the sum only); `CapitalIsEarned`
  bounds an order's cost by what its split deploys.
* *Disclosures.* The detector's threshold is 0.0, and the deviation of a pure
  creation may be some 1e-14 below it, so a flow may be flagged as a reduction;
  what `FlowIsNotAdoption` says is that its *size* stays below that of a traded
  share. The research pipeline gives the detector rows that no adjuster has seen
  (`research/synthesis.py:177-187`), so a split reads as accumulation; the
  property speaks of the detector where there was no split. Filings further
  apart than the rebalance window hide an index trade.

**Bounds.** Transactions and Approvals treat records independently (no action
reads two of them), so one record with one clock and one switch shows every
behaviour of a record. Prices 200, 201, 202 are one and two steps of half a
percent; at them a notional of 402 buys 2, 2 and 1, so a drift in quantity alone
occurs. `MaxClock` = 2 with a lifetime of 1 gives approvals that are alive, at
their limit and over it. Three people and two presentations are the least with
which an approval of an earlier presentation completes a quorum of two. The
console has two projects and two orders, one of each the seeded one, one
request, and two entries per transcript: a view above and one below the one that
is refused. The switch has three authorised roles and one that is not, and a
person with two roles, and a threshold of 3, the code's default; the governor's
portfolios are one that is sound and one for each rule. Two sleeves of half the
NAV, one per gate and one of them a hedge, for three periods: a harvest, a
period without data, and a release; their evidence has each rank and each kind
of flaw, a loss of more than the capital among them. Three months go up, down
and hold; scores are each tier at its lower bound and above it, contexts bind
each cap in turn, splits are even, one-sided and 130/-30 either way. The
boundary's fault run has one trade: the executor handles one at a time, and what
a second could add - waiting in a worklist while the first is being dealt with -
is in the liveness run. `streak` stops counting at the threshold. Clocks,
`MaxShown` and prices bound them too. EDGE restarts only while a trade was
handed off less than `MaxHandOffs` = 2 times: enough for a trade and its
successor. The log has one project and two theses, the seeded one with a
condition of its own and one that is opened with a demoting and an invalidating
condition, and one interface event: projects are replayed separately, and two
conditions of one thesis are what an evaluation can get wrong. One process in
records, which may die and start again, and two in workbench_forked. The
registry has two ids and `MaxCards` = 3: a champion, its challenger and a
successor, or one id registered again; a behaviour has writes that fail in one
way only, any number of times; once the pipeline has taken something in, its
cards and failures together stay below `MaxCards` (`LastCardAlone`). The walk's
datasets have at most four examples in six days, labels realised on the day or
later, and windows that fit twice. The analog engine has five records of which
one corrects another, and answers with the best two of three; implementations
are scored by an engine without records (`AdviceAlone`), which is what the
advice reads of it. Two strategies are the least for a focus that changes; the
agent has two theses, one intent, one live view, fields delivered at any point,
and at any point an append that raises or something that a host does (`OneMishap`;
the theorems have any number of both). Disclosures has four days
with at most two events and any subset of filings, in any order of ingestion, at
most six shares held, of which each is worth three errors. TradeIdeas has four
universes, two panels and eight proposals of which a model makes any two in
either order. Figures are exact except in Disclosures: hundredths of leverage
and of percentages, basis points, doublings of a fund; where the code's floats
would round, the modules' headers say how the integers do.

**Fairness.** Only `MCBoundaryLive` assumes any: weak fairness of the
executor's next step, because `run_once` is called in a loop and is one thread
that always has a next statement, and of EDGE's handling of a request, because
the event loop handles what it has accepted. No fairness is assumed of people,
time, the broker or the switch.

**Deadlock** is checked except in MCDesk, whose periods, months and menus end by
their bounds and not by the code.

## 4. Proofs

Everything below holds for all values of the constants that satisfy the named
assumptions of the modules; TLC evaluates those on every run. The assumptions
say what the code's own types say - a price is a number, a threshold is
positive, a mandate is for one sleeve and not negative, the weights of a split
sum to one, an id is not the word for no id - and what is finite: ids, theses,
examples, a universe's funds, a panel's rows. Intents, roles, people, policies,
evidence, scores, contexts, events, proposals: arbitrary. The numbers that bound
a run (`MaxClock`, `MaxEvents`, `MaxProposals` and their like) are any naturals.

One proof module serves components that share lemmas. The types of KillSwitch,
Approvals and ModelRegistry are proved and therefore no property of a run.

* **Sums** has the lemmas about the operators that the models fold with. The
  library's induction theorems take an operator as parameter and cannot be used;
  `CountingUp` and `OneByOne` say the same of *sets* of good numbers and good
  subsets, by a smallest counterexample in a well-founded order. From them: a
  recursion over `0..N` has a solution (`StepByStep`), a sum over a finite set is
  what its recursion says whatever the order its elements were chosen in
  (`SumIsRecursive`, `SumLessOne`), sums compare, split, add and count
  (`SumsCompare`, `SumInParts`, `SumOfOnes`), sets that overlap at most `m` times
  have at most `m` times the elements of their union (`SumOfOverlaps`), and of
  finitely many places each has a rank of its own (`OneOfEachRank`), which is
  what sorting and "the best `k`" rest on.
* **BoundaryProofs**, of Transactions. `TypeCorrect`; then `SentAtMostOnce`,
  `StateIsTruthful`, `ApprovalsAreCurrent`, `OrdersAreAuthorised` from one
  inductive invariant, and the action property `HaltStopsOrders`.
  `AtMostOneOrder` alone is not inductive: that no second order is sent follows
  from the record's state, so the invariant ties "an order was sent" to the
  states from which REVALIDATING cannot be reached. `OrdersAuthorised` needs
  that the approval of an APPROVED record is of the preview it holds, and that a
  preview's quantity follows from its hash, so that "no drift" against the
  stored preview is "no drift" against what was approved. It is proved per
  record: every action changes one record and leaves the others.
  Of ExecutionBoundary: `BoundaryUsesService` (without a restart of EDGE a run of
  the boundary is a run of the transaction service, so its invariants hold under
  it), `FillsAreReal` (what travels, and what EDGE believes, is what the broker
  did - proved for an EDGE that restarts, too), `TradesAreClaimedOnce` for an
  EDGE that does not restart (`OnceInv`: a claim is granted to a trade not handed
  off before, which hands it off, so an executor never holds two keys of one),
  and the refinement `BoundaryDispatches`: every step of EDGE, executor, broker
  and network is a step of Dispatch or a stutter.
* **RiskProofs**, of the switch. `TypeCorrect`; `HaltSurvives` from an invariant
  that ties the file to memory (file signatures are among those given since the
  trip); `TwoRolesAreNeeded`, with the fact that memory's signatures are among
  those given; `RejectionsTrip`: the tally is at least the run of rejections
  until the switch trips; `SwitchIsALatch`: with a reliable disk, memory and
  file agree on halt and signatures, so a restart is a stuttering step of the
  latch and a damaged file one more trip.
  Of the governor: `GovernorUsesSwitch` (a run of the governor is a run of the
  switch, so everything proved of the switch holds under it) and
  `BreachesBlock`, from the invariant that a limit known to be exceeded, with a
  trip whose write was not lost, leaves the switch locked.
  Of Exposure: `HarvestsStand`, `GrossStaysBounded` and the action property
  `RiskiestGoes`. The invariant (`ExposureInv`) adds to the two that a book has
  at most one tranche per period, none of them later than the sleeve was
  stepped; then riskier-than is a total order of a book, and a cut by an amount
  is known exactly: what is left of a tranche is what the riskier ones could not
  cover (`KeptOfTheRiskiest`), and the leverage falls by the amount or to
  nothing (`WhatIsLeft`). An update that raises has one lemma for each place:
  before the sleeve is touched (`GateRaisesKeeps`), and with its tranche open
  (`PositionRaisesKeeps`), where the bound is that a tranche was entered within
  the ceiling that stood, which is within the mandate (`EnteredIsBounded`).
  `CutToTheShare` has the arithmetic of the gross: a hedge counts by its
  magnitude (`GrossIsASum`), and the amount cut from each book is rounded up, so
  the weighted sum of what is left is within the maximum. `NoneBeforeTheCut`
  gives `RiskiestGoes`.
  Of Sizing: `EarnedCapital`, from an invariant that adds that what is approved
  is within the ceiling and within the two ratios an order is funded from;
  `TierOf` and `HigherTierAsksMore` say that a higher quality never asks for
  less, and `Funded` that what an order costs is covered for each way of
  expressing it. Whole shares are rounded towards nothing on either side, so the
  legs of any split, one of them negative or not, cost at most what it deploys
  of the target (`LegCost`, `EquityKeeps`).
* **ConsoleProofs**, of Approvals. `TypeCorrect`; `EffectAtMostOnce`,
  `EffectsNeedAQuorum`,
  `EffectsAreAnnounced` from one invariant per request: effects exist only in
  EXECUTING or a concluded state, approvers differ pairwise, an APPROVED request
  has its quorum and an approval of the current presentation, and the log is at
  most one event behind.
  Of Console: `ConsoleTypeCorrect`; `PagesStay`, from the invariant that a
  panel's order still has the preview it shows, or has left the queue by an
  execution; `EntriesSettle`: after an event every live view holds a value its
  box can show, or one that every refresh leaves unspecified (`LeftOpen`), for
  transcripts of any length and any number of projects.
* **WorkbenchProofs.** `DeliveriesRecordedOnce` and `BreachesHaveDemoted` rest on
  `WorkInv`, the invariant of one process, which relates what is still to be
  appended to what the log says: an operation's steps have one of a few forms
  (`SingleStep`, `OpeningStep`, which creates, advances and watches a thesis and
  is also what a seeding start appends, and `BreachStep`), and an idea is
  `Settled` - demoted for every condition that is marked as breached - or is owed
  exactly the event that comes next (`Owed`). Three facts carry it: no move that
  a process makes of a demoted idea undoes the demotion (`DemotionStays`), a
  thesis created anew has no condition that is marked (`FreshSettled`,
  `SeedingApplied`, for a file that was kept; `DeletedSettled`, `ConsoleWorks`,
  for one that was deleted), and a breach whose demotion was judged needless when
  the call began still finds it needless when it is appended
  (`BreachStepsStay`). That conditions breached together spoil the log
  (`DemotionsReplay`) does not contradict it: a project that cannot be replayed
  is excused.
* **LearningProofs**, of the registry. `TypeCorrect`, `ChampionsDecided`,
  `TheOneChampion` and `ChampionSurvives`, for any finite set of ids and any
  number of cards. The invariant of the first two adds to the files what memory
  holds - an undecided champion in memory would be saved by the next method that
  touches its card - and that a file holds its own id's card. `PersistSaved`
  says once what every outcome of writing leaves on file, and `CrownedCards`,
  `SucceededCards` what a decision makes of the list. `TheOneChampion` and
  `ChampionSurvives` rest on a second invariant, `Intended`: while the registry
  is used as intended ids are distinct; while no write has failed but by a
  death, a process that runs has in memory exactly what is on file; and while
  none has failed, one card is the champion's. Memory and files are needed
  together: a restart makes memory of the files (`LoadedOnce`, each once), and
  the next decision makes files of memory. Of the pipeline, `RefusedStayOut`: an
  id is in the memory of the gate before anything is stored under it, so a
  refused record never becomes one. `PipelineUsesRegistry`: the pipeline's steps
  are steps of the registry, which is why `ChampionsDecided` holds under it. Of
  WalkForward: `ValidatedOutOfSample`, from the invariant that while splits go
  forward what a model's fits rest on was known at the end of the training of
  every split still ahead (`StillAhead`, `Behind`), and that every test example
  of a split walked was predicted (`TestedSoFar`). That the samples a card
  passes by are that many different examples, few times over, is counted: a day
  is in at most as many windows as are begun while one lasts (`FewWindows`),
  hence an example too (`SamplesOfPredicted`). Of Analogs: `AnswersAreGrounded`.
  The matches of a question are the best ranks of the events near enough
  (`BestAreFirst`); events of different types are alike to seven tenths at the
  most, whatever else they share (`OtherTypes`), which is below what high
  confidence asks for; and what was said of the events known then stays true as
  others come (`AnswersStand`).
* **AgentProofs**, with one lemma per handler, one per operation of the funnel and
  one per thing a host does. `GroundedIntents` and `EarnedStages` from one
  invariant per strategy (`Earned`): a thesis the funnel knows is its own and
  complete on file; alternatives exist only behind a thesis and a usable
  synthesis; a selection is one of the alternatives and the position's
  implementation; and each stage rests on the one before. A change of the regime
  takes syntheses back, so "behind a usable synthesis" is said of the history
  `evidenced`, which only grows, as alternatives do (`Keeps`): that is why older
  intents stay grounded, and why `ClearedSound` holds. A new agent leaves the
  funnel alone (`ReopenedStep`), a new host empties it (`RestartStep`).
  `CurrentView` needs no invariant but the types: whatever a handler did, the
  gate compares the workflow states before and after, and neither the regime nor
  a focus that is kept changes the state (`WorkflowOfCleared`).
* **ResearchProofs**, of Disclosures. `AdoptionIsTheManagers`
  (`FlowIsNotAdoption`), for any number of events and days. The property speaks
  of adjusted figures; what is inductive (`WorldInv`) is the history they come
  from: of any two filings, or a filing and today's holding, the shares per unit
  of the fund *in the units of a common date* are equal when nobody traded,
  greater when the manager bought only and less when he sold only (`Following`,
  over `Fits`), and an index that traded has a rebalance on file in between. A
  creation multiplies both sides, a split one side of every earlier line
  (`SplitsFollow`), a filing starts its causes afresh (`FilingFollows`).
  `AdoptionShows` then follows two rows of the panel, in which a line that was
  sold out has no row: `Normalized` of adjusted rows, `Detected` of rows that no
  split lies between (`UnsplitRows`). A traded share moves either by `Precision`
  errors of a float, so that what is computed tells a trade from a rounding
  (`ComputedTells`).
  Of TradeIdeas: `MenusStand` (`MenuStands`), for any universe, disclosures,
  edges and proposals. Its invariant is only that strategies name funds of the
  universe and securities have figures; the work is in what a step computes.
  The gate is a recursion over the answer, solved and counted through
  (`GateLosesNothing`): each proposal goes on one list or the other, and what is
  accepted has a kind of its own and instruments that were named. The builders
  need no gate (`OwnIsAccepted`). Either list, closed with the null option and
  ranked, is a menu (`ClosedIsMenu`): sorting rearranges (`SortedInOrder`), the
  null option scores zero, and what scores no less is not expected to lose more
  than rounding hides (`ScoreType`).

Every invariant and action property of the passing runs is a theorem. Only
model-checked: the two liveness properties of boundary_live (fairness and ENABLED
are out of the prover's reach), and every counterexample.

## 5. Not modelled

* *Audit trail* (`audit/`): records for people, one file each, named by a
  timestamp in milliseconds; nothing in `src/` reads them back.
* *Strategy attribution and coordinator*: `learning/strategy_attribution.py:75`
  declares a field without a default after fields with one, so the module
  cannot be imported, nor `learning/coordinator.py`, which imports it;
  `learning/management.py` calls attributes its collaborators do not have. They
  have no behaviour to model.
* *Presentation and transport*: the older dashboard (`console/app.py`), the HTTP
  and MCP endpoints, which translate requests into calls of the services
  modelled here, bearer tokens and passwords, the text router that turns a
  message into an intent (its answer is chosen), the calls to a language model
  (its answer is chosen).
* *Shadow deployment* (`learning/shadow_deployment.py`): a log in memory and
  arithmetic over it. Which model a pair of predictions is of is the caller's to
  say (`:122`), its one caller is the coordinator, which cannot be imported, and
  no sentence of the code says what a deployment that replaces another should
  find in the log.
* *Renames*: `resolve_canonical_id` (`ingestion/corporate_actions.py:183`) is
  called by the regression replay only, which registers no mappings, so a line of
  a fund has one name.
* *Statistics*: velocity, graph centralities, option greeks, independence
  scores, the fitting of models: stateless floating-point formulas. Where a
  decision rests on them the figure is chosen.
* *Data*: fetching and parsing of files, configuration, simulated disclosures.
* Parts of modelled components: snapshots of the portfolio store
  (`execution/gateway.py:99`), a log line cut off by a crash, sessions, briefs,
  evidence and notes in the log, the switch without a state file, quote
  freshness, option legs (part of an intent's terms), the bodies of validators
  and executors, the kinds of fields of a view and their coercion.

## 6. Plan

Done: every component above that has state and control of its own. Next, in this
order:

1. Sessions, briefs and evidence in Workbench, and a line that a crash cut off,
   which makes every later start fail.
2. The audit trail, once something reads it back.
3. What people enter, as values, in Agent, so that a refresh's overwriting of an
   entry can be told from its keeping it.
4. Proofs: an abstract log that never forgets and an abstract registry with one
   champion at a time, implemented by Workbench and by ModelRegistry, as Dispatch
   is by the boundary and HaltLatch by the switch.
