------------------------------ MODULE Console ------------------------------
(***************************************************************************)
(* The operator console: console/hedgehog.py with the renderer of          *)
(* console/components/generative_view.py, the views of orchestration/      *)
(* ui_composer.py and the check every view passes before it is drawn       *)
(* (ui/registry.py).                                                       *)
(*                                                                         *)
(* The page is a script.  Every interaction runs it again from the top: it *)
(* checks and draws the transcript, entry by entry, and then the column of *)
(* pending decisions.  A control that shows something else than the view   *)
(* holds is an event: it is recorded, the views it makes stale are         *)
(* replaced, and the script starts over.  A view that fails its check      *)
(* raises, and nothing below it is drawn.                                  *)
(*                                                                         *)
(* Abstractions: an entry of the transcript is its view (a turn of prose   *)
(* only adds none); of a view's controls the stance is kept, the one with  *)
(* a list of options; a hash is the number of previews made of the order;  *)
(* who the operator acts as is left to Approvals.                          *)
(* Every builder of a component writes its required data and its           *)
(* provenance as literals, so what is left of the registry's check is the  *)
(* actions and the hashes.                                                 *)
(***************************************************************************)
EXTENDS FiniteSetsExt, Integers, SequencesExt

CONSTANTS
  Projects,
  Seeded,      \* the project that seed() leaves the pending work in
  Orders,      \* intents the console may come to hold
  FirstOrder,  \* the one seed() leaves awaiting approval
  Actions,    \* workflow actions seed() leaves awaiting approval
  MaxEntries   \* bound: views in all transcripts

ASSUME SeededAssumption == Seeded \in Projects /\ FirstOrder \in Orders

VARIABLES
  project,      \* the project open
  transcripts,  \* [Projects -> Seq(views)]
  book,         \* the transaction service: [Orders -> [state, hash]]
  actions,     \* the approval service: [Actions -> state]
  stances,      \* [Projects -> the stance in project state]
  page,         \* what the last run of the script came to
  reruns        \* history: events in a row that no one's click started, up to 2

serviceVars == <<book, actions>>
consoleVars == <<project, transcripts, serviceVars, stances, page, reruns>>

\* DOVISH is treated as VOLATILITY is.
Options == <<"HAWKISH", "VOLATILITY">>
NoStance == "NONE"
Untouched == "UNTOUCHED"
AsHeld == "AS_HELD"

-----------------------------------------------------------------------------
(* What a view is made of, and what the registry permits.                  *)

ViewKinds == {"strategies", "synthesis", "blocked", "thesis", "implementations",
              "catalyst", "trade", "no_trade", "inbox", "continuity", "pipeline"}

Components(kind) ==
  CASE kind = "strategies" -> {"strategy_candidates", "funnel_rail"}
    [] kind = "synthesis" -> {"iav_gauge", "holdings_delta_table", "manager_breadth_graph",
                              "evidence_card", "counter_thesis_panel", "signal_card",
                              "etf_implementation_comparison"}
    [] kind = "thesis" -> {"signal_card", "evidence_card", "counter_thesis_panel",
                           "etf_implementation_comparison"}
    [] kind = "implementations" -> {"implementation_candidates"}
    [] kind = "catalyst" -> {"etf_implementation_comparison", "risk_budget_panel",
                             "counter_thesis_panel"}
    [] kind = "trade" -> {"approval_panel"}
    [] kind \in {"blocked", "no_trade"} -> {"metric"}
    [] kind = "inbox" -> {"approval_inbox"}
    [] kind = "continuity" -> {"continuity_brief"}
    [] kind = "pipeline" -> {"funnel_rail"}

\* The actions the builders give a component.
Offers(component) ==
  CASE component = "strategy_candidates" -> {"synthesize_disclosures"}
    [] component = "implementation_candidates" -> {"select_implementation"}
    [] component = "etf_implementation_comparison" -> {"draft_intent"}
    [] component = "signal_card" -> {"open_thesis", "pin_to_workbench"}
    [] component \in {"evidence_card", "counter_thesis_panel"} -> {"open_evidence"}
    [] component \in {"iav_gauge", "holdings_delta_table", "approval_inbox"} -> {"drill_down"}
    [] component = "approval_panel" ->
         {"request_approval", "modify_intent", "reject_intent", "open_evidence"}
    [] component = "continuity_brief" -> {"resume_thread"}
    [] component \in {"metric", "funnel_rail", "manager_breadth_graph", "risk_budget_panel"} -> {}

\* REGISTRY
Permitted(component) ==
  CASE component = "metric" -> {"drill_down", "pin_to_workbench", "generate_strategies"}
    [] component \in {"iav_gauge", "manager_breadth_graph", "holdings_delta_table",
                      "funnel_rail"} -> {"drill_down"}
    [] component = "signal_card" -> {"drill_down", "draft_intent", "pin_to_workbench", "open_thesis"}
    [] component \in {"evidence_card", "counter_thesis_panel"} -> {"open_evidence"}
    [] component = "etf_implementation_comparison" -> {"draft_intent", "drill_down"}
    [] component = "risk_budget_panel" -> {}
    [] component = "approval_panel" ->
         {"request_approval", "modify_intent", "reject_intent", "open_evidence"}
    [] component = "approval_inbox" -> {"request_approval", "drill_down", "switch_project"}
    [] component = "continuity_brief" -> {"resume_thread", "drill_down", "switch_project"}
    [] component = "strategy_candidates" ->
         {"synthesize_disclosures", "drill_down", "pin_to_workbench"}
    [] component = "implementation_candidates" -> {"select_implementation", "drill_down"}

\* ChatAgent.act: the actions that have a handler, and the views these may end in.
Leads(action, kind) ==
  CASE action = "synthesize_disclosures" -> {"synthesis", "blocked"}
    [] action = "open_thesis" -> {"thesis"}
    [] action = "select_implementation" -> {"implementations", "trade", "no_trade"}
    [] action = "draft_intent" /\ kind = "catalyst" -> {"catalyst"}
    [] action = "draft_intent" /\ kind # "catalyst" -> {"implementations", "trade", "no_trade"}
    [] OTHER -> {}

-----------------------------------------------------------------------------
(* The hashes the services know, and the check.                            *)

\* Mutation: only what still awaits a decision.
AuthorizedWhilePending(of, hash) ==
  IF of \in Orders THEN book[of] = [state |-> "AWAITING_APPROVAL", hash |-> hash]
  ELSE actions[of] = "AWAITING_APPROVAL"

\* authorized_hashes: of the preview on record, and of a request as it was submitted.
Authorized(of, hash) == of \in Actions \/ book[of].hash = hash

Accepted(v) ==
  /\ \A c \in Components(v.kind) : Offers(c) \subseteq Permitted(c)
  /\ \A panel \in v.panels : Authorized(panel.of, panel.hash)

HasControl(v) == v.value # NoStance

\* The option a box shows for a value that is none of them is the first.
Widget(v) ==
  IF v.widget # Untouched THEN v.widget
  ELSE IF Contains(Options, v.value) THEN v.value ELSE Head(Options)

Differs(v) == HasControl(v) /\ Widget(v) # v.value

Entry == transcripts[project]
Refusing == {i \in DOMAIN Entry : ~Accepted(Entry[i])}

\* On the page now: everything above the first view that was refused.
Drawn(i) == i \in DOMAIN Entry /\ \A j \in Refusing : i < j
Waits == page # "RUNNING"
DecisionsDrawn == page = "DRAWN"

Clicked(kind) ==
  \E i \in DOMAIN Entry : Drawn(i)
    /\ \E c \in Components(Entry[i].kind) :
         \E action \in Offers(c) : kind \in Leads(action, Entry[i].kind)

\* A message needs the field below the transcript.
Said == page = "DRAWN"

Interacts(outcome) == Waits /\ page' = outcome /\ reruns' = 0

-----------------------------------------------------------------------------
(* Turns: a message, or a click on an action of a view.                    *)

View(kind, panels, asked, value) ==
  [kind |-> kind, panels |-> panels, asked |-> asked, value |-> value,
   widget |-> Untouched, live |-> value # NoStance]

Appends(v) ==
  /\ MapThenSumSet(LAMBDA p : Len(transcripts[p]), Projects) < MaxEntries
  /\ transcripts' = [transcripts EXCEPT ![project] = Append(@, v)]
  /\ Interacts("RUNNING")
  /\ UNCHANGED <<project, actions>>

PlainTurn(kind) ==
  /\ Said \/ Clicked(kind)
  /\ Appends(View(kind, {}, AsHeld, NoStance))
  /\ UNCHANGED <<book, stances>>

\* design_trade: the preview it makes is shown with its hash, whatever it found.
TradeTurn(o, state) ==
  LET made == [state |-> state, hash |-> IF state = "KILL_SWITCHED" THEN 0 ELSE 1]
      kind == IF made.hash = 0 THEN "no_trade" ELSE "trade"
      panel == [of |-> o, hash |-> made.hash, button |-> state = "AWAITING_APPROVAL"]
  IN /\ book[o].state = "NONE"
     /\ Said \/ Clicked(kind)
     /\ book' = [book EXCEPT ![o] = made]
     /\ Appends(View(kind, IF made.hash = 0 THEN {} ELSE {panel}, AsHeld, NoStance))
     /\ UNCHANGED stances

PendingActions == {r \in Actions : project = Seeded /\ actions[r] = "AWAITING_APPROVAL"}
PendingOrders == {o \in Orders : book[o].state = "AWAITING_APPROVAL"}

\* The inbox lists the orders of every project; it has no button for an item.
InboxTurn ==
  /\ Said
  /\ Appends(View("inbox",
                  {[of |-> o, hash |-> book[o].hash, button |-> FALSE] : o \in PendingOrders}
                    \union {[of |-> r, hash |-> 1, button |-> FALSE] : r \in PendingActions},
                  AsHeld, NoStance))
  /\ UNCHANGED <<book, stances>>

\* The agent of this page has an event in focus.
Focused == \E i \in DOMAIN Entry : Entry[i].live

(* A dated event names a stance or is VOLATILITY; a follow-up that names   *)
(* neither leaves it unspecified; "go" keeps the one held.                 *)
CatalystTurn(asked) ==
  /\ Said
  /\ \/ Contains(Options, asked)
     \/ Focused /\ asked = "UNSPECIFIED"
     \/ asked = stances[project] /\ asked # NoStance
  /\ stances' = [stances EXCEPT ![project] = asked]
  /\ Appends(View("catalyst", {}, asked, asked))
  /\ UNCHANGED book

\* A trade designed from a catalyst's plan shows the plan, and remembers nothing.
PlanTurn ==
  /\ Focused /\ Clicked("catalyst")
  /\ Appends(View("catalyst", {}, AsHeld, stances[project]))
  /\ UNCHANGED <<book, stances>>

-----------------------------------------------------------------------------
(* Decisions.                                                              *)

ShownWith(o, button) ==
  \E i \in DOMAIN Entry : Drawn(i) /\ Entry[i].kind = "trade"
    /\ \E panel \in Entry[i].panels : panel.of = o /\ (button => panel.button)

\* _revalidate_for_execution puts a preview of its own on record, unless the switch is locked.
Resolved(o) ==
  {[state |-> s, hash |-> book[o].hash + 1] :
     s \in {"SUBMITTED", "REJECTED", "APPROVAL_EXPIRED"}}
    \union {[state |-> "KILL_SWITCHED", hash |-> book[o].hash]}

\* _decide: approve, and execute at once.  The whitelist refuses any other state.
ApproveOrder(o) ==
  /\ (o \in PendingOrders /\ DecisionsDrawn) \/ ShownWith(o, TRUE)
  /\ IF o \in PendingOrders
     THEN Interacts("RUNNING") /\ \E to \in Resolved(o) : book' = [book EXCEPT ![o] = to]
     ELSE Interacts("RAISED") /\ book' = book
  /\ UNCHANGED <<project, transcripts, actions, stances>>

Cancelled(state) ==
  CASE state \in {"AWAITING_APPROVAL", "APPROVAL_EXPIRED"} -> "CANCELLED"
    [] state = "SUBMITTED" -> "CANCEL_REQUESTED"
    [] OTHER -> state

RejectOrder(o) ==
  /\ (o \in PendingOrders /\ DecisionsDrawn) \/ ShownWith(o, FALSE)
  /\ book' = [book EXCEPT ![o].state = Cancelled(@)]
  /\ Interacts(IF book' = book THEN "RAISED" ELSE "RUNNING")
  /\ UNCHANGED <<project, transcripts, actions, stances>>

(* Approved for good or for the time being, refused or cancelled: Approvals *)
(* tells which.  The page only shows what is still pending.                *)
DecideAction(r) ==
  /\ r \in PendingActions /\ DecisionsDrawn
  /\ \E to \in {"AWAITING_APPROVAL", "DECIDED"} : actions' = [actions EXCEPT ![r] = to]
  /\ Interacts("RUNNING")
  /\ UNCHANGED <<project, transcripts, book, stances>>
-----------------------------------------------------------------------------
(* Controls, the sidebar and the script.                                   *)

Enter(i, option) ==
  /\ Drawn(i) /\ HasControl(Entry[i]) /\ option # Widget(Entry[i])
  /\ transcripts' = [transcripts EXCEPT ![project][i].widget = option]
  /\ Interacts("RUNNING")
  /\ UNCHANGED <<project, serviceVars, stances>>

(* open_project, by the switcher or after the simulated collapse: a new    *)
(* agent, which knows none of the views the transcript shows.              *)
Open(p) ==
  /\ project' = p
  /\ transcripts' = [transcripts EXCEPT ![p] =
                       [i \in DOMAIN @ |-> [@[i] EXCEPT !.live = FALSE]]]
  /\ Interacts("RUNNING")
  /\ UNCHANGED <<serviceVars, stances>>

SeedOrders == [o \in Orders |-> IF o = FirstOrder THEN [state |-> "AWAITING_APPROVAL", hash |-> 1]
                                ELSE [state |-> "NONE", hash |-> 0]]
SeedActions == [r \in Actions |-> "AWAITING_APPROVAL"]
NoEntries == [p \in Projects |-> <<>>]
NoStances == [p \in Projects |-> NoStance]

ConsoleInit ==
  /\ project = Seeded
  /\ transcripts = NoEntries /\ stances = NoStances
  /\ book = SeedOrders /\ actions = SeedActions
  /\ page = "RUNNING" /\ reruns = 0

\* A new stack on an empty log.
Reset ==
  /\ project' = Seeded
  /\ transcripts' = NoEntries /\ stances' = NoStances
  /\ book' = SeedOrders /\ actions' = SeedActions
  /\ Interacts("RUNNING")

\* The stance in project state once the live views up to i have been made again.
HeldAfter(i, value) ==
  LET asking == {j \in 1 .. i : Entry[j].live /\ Entry[j].asked # AsHeld}
  IN IF asking = {} THEN value ELSE Entry[Max(asking)].asked

\* Mutation: the new view takes the control of the old one over.
RegeneratedInPlace(i, value) ==
  IF Entry[i].live THEN [Entry[i] EXCEPT !.value = HeldAfter(i, value)] ELSE Entry[i]

\* A live view is made again by its own call, with its own stance.
Regenerated(i, value) ==
  IF Entry[i].live
  THEN View("catalyst", {}, Entry[i].asked, HeldAfter(i, value))
  ELSE Entry[i]

\* The event of control i: recorded first, then every live view is replaced.
Recorded(i) ==
  LET value == Widget(Entry[i])
  IN /\ transcripts' = [transcripts EXCEPT ![project] =
                          [j \in DOMAIN @ |-> Regenerated(j, value)]]
     /\ stances' = [stances EXCEPT ![project] = HeldAfter(Len(Entry), value)]
     /\ reruns' = IF reruns = 2 THEN 2 ELSE reruns + 1
     /\ page' = "RUNNING"

RunScript ==
  LET differing == {i \in DOMAIN Entry : Drawn(i) /\ Differs(Entry[i])}
  IN /\ page = "RUNNING"
     /\ IF differing # {} THEN Recorded(Min(differing))
        ELSE /\ page' = IF Refusing = {} THEN "DRAWN" ELSE "REFUSED"
             /\ UNCHANGED <<transcripts, stances, reruns>>
     /\ UNCHANGED <<project, serviceVars>>

ConsoleNext ==
  \/ RunScript
  \/ \E kind \in {"strategies", "synthesis", "blocked", "thesis", "implementations",
                   "continuity", "pipeline"} : PlainTurn(kind)
  \/ \E o \in Orders, state \in {"AWAITING_APPROVAL", "REJECTED", "KILL_SWITCHED"} :
       TradeTurn(o, state)
  \/ InboxTurn
  \/ \E asked \in {"HAWKISH", "VOLATILITY", "UNSPECIFIED"} : CatalystTurn(asked)
  \/ PlanTurn
  \/ \E o \in Orders : ApproveOrder(o) \/ RejectOrder(o)
  \/ \E r \in Actions : DecideAction(r)
  \/ \E i \in DOMAIN Entry, option \in {"HAWKISH", "VOLATILITY"} : Enter(i, option)
  \/ \E p \in Projects : Open(p)
  \/ Reset

ConsoleSpec == ConsoleInit /\ [][ConsoleNext]_consoleVars

-----------------------------------------------------------------------------
(* Properties.                                                             *)

(* A page is refused only because an order it shows was approved and has   *)
(* been previewed again since: a rejection, a cancellation, a decision on  *)
(* a request, a new agent or another operator never take a page away       *)
(* (_validate_hash_binding, authorized_hashes).                            *)
RefusedForARepreview ==
  page = "REFUSED" =>
    \E i \in DOMAIN Entry : \E panel \in Entry[i].panels :
      /\ panel.of \in Orders
      /\ panel.hash < book[panel.of].hash
      /\ book[panel.of].state \notin {"NONE", "AWAITING_APPROVAL", "KILL_SWITCHED"}

(* An entry is one event: the script that records it runs once more and    *)
(* stops.  It does not when a stance was left unspecified, which the box   *)
(* shows as its first option and every refresh leaves unspecified again,   *)
(* or when the view outlived the agent that would replace it               *)
(* (_render_fields, refresh_for).                                          *)
SettlesAtOnce ==
  reruns = 2 =>
    \E i \in DOMAIN Entry : Differs(Entry[i]) /\ (Entry[i].live => Entry[i].value = "UNSPECIFIED")

(* What the registry says of itself: a view is refused for a hash that the *)
(* core did not issue.  Every hash shown here was issued by the core.      *)
IssuedHashesAreDrawn == page # "REFUSED"
=============================================================================
