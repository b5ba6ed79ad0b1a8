------------------------------- MODULE Agent -------------------------------
(***************************************************************************)
(* The conversational agent of one project: orchestration/agent.py, with   *)
(* the funnel it drives, the gate on what a turn may change (ui/           *)
(* advance_gate.py), the map of live views to the fields they are computed *)
(* from (ui/dependencies.py), and its hosts, which make it, make it anew   *)
(* and switch the simulated regime (api/bridge.py, console/hedgehog.py).   *)
(*                                                                         *)
(* A turn is one action: it computes the workflow state, runs a handler,   *)
(* and only then asks the gate, which raises without undoing anything.  A  *)
(* change of a field re-runs the handler of every live view computed from  *)
(* it, one after the other.  Appends to the workbench log may raise in the *)
(* middle of a handler.  The funnel, the views and the transaction service *)
(* live in memory; theses and entered fields are in the log.               *)
(*                                                                         *)
(* Abstractions: a message is the intent it is routed to, whoever routed   *)
(* it; a thesis is how many of its events are on file; an intent is        *)
(* previewed once create_preview has run on it, whatever state that left   *)
(* it in; a view that no field can make stale is not kept among the live;   *)
(* a concept is whether there is one, and what is entered in a field is    *)
(* left out, for no handler here does one thing or another for it.         *)
(***************************************************************************)
EXTENDS FiniteSetsExt, ResearchFunnel

CONSTANTS
  MaxTheses,     \* bound: theses opened
  MaxIntents,    \* bound: trade intents drafted in one life of the process
  MaxViews,      \* bound: live views that fields can make stale
  MaxFailures,   \* bound: appends that raise
  MaxSwitches    \* bound: changes of the regime, and openings of the project again

VARIABLES
  funnel,      \* ResearchFunnel
  focus,       \* focus_strategy_id
  concept,     \* whether there is a focus_concept
  remembered,  \* whether "catalyst_concepts" is set in the project's state, on file
  planned,     \* whether a catalyst plan is in catalysts
  theses,      \* on file: [strategy, events]
  intents,     \* of the transaction service: [strategy, thesis, kind, linked, previewed]
  views,       \* live views: their producers, oldest first
  refreshing,  \* places of the views refresh_for has still to make anew
  shown,       \* history: the workflow state of the last view shown, or UNSEEN once
               \* a turn has raised, or the agent was made anew, since that view
  failures, switches

ledgerVars == <<theses, intents>>
deskVars == <<concept, remembered, planned>>
countVars == <<failures, switches>>
agentVars == <<funnel, focus, deskVars, ledgerVars, views, refreshing, shown, countVars>>

\* What open_thesis appends, in this order: EVIDENCED is the evidence with the
\* two changes of state around it.
ThesisEvents == <<"THESIS_CREATED", "EVIDENCED", "WATCH_CONDITION_SET">>
Complete == Len(ThesisEvents)

Fields == {"stance", "catalyst_date", "max_loss", "base_allocation", "invalidation_condition"}

\* A producer: the handler that made a view and what it was called with.
Catalyst(matched) == [name |-> "catalyst", strategy |-> None, matched |-> matched]
Call(name, s) == [name |-> name, strategy |-> s, matched |-> FALSE]

Endings == {"VIEW", "PROSE", "RAISED"}

AgentInit ==
  /\ funnel = EmptyFunnel
  /\ focus = None
  /\ concept = FALSE
  /\ remembered = FALSE
  /\ planned = FALSE
  /\ theses = <<>>
  /\ intents = <<>>
  /\ views = <<>>
  /\ refreshing = {}
  /\ shown = "NEW"
  /\ failures = 0
  /\ switches = 0

-----------------------------------------------------------------------------
(* The workflow state, the gate and the live views.                        *)

Watched == IF focus # None THEN focus ELSE First(funnel, Keys(funnel))

Workflow ==
  IF Watched = None \/ ~Placed(funnel, Watched) THEN "NEW"
  ELSE LET stage == funnel.positions[Watched].stage
       IN CASE stage = "STRATEGY_GENERATION" -> "STRATEGY"
            [] stage \in {"DISCLOSURE_SYNTHESIS", "EVIDENCE_REVIEW"} -> "RESEARCH"
            [] stage \in {"IMPLEMENTATION_GENERATION", "IMPLEMENTATION_SELECTED"} -> "IMPLEMENTATION"
            [] OTHER -> "TRADE_PREVIEW"

\* Mutation: the gate lets a turn without a view through.
GateOpen(made) == TRUE

\* Prose may not change the workflow state; every view made here is renderable.
GatePasses(made) == made = "VIEW" \/ Workflow' = Workflow

\* The controls a view draws and the fields its handler reads (IMPLICIT_DEPENDENCIES).
DependsOn(producer) ==
  CASE producer.name = "catalyst" -> {"stance", "catalyst_date", "max_loss", "invalidation_condition"}
    [] producer.name = "design_trade" -> {"max_loss", "base_allocation", "invalidation_condition"}
    [] producer.name = "design_catalyst" -> Fields
    [] producer.name = "open_thesis" -> {"invalidation_condition"}

Passed(made) == made # "RAISED" /\ GatePasses(made)

\* made is how the handler ended; tracked the producer of its view, or <<>> if no
\* field matters to it; replaced the live views without the one it takes the place of.
Ends(made, tracked, replaced) ==
  /\ IF Passed(made) /\ made = "VIEW"
     THEN shown' = Workflow' /\ views' = replaced \o tracked
     ELSE shown' = (IF Passed(made) THEN shown ELSE "UNSEEN") /\ views' = views
  /\ Len(views') <= MaxViews

Raises == failures < MaxFailures /\ failures' = failures + 1
Fine == UNCHANGED failures

-----------------------------------------------------------------------------
(* Handlers.  Each says what it changes and, in made, how it ended.        *)

Says(made) == made = "PROSE" /\ UNCHANGED <<funnel, focus, deskVars, ledgerVars, failures>>

Looks(made) == made = "VIEW" /\ UNCHANGED <<funnel, focus, deskVars, ledgerVars, failures>>

\* _do_catalyst for a concept matched, in focus, or of the project: two fields are
\* remembered, concepts before stance, one append after the other if they differ.
PlanCatalyst(call, made) ==
  IF ~call.matched /\ ~concept /\ ~remembered THEN Says(made)
  ELSE /\ concept' = TRUE
       /\ \/ made = "VIEW" /\ Fine /\ remembered' = TRUE /\ planned' = TRUE
          \/ made = "RAISED" /\ Raises /\ remembered' \in {remembered, TRUE} /\ UNCHANGED planned
       /\ UNCHANGED <<funnel, focus, ledgerVars>>

\* _do_generate for a query that matches; found is in order of observability.
Generate(found, made) ==
  IF found = <<>> THEN Says(made)
  ELSE /\ made = "VIEW"
       /\ funnel' = Generated(funnel, found)
       /\ UNCHANGED <<focus, deskVars, ledgerVars, failures>>

Synthesize(s, made) ==
  /\ made = "VIEW"
  /\ \E usable \in BOOLEAN :
       /\ Synthesized(funnel, s) => usable
       /\ funnel' = SynthesizedAs(funnel, s, usable)
  /\ focus' = s
  /\ UNCHANGED <<deskVars, ledgerVars, failures>>

\* Mutation: the thesis is marked before its events are appended.
RecordThesisMarkedFirst(s, made) ==
  /\ Len(theses) < MaxTheses
  /\ focus' = s
  /\ funnel' = MarkedWithThesis(funnel, s, "EVIDENCE_REVIEW", Len(theses) + 1)
  /\ \/ /\ made = "VIEW" /\ Fine
        /\ theses' = Append(theses, [strategy |-> s, events |-> Complete])
     \/ /\ made = "RAISED" /\ Raises
        /\ \E n \in 1..Complete - 1 : theses' = Append(theses, [strategy |-> s, events |-> n])
  /\ UNCHANGED <<deskVars, intents>>

\* The events are appended, any of which may raise, and then the funnel is marked.
RecordThesis(s, made) ==
  /\ Len(theses) < MaxTheses
  /\ focus' = s
  /\ \/ /\ made = "VIEW" /\ Fine
        /\ theses' = Append(theses, [strategy |-> s, events |-> Complete])
        /\ funnel' = MarkedWithThesis(funnel, s, "EVIDENCE_REVIEW", Len(theses'))
     \/ /\ made = "RAISED" /\ Raises
        /\ \/ UNCHANGED theses
           \/ \E n \in 1..Complete - 1 : theses' = Append(theses, [strategy |-> s, events |-> n])
        /\ UNCHANGED funnel
  /\ UNCHANGED <<deskVars, intents>>

OpenThesis(s, made) ==
  IF s = None \/ ~Usable(funnel, s) THEN Says(made) ELSE RecordThesis(s, made)

\* What implementations and trades require: a usable synthesis and a thesis.
Researched(base, s) == s # None /\ Usable(base, s) /\ base.positions[s].thesis # 0

\* Either path; the model's may raise where it records its decision.
GenerateImplementations(s, made) ==
  IF ~Researched(funnel, s) THEN Says(made)
  ELSE /\ \/ /\ made = "VIEW" /\ Fine
             /\ \E kinds \in Alternatives : funnel' = WithImplementations(funnel, s, kinds)
             /\ focus' = s
          \/ /\ made = "RAISED" /\ Raises
             /\ funnel.alternatives[s] = {}
             /\ UNCHANGED <<funnel, focus>>
       /\ UNCHANGED <<deskVars, ledgerVars>>

\* Mutation: the preview is made before the intent is linked in the log.
DraftPreviewedFirst(base, s, made) ==
  LET draft == [strategy |-> s, thesis |-> base.positions[s].thesis, kind |-> base.selected[s],
                linked |-> FALSE, previewed |-> TRUE]
      whole == [draft EXCEPT !.linked = TRUE]
  IN \/ /\ made = "VIEW" /\ Fine
        /\ intents' = Append(intents, whole)
        /\ funnel' = MarkedWithIntent(base, s, "APPROVAL", Len(intents'))
     \/ /\ made = "RAISED" /\ Raises
        /\ \E kept \in {draft, whole} : intents' = Append(intents, kept)
        /\ funnel' = base

\* register_draft, INTENT_LINKED, create_preview, INTENT_STATE_CHANGED and mark:
\* a raise leaves the bare draft, or one that is previewed but not marked.
Draft(base, s, made) ==
  LET draft == [strategy |-> s, thesis |-> base.positions[s].thesis, kind |-> base.selected[s],
                linked |-> FALSE, previewed |-> FALSE]
      whole == [draft EXCEPT !.linked = TRUE, !.previewed = TRUE]
  IN \/ /\ made = "VIEW" /\ Fine
        /\ intents' = Append(intents, whole)
        /\ funnel' = MarkedWithIntent(base, s, "APPROVAL", Len(intents'))
     \/ /\ made = "RAISED" /\ Raises
        /\ \E kept \in {draft, whole} : intents' = Append(intents, kept)
        /\ funnel' = base

\* Of the kinds, only vehicles are sized; nothing is selected silently.
DesignTrade(s, made) ==
  IF ~Researched(funnel, s) THEN Says(made)
  ELSE CASE funnel.selected[s] = None      -> GenerateImplementations(s, made)
         [] funnel.selected[s] = "VEHICLE" -> /\ Len(intents) < MaxIntents
                                              /\ Draft(funnel, s, made)
                                              /\ UNCHANGED <<focus, deskVars, theses>>
         [] OTHER                          -> Says(made)

\* The selection and the focus stand, whatever becomes of the trade.
SelectThenDesign(s, kind, made) ==
  LET chosen == WithSelection(funnel, s, kind)
  IN /\ focus' = s
     /\ IF kind = "VEHICLE" /\ Researched(chosen, s)
        THEN Len(intents) < MaxIntents /\ Draft(chosen, s, made)
        ELSE made = "PROSE" /\ Fine /\ funnel' = chosen /\ UNCHANGED intents
     /\ UNCHANGED <<deskVars, theses>>

SelectImplementation(s, kind, made) ==
  IF s = None THEN Says(made)
  ELSE CASE funnel.alternatives[s] = {}     -> GenerateImplementations(s, made)
         [] kind \in funnel.alternatives[s] -> SelectThenDesign(s, kind, made)
         [] OTHER                           -> Says(made)

DesignCatalystTrade(made) == IF planned THEN Looks(made) ELSE Says(made)

\* _resolve_strategy: what the query names, the focus, the first that is not blocked.
Resolve(named) ==
  LET viable == {s \in Keys(funnel) : ~funnel.positions[s].blocked}
  IN IF named # None THEN named
     ELSE IF focus # None THEN focus
     ELSE First(funnel, IF viable # {} THEN viable ELSE Keys(funnel))

\* The handlers whose views fields can make stale.
Run(call, made) ==
  CASE call.name = "catalyst"        -> PlanCatalyst(call, made)
    [] call.name = "design_trade"    -> DesignTrade(Resolve(call.strategy), made)
    [] call.name = "design_catalyst" -> DesignCatalystTrade(made)
    [] call.name = "open_thesis"     -> OpenThesis(Resolve(call.strategy), made)

\* 'go' without a catalyst: continue from where the project is.
Continue(made) ==
  LET having(field) == {s \in Keys(funnel) : funnel.positions[s][field] # 0}
  IN IF having("intent") # {} THEN Looks(made)
     ELSE IF having("thesis") # {} THEN DesignTrade(First(funnel, having("thesis")), made)
     ELSE IF funnel.syntheses # <<>> THEN OpenThesis(Head(funnel.syntheses).strategy, made)
     ELSE IF Keys(funnel) # {} THEN Synthesize(First(funnel, Keys(funnel)), made)
     ELSE Says(made)

-----------------------------------------------------------------------------
(* Turns: messages and clicks, one at a time.                              *)

\* A turn of the user's: how the handler is called decides what is tracked.
Plain(tracked, made) ==
  /\ Ends(made, tracked, views)
  /\ UNCHANGED <<refreshing, switches>>

SendCatalyst(call) ==
  \E made \in Endings : PlanCatalyst(call, made) /\ Plain(<<call>>, made)

SendGenerate(found) ==
  \E made \in Endings : Generate(found, made) /\ Plain(<<>>, made)

SendSynthesize(named) ==
  LET s == Resolve(named)
  IN \E made \in Endings :
       (IF s = None THEN Says(made) ELSE Synthesize(s, made)) /\ Plain(<<>>, made)

SendOpenThesis(named) ==
  \E made \in Endings :
    OpenThesis(Resolve(named), made) /\ Plain(<<Call("open_thesis", named)>>, made)

SendGenerateImplementations(named) ==
  \E made \in Endings : GenerateImplementations(Resolve(named), made) /\ Plain(<<>>, made)

\* The trade this shows depends on no field: select_implementation declares none.
SendSelect(named, kind) ==
  \E made \in Endings : SelectImplementation(Resolve(named), kind, made) /\ Plain(<<>>, made)

SendDesignTrade(named) ==
  \E made \in Endings :
    DesignTrade(Resolve(named), made) /\ Plain(<<Call("design_trade", named)>>, made)

SendDesignCatalyst ==
  \E made \in Endings :
    DesignCatalystTrade(made) /\ Plain(<<Call("design_catalyst", None)>>, made)

SendProceed ==
  IF concept \/ remembered
  THEN SendCatalyst(Catalyst(FALSE))
  ELSE \E made \in Endings : Continue(made) /\ Plain(<<>>, made)

\* inbox and board; continuity, whose session is an append.
SendLook ==
  \/ Looks("VIEW") /\ Plain(<<>>, "VIEW")
  \/ Raises /\ UNCHANGED <<funnel, focus, deskVars, ledgerVars>> /\ Plain(<<>>, "RAISED")

-----------------------------------------------------------------------------
(* Fields: a change is recorded, and the views it makes stale re-made.     *)

Affected(field) == {k \in DOMAIN views : field \in DependsOn(views[k])}

\* A delivery retried by the host is recorded once, but refreshes again.
FieldDelivered(field) ==
  /\ refreshing = {}
  /\ \/ Fine /\ refreshing' = Affected(field)
     \/ Raises /\ UNCHANGED refreshing
  /\ UNCHANGED <<funnel, focus, deskVars, ledgerVars, views, shown, switches>>

\* Oldest first; a view made anew is the latest, and those after it move up.
Refresh ==
  /\ refreshing # {}
  /\ LET k    == Min(refreshing)
         rest == refreshing \ {k}
     IN \E made \in Endings :
          /\ Run(views[k], made)
          /\ Ends(made, <<views[k]>>, RemoveAt(views, k))
          /\ refreshing' = IF ~Passed(made) THEN {}
                           ELSE IF made = "VIEW" THEN {j - 1 : j \in rest} ELSE rest
  /\ UNCHANGED switches

-----------------------------------------------------------------------------
(* The hosts, between turns.                                               *)

Switches ==
  /\ refreshing = {}
  /\ switches < MaxSwitches /\ switches' = switches + 1
  /\ UNCHANGED failures

\* The radio of the console: positions, theses and alternatives stay.
RegimeChanges ==
  /\ Switches
  /\ funnel' = Cleared(funnel)
  /\ UNCHANGED <<focus, deskVars, ledgerVars, views, refreshing, shown>>

\* A new agent has no focus, no concept, no catalysts and no live views.
Agentless ==
  /\ focus' = None
  /\ concept' = FALSE
  /\ planned' = FALSE
  /\ views' = <<>>
  /\ refreshing' = {}

\* The project is opened again: the funnel, the services and the transcript are kept.
ProjectReopened ==
  /\ Switches
  /\ Agentless
  /\ shown' = "UNSEEN"
  /\ UNCHANGED <<funnel, remembered, ledgerVars>>

\* What was in memory is gone with the process, or with the console's session.
Memoryless ==
  /\ Agentless
  /\ funnel' = EmptyFunnel
  /\ intents' = <<>>
  /\ shown' = "NEW"
  /\ UNCHANGED countVars

\* The host finds the log there; the console deletes it.
HostRestarts == Memoryless /\ UNCHANGED <<remembered, theses>>
ConsoleRestarts == Memoryless /\ remembered' = FALSE /\ theses' = <<>>

Searches == {found \in SeqOf(Strategies, Cardinality(Strategies)) : IsInjective(found)}

Send ==
  \/ \E matched \in BOOLEAN : SendCatalyst(Catalyst(matched))
  \/ \E found \in Searches : SendGenerate(found)
  \/ \E named \in Strategies \union {None} :
       \/ SendSynthesize(named)
       \/ SendOpenThesis(named)
       \/ SendGenerateImplementations(named)
       \/ SendDesignTrade(named)
       \/ \E kind \in Kinds : SendSelect(named, kind)
  \/ SendDesignCatalyst
  \/ SendProceed
  \/ SendLook

AgentNext ==
  \/ refreshing = {} /\ Send
  \/ \E field \in Fields : FieldDelivered(field)
  \/ Refresh
  \/ RegimeChanges
  \/ ProjectReopened
  \/ HostRestarts
  \/ ConsoleRestarts

AgentSpec == AgentInit /\ [][AgentNext]_agentVars

-----------------------------------------------------------------------------
(* Properties.                                                             *)

(* "No position exists without a recorded reason" (agent.py:571): whatever *)
(* raised on the way, and whatever became of the regime and the agent      *)
(* since, an intent names a thesis of its strategy whose evidence and      *)
(* watch condition are all on file, the strategy has had a usable          *)
(* synthesis, and the implementation is a vehicle that is still among the  *)
(* alternatives.  No intent is previewed that the log does not know of.    *)
IntentsAreGrounded ==
  \A k \in DOMAIN intents :
    LET intent == intents[k]
    IN /\ theses[intent.thesis] = [strategy |-> intent.strategy, events |-> Complete]
       /\ intent.strategy \in funnel.evidenced
       /\ intent.kind \in funnel.alternatives[intent.strategy] \ {"NO_TRADE"}
       /\ intent.previewed => intent.linked

\* The position is at the stage or beyond.
Reached(s, stage) == StageIndex(funnel.positions[s].stage) >= StageIndex(stage)

(* The stage of a position is earned (funnel.py:72, :263), though it stays *)
(* when the regime takes the synthesis it was earned with: evidence review *)
(* by a synthesis that was usable, implementations by a complete thesis of *)
(* its own, a selection by an alternative, approval by an intent put to a  *)
(* preview.  Turns that raised, whose changes no one undoes, included.     *)
StagesAreEarned ==
  \A s \in Strategies :
    LET position == funnel.positions[s]
    IN /\ position.thesis # 0 =>
            theses[position.thesis] = [strategy |-> s, events |-> Complete]
       /\ Reached(s, "EVIDENCE_REVIEW") => s \in funnel.evidenced
       /\ Reached(s, "IMPLEMENTATION_GENERATION") =>
            position.thesis # 0 /\ funnel.alternatives[s] # {}
       /\ Reached(s, "IMPLEMENTATION_SELECTED") =>
            /\ position.implementation \in funnel.alternatives[s]
            /\ position.implementation = funnel.selected[s]
       /\ Reached(s, "APPROVAL") =>
            intents[position.intent].strategy = s /\ intents[position.intent].previewed

(* The gate (advance_gate.py:53): no turn that was delivered, by message,  *)
(* by click or by any of the refreshes a field sets off, and no change of  *)
(* the regime, leaves the project in another workflow state than the view  *)
(* last shown.  Only two things can: a turn that raised, whose changes     *)
(* stand although its view was never shown, and a project opened again,    *)
(* whose new agent looks at the first position for want of a focus.        *)
ShownIsCurrent == shown # "UNSEEN" => shown = Workflow
=============================================================================
