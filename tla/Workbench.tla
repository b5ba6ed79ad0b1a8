------------------------------ MODULE Workbench ------------------------------
(***************************************************************************)
(* The workbench event log: workbench/store.py, and the places that append *)
(* to it.  One file holds one hash chain; everything else is a projection, *)
(* computed from the start of the file whenever it is asked for.           *)
(*                                                                         *)
(* The console and the host bridge are processes of their own on the same  *)
(* file.  An operation reads the projection once and decides what it will  *)
(* append; each append reads the last hash and then writes a line.  Other  *)
(* processes may act between any two of these, a process may die, and one  *)
(* that starts appends the demonstration's projects once more.             *)
(*                                                                         *)
(* Abstractions: the projection is kept instead of the lines, as a file    *)
(* only grows until it is deleted; a hash that was read is the last line's *)
(* or an earlier one's; of what a start seeds, the one thesis that has a   *)
(* watch condition.                                                        *)
(***************************************************************************)
EXTENDS FiniteSets, Integers, SequencesExt

CONSTANTS
  Processes,   \* who may have the file open at the same time
  Projects,
  Theses,
  Home,        \* the project of each thesis
  Conditions,  \* watch conditions
  OnBreach,    \* on_breach of each condition
  UIEvents,    \* ids of interface events
  SeedThesis,  \* the thesis and the condition that every start seeds
  SeedCondition

ASSUME FiniteAssumption == IsFiniteSet(Theses) /\ IsFiniteSet(Conditions)
ASSUME HomeAssumption == Home \in [Theses -> Projects]
ASSUME OnBreachAssumption == OnBreach \in [Conditions -> {"ALERT", "DEMOTE", "INVALIDATE"}]
ASSUME SeedAssumption == SeedThesis \in Theses /\ SeedCondition \in Conditions

VARIABLES
  todo,        \* [Processes -> steps its operation has still to take, each the
               \*  events it appends]
  prev,        \* [Processes -> which hash the append under way has read]
  intact,      \* verify_chain() returns
  unreadable,  \* the projects whose events cannot be replayed
  project,     \* projection: the state of each project
  thesis,      \* projection: the state of each thesis
  watch,       \* projection: watch_conditions of each thesis, in order
  recorded,    \* projection: how often each id is in a project's ui_event_ids
  died         \* history: a process died in the middle of an operation

projection == <<unreadable, project, thesis, watch, recorded>>
workbenchVars == <<todo, prev, intact, projection, died>>

Unset == "NONE"
ProjectStates == {"ACTIVE", "PAUSED", "ARCHIVED"}
IdeaStates == {"NASCENT", "RESEARCHING", "EVIDENCED", "CONTESTED", "CONFIRMED",
               "IMPLEMENTED", "INVALIDATED", "ARCHIVED"}

ProjectMoves(s) ==
  CASE s = "ACTIVE" -> {"PAUSED", "ARCHIVED"}
    [] s = "PAUSED" -> {"ACTIVE", "ARCHIVED"}
    [] OTHER        -> {}

IdeaMoves(s) ==
  CASE s = "NASCENT"     -> {"RESEARCHING", "ARCHIVED"}
    [] s = "RESEARCHING" -> {"EVIDENCED", "CONTESTED", "INVALIDATED", "ARCHIVED"}
    [] s = "EVIDENCED"   -> {"CONFIRMED", "CONTESTED", "INVALIDATED", "ARCHIVED"}
    [] s = "CONTESTED"   -> {"EVIDENCED", "RESEARCHING", "INVALIDATED", "ARCHIVED"}
    [] s = "CONFIRMED"   -> {"IMPLEMENTED", "CONTESTED", "INVALIDATED", "ARCHIVED"}
    [] s = "IMPLEMENTED" -> {"CONTESTED", "INVALIDATED", "ARCHIVED"}
    [] s = "INVALIDATED" -> {"ARCHIVED"}
    [] OTHER             -> {}

\* What an event is about, and what it says of it.
EventOf(kind, pr, subject, value) ==
  [kind |-> kind, project |-> pr, subject |-> subject, value |-> value]

ProjectCreated(pr)  == EventOf("PROJECT_CREATED", pr, pr, "ACTIVE")
ProjectMoved(pr, s) == EventOf("PROJECT_STATE_CHANGED", pr, pr, s)
ThesisCreated(t)    == EventOf("THESIS_CREATED", Home[t], t, "NASCENT")
IdeaMoved(t, s)     == EventOf("STATE_CHANGED", Home[t], t, s)
WatchSet(t, c)      == EventOf("WATCH_CONDITION_SET", Home[t], t, c)
WatchBreached(t, c) == EventOf("WATCH_CONDITION_BREACHED", Home[t], t, c)
UIRecorded(pr, e)   == EventOf("UI_EVENT", pr, pr, e)

WorkbenchInit ==
  /\ todo = [p \in Processes |-> <<>>]
  /\ prev = [p \in Processes |-> Unset]
  /\ intact = TRUE
  /\ unreadable = {}
  /\ project = [pr \in Projects |-> Unset]
  /\ thesis = [t \in Theses |-> Unset]
  /\ watch = [t \in Theses |-> <<>>]
  /\ recorded = [pr \in Projects |-> [e \in UIEvents |-> 0]]
  /\ died = FALSE

-----------------------------------------------------------------------------
(* _apply: what one more event makes of the projection of its project.     *)

\* The event raises, in this and every later replay.
Raises(ev) ==
  /\ unreadable' = unreadable \union {ev.project}
  /\ UNCHANGED <<project, thesis, watch, recorded>>

ApplyProject(ev) ==
  \/ /\ ev.kind = "PROJECT_CREATED" \/ ev.value \in ProjectMoves(project[ev.subject])
     /\ project' = [project EXCEPT ![ev.subject] = ev.value]
     /\ UNCHANGED <<unreadable, thesis, watch, recorded>>
  \/ /\ ev.kind # "PROJECT_CREATED" /\ ev.value \notin ProjectMoves(project[ev.subject])
     /\ Raises(ev)

\* A thesis is created with no watch conditions, in place of one with its id.
ApplyIdea(ev) ==
  \/ /\ ev.kind = "THESIS_CREATED" \/ ev.value \in IdeaMoves(thesis[ev.subject])
     /\ thesis' = [thesis EXCEPT ![ev.subject] = ev.value]
     /\ watch' = IF ev.kind = "THESIS_CREATED" THEN [watch EXCEPT ![ev.subject] = <<>>] ELSE watch
     /\ UNCHANGED <<unreadable, project, recorded>>
  \/ /\ ev.kind # "THESIS_CREATED" /\ ev.value \notin IdeaMoves(thesis[ev.subject])
     /\ Raises(ev)

\* The watch conditions without c; no id is there twice.
Without(conditions, c) ==
  LET same == {k \in DOMAIN conditions : conditions[k].id = c}
  IN IF same = {} THEN conditions ELSE RemoveAt(conditions, CHOOSE k \in same : TRUE)

ApplyWatch(ev) ==
  LET marked == [k \in DOMAIN watch[ev.subject] |->
                   IF watch[ev.subject][k].id = ev.value
                   THEN [id |-> ev.value, breached |-> TRUE]
                   ELSE watch[ev.subject][k]]
  IN IF thesis[ev.subject] = Unset THEN Raises(ev)
     ELSE /\ watch' = [watch EXCEPT ![ev.subject] =
                         IF ev.kind = "WATCH_CONDITION_BREACHED" THEN marked
                         ELSE Append(Without(watch[ev.subject], ev.value),
                                     [id |-> ev.value, breached |-> FALSE])]
          /\ UNCHANGED <<unreadable, project, thesis, recorded>>

ApplyUI(ev) ==
  /\ recorded' = [recorded EXCEPT ![ev.project][ev.value] = @ + 1]
  /\ UNCHANGED <<unreadable, project, thesis, watch>>

Apply(ev) ==
  \/ ev.project \in unreadable /\ UNCHANGED projection
  \/ /\ ev.project \notin unreadable
     /\ \/ ev.kind \in {"PROJECT_CREATED", "PROJECT_STATE_CHANGED"} /\ ApplyProject(ev)
        \/ ev.kind \in {"THESIS_CREATED", "STATE_CHANGED"} /\ ApplyIdea(ev)
        \/ ev.kind \in {"WATCH_CONDITION_SET", "WATCH_CONDITION_BREACHED"} /\ ApplyWatch(ev)
        \/ ev.kind = "UI_EVENT" /\ ApplyUI(ev)

-----------------------------------------------------------------------------
(* append.                                                                 *)

ReadLastHash(p) ==
  /\ todo[p] # <<>>
  /\ prev[p] = Unset
  /\ prev' = [prev EXCEPT ![p] = "LAST"]
  /\ UNCHANGED <<todo, intact, projection, died>>

\* Of the hashes read before, none is the last line's any more.
PassedBy(h) == IF h = "LAST" THEN "EARLIER" ELSE h

NextEvent(p) == Head(Head(todo[p]))

AfterNext(steps) ==
  IF Len(Head(steps)) = 1 THEN Tail(steps) ELSE <<Tail(Head(steps))>> \o Tail(steps)

WriteLine(p) ==
  /\ prev[p] # Unset
  /\ intact' = (intact /\ prev[p] = "LAST")
  /\ Apply(NextEvent(p))
  /\ todo' = [todo EXCEPT ![p] = AfterNext(@)]
  /\ prev' = [q \in Processes |-> IF q = p THEN Unset ELSE PassedBy(prev[q])]
  /\ UNCHANGED died

Dies(p) ==
  /\ todo[p] # <<>>
  /\ todo' = [todo EXCEPT ![p] = <<>>]
  /\ prev' = [prev EXCEPT ![p] = Unset]
  /\ died' = TRUE
  /\ UNCHANGED <<intact, projection>>

-----------------------------------------------------------------------------
(* The operations: each decides, on what it reads now, what it appends.    *)

Begins(p, steps) ==
  /\ todo[p] = <<>>
  /\ steps # <<>>
  /\ todo' = [todo EXCEPT ![p] = steps]
  /\ UNCHANGED <<prev, intact, projection, died>>

Appends(p, events) == Begins(p, <<events>>)

\* The ids that the agent gives to theses and conditions are new ones.
Issued(t, v) ==
  \E q \in Processes : \E k \in DOMAIN todo[q] : \E j \in DOMAIN todo[q][k] :
    todo[q][k][j].subject = t /\ todo[q][k][j].value = v

Unused(t) == t # SeedThesis /\ thesis[t] = Unset /\ ~Issued(t, "NASCENT")

UnusedCondition(c) ==
  c # SeedCondition /\ \A t \in Theses : ~Issued(t, c) /\ \A k \in DOMAIN watch[t] : watch[t][k].id # c

\* The seed: open_session raises, and the start with it, when the project
\* cannot be projected.
Seeded(readable) ==
  IF readable
  THEN <<ProjectCreated(Home[SeedThesis]), ThesisCreated(SeedThesis),
         IdeaMoved(SeedThesis, "RESEARCHING"), IdeaMoved(SeedThesis, "EVIDENCED"),
         WatchSet(SeedThesis, SeedCondition)>>
  ELSE <<ProjectCreated(Home[SeedThesis])>>

\* The bridge seeds the file it finds.
HostStarts(p) == Appends(p, Seeded(Home[SeedThesis] \notin unreadable))

Empty ==
  /\ unreadable = {}
  /\ \A pr \in Projects : project[pr] = Unset /\ \A e \in UIEvents : recorded[pr][e] = 0

\* The console deletes the file first, whoever else has it open.
ConsoleStarts(p) ==
  /\ todo[p] = <<>>
  /\ todo' = [todo EXCEPT ![p] = <<Seeded(TRUE)>>]
  /\ prev' = [q \in Processes |-> IF Empty THEN prev[q] ELSE PassedBy(prev[q])]
  /\ intact' = TRUE
  /\ unreadable' = {}
  /\ project' = [pr \in Projects |-> Unset]
  /\ thesis' = [t \in Theses |-> Unset]
  /\ watch' = [t \in Theses |-> <<>>]
  /\ recorded' = [pr \in Projects |-> [e \in UIEvents |-> 0]]
  /\ UNCHANGED died

\* With an id of the caller's choice, perhaps that of an existing project.
CreateProject(p, pr) == Appends(p, <<ProjectCreated(pr)>>)

\* Appends before it looks whether the project may move there.
SetProjectState(p, pr, s) == Appends(p, <<ProjectMoved(pr, s)>>)

\* The agent's open_thesis; evidence changes nothing that is modelled.
OpenThesis(p, t, c) ==
  /\ Unused(t) /\ UnusedCondition(c)
  /\ OnBreach[c] = "DEMOTE"
  /\ Appends(p, <<ThesisCreated(t), IdeaMoved(t, "RESEARCHING"),
                  IdeaMoved(t, "EVIDENCED"), WatchSet(t, c)>>)

\* Here and below the thesis may be one that does not exist.
SetWatchCondition(p, t, c) ==
  /\ UnusedCondition(c)
  /\ Appends(p, <<WatchSet(t, c)>>)

\* The executor of an approved promotion.
PromoteThesis(p, t) == Appends(p, <<IdeaMoved(t, "CONFIRMED")>>)

Target(c) == IF OnBreach[c] = "INVALIDATE" THEN "INVALIDATED" ELSE "CONTESTED"

\* Mutation: a breach that only alerts is told from the others the wrong way round.
BreachEventsOfAlerts(t, c) ==
  <<WatchBreached(t, c)>>
  \o IF OnBreach[c] = "ALERT" /\ Target(c) \in IdeaMoves(thesis[t])
     THEN <<IdeaMoved(t, Target(c))>> ELSE <<>>

\* Whether the idea may move is judged by its state at the start of the call.
BreachEvents(t, c) ==
  <<WatchBreached(t, c)>>
  \o IF OnBreach[c] # "ALERT" /\ Target(c) \in IdeaMoves(thesis[t])
     THEN <<IdeaMoved(t, Target(c))>> ELSE <<>>

\* The standing conditions of a project's theses, of those that are hit.
Stands(t, c) == \E k \in DOMAIN watch[t] : watch[t][k] = [id |-> c, breached |-> FALSE]

Standing(pr, hit) ==
  {at \in Theses \X hit : Home[at[1]] = pr /\ thesis[at[1]] # Unset /\ Stands(at[1], at[2])}

SetBefore(t, c, d) ==
  \E k, l \in DOMAIN watch[t] : k < l /\ watch[t][k].id = c /\ watch[t][l].id = d

\* Thesis after thesis, and in each as the conditions were set.
InOrder(order) ==
  \A i, j \in DOMAIN order :
    i < j /\ order[i][1] = order[j][1] =>
      /\ SetBefore(order[i][1], order[i][2], order[j][2])
      /\ \A m \in i..j : order[m][1] = order[i][1]

\* hit: the conditions that the metrics given to it make true.
EvaluateWatchConditions(p, pr, hit) ==
  /\ pr \notin unreadable
  /\ \E order \in SetToSeqs(Standing(pr, hit)) :
       /\ InOrder(order)
       /\ Begins(p, [k \in DOMAIN order |-> BreachEvents(order[k][1], order[k][2])])

\* Mutation: a delivery is not looked up.
RecordUIEventAgain(p, pr, e) ==
  /\ pr \notin unreadable
  /\ Appends(p, <<UIRecorded(pr, e)>>)

RecordUIEvent(p, pr, e) ==
  /\ pr \notin unreadable
  /\ recorded[pr][e] = 0
  /\ Appends(p, <<UIRecorded(pr, e)>>)

BeginsOperation(p) ==
  \/ HostStarts(p)
  \/ \E pr \in Projects :
       \/ CreateProject(p, pr)
       \/ \E s \in ProjectStates : SetProjectState(p, pr, s)
       \/ \E hit \in SUBSET Conditions : EvaluateWatchConditions(p, pr, hit)
       \/ \E e \in UIEvents : RecordUIEvent(p, pr, e)
  \/ \E t \in Theses :
       \/ PromoteThesis(p, t)
       \/ \E c \in Conditions : OpenThesis(p, t, c) \/ SetWatchCondition(p, t, c)

WorkbenchNext ==
  \E p \in Processes :
    BeginsOperation(p) \/ ConsoleStarts(p) \/ ReadLastHash(p) \/ WriteLine(p) \/ Dies(p)

WorkbenchSpec == WorkbenchInit /\ [][WorkbenchNext]_workbenchVars

-----------------------------------------------------------------------------
(* Properties.                                                             *)

Alone == \E p \in Processes : Processes = {p}

(* "One global append-only chain holds every event across every project,   *)
(* so audit history is a single tamper-evident sequence" (store.py:6): the *)
(* chain verifies.  The code lets two processes chain to the same line.    *)
OneChain == intact

(* "Idempotent on event_id: a retried delivery from a remote host must not *)
(* append a second revision" (store.py:293), when one process takes them.  *)
RecordedOnce == Alone => \A pr \in Projects, e \in UIEvents : recorded[pr][e] <= 1

(* "Breaches demote ideas deterministically" (store.py:372): between the   *)
(* operations of one process that never died in the middle of one, no idea *)
(* stands as if the breached conditions it has had not been - whichever    *)
(* were breached together, and whatever happened to it since.  A start     *)
(* that creates the seeded thesis anew leaves it no breached condition.    *)
Demoted == {"CONTESTED", "INVALIDATED", "ARCHIVED"}

DemotedFor(s, c) ==
  CASE OnBreach[c] = "DEMOTE"     -> s \in Demoted
    [] OnBreach[c] = "INVALIDATE" -> s \in Demoted \ {"CONTESTED"}
    [] OTHER                      -> TRUE

BreachesDemote ==
  Alone /\ ~died /\ (\A p \in Processes : todo[p] = <<>>) =>
    \A t \in Theses : \A k \in DOMAIN watch[t] :
      Home[t] \notin unreadable /\ watch[t][k].breached => DemotedFor(thesis[t], watch[t][k].id)

(* The same sentence, of the log: a demotion that one process appends can  *)
(* be replayed.  Every projection of the project raises otherwise, from    *)
(* then on, and "reconstructible at any timestamp" (schemas.py:10) is lost.*)
DemotionsReplay ==
  [][Alone => \A p \in Processes, t \in Theses, s \in {"CONTESTED", "INVALIDATED"} :
       todo[p] # <<>> /\ NextEvent(p) = IdeaMoved(t, s) => unreadable' = unreadable]_workbenchVars
=============================================================================
