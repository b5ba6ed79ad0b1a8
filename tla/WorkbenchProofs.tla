--------------------------- MODULE WorkbenchProofs ---------------------------
(* Machine-checked proofs about Workbench, for any processes, projects,    *)
(* theses and conditions.                                                  *)
EXTENDS Workbench, FiniteSetTheorems, SequenceTheorems, TLAPS

(* Events, and what one append leaves to do.                               *)

Kinds == {"PROJECT_CREATED", "PROJECT_STATE_CHANGED", "THESIS_CREATED", "STATE_CHANGED",
          "WATCH_CONDITION_SET", "WATCH_CONDITION_BREACHED", "UI_EVENT"}

Events == [kind : Kinds, project : Projects, subject : Projects \union Theses,
           value : ProjectStates \union IdeaStates \union Conditions \union UIEvents]

Steps == Seq(Events)

Entries == [id : Conditions, breached : BOOLEAN]

LEMMA EventsTyped ==
  /\ \A pr \in Projects :
       /\ ProjectCreated(pr) \in Events
       /\ \A s \in ProjectStates : ProjectMoved(pr, s) \in Events
       /\ \A e \in UIEvents : UIRecorded(pr, e) \in Events
  /\ \A t \in Theses :
       /\ ThesisCreated(t) \in Events
       /\ \A s \in IdeaStates : IdeaMoved(t, s) \in Events
       /\ \A c \in Conditions : WatchSet(t, c) \in Events /\ WatchBreached(t, c) \in Events
BY HomeAssumption DEF Events, Kinds, EventOf, ProjectCreated, ProjectMoved, UIRecorded,
   ThesisCreated, IdeaMoved, WatchSet, WatchBreached, ProjectStates, IdeaStates

\* What remains when the step under way had one event, or more of them.
LEMMA AfterLastEvent ==
  ASSUME NEW steps \in Seq(Steps), steps # <<>>, Len(steps[1]) = 1
  PROVE  /\ AfterNext(steps) \in Seq(Steps)
         /\ Len(AfterNext(steps)) = Len(steps) - 1
         /\ \A k \in DOMAIN AfterNext(steps) :
              k + 1 \in DOMAIN steps /\ AfterNext(steps)[k] = steps[k + 1]
BY DEF AfterNext

LEMMA AfterFirstEvent ==
  ASSUME NEW steps \in Seq(Steps), steps # <<>>, steps[1] # <<>>, Len(steps[1]) # 1
  PROVE  /\ AfterNext(steps) \in Seq(Steps)
         /\ Len(AfterNext(steps)) = Len(steps)
         /\ AfterNext(steps)[1] = Tail(steps[1])
         /\ \A k \in DOMAIN AfterNext(steps) :
              k \in DOMAIN steps /\ (k # 1 => AfterNext(steps)[k] = steps[k])
<1>1. steps[1] \in Steps /\ Tail(steps[1]) \in Steps /\ Head(steps) = steps[1]
  BY DEF Steps
<1>2. Tail(steps) \in Seq(Steps) /\ Len(Tail(steps)) = Len(steps) - 1
  OBVIOUS
<1>3. \A k \in 1..Len(Tail(steps)) : Tail(steps)[k] = steps[k + 1]
  OBVIOUS
<1>4. AfterNext(steps) = <<Tail(steps[1])>> \o Tail(steps)
  BY <1>1 DEF AfterNext
<1>5. <<Tail(steps[1])>> \in Seq(Steps) /\ Len(<<Tail(steps[1])>>) = 1
  BY <1>1
<1> QED
  BY <1>1, <1>2, <1>3, <1>4, <1>5

\* Replacing a condition keeps the marks of the others.
LEMMA WithoutKeeps ==
  ASSUME NEW conditions \in Seq(Entries), NEW c
  PROVE  /\ Without(conditions, c) \in Seq(Entries)
         /\ \A k \in DOMAIN Without(conditions, c) : \E j \in DOMAIN conditions :
              Without(conditions, c)[k] = conditions[j]
<1> DEFINE same == {k \in DOMAIN conditions : conditions[k].id = c}
           i == CHOOSE k \in same : TRUE
<1>1. CASE same = {}
  BY <1>1 DEF Without
<1>2. CASE same # {}
  <2>1. i \in 1..Len(conditions)
    BY <1>2
  <2>2. Without(conditions, c) = RemoveAt(conditions, i)
    BY <1>2 DEF Without
  <2> HIDE DEF i
  <2> DEFINE before == SubSeq(conditions, 1, i - 1)
             after  == SubSeq(conditions, i + 1, Len(conditions))
  <2>3. /\ before \in Seq(Entries) /\ Len(before) = i - 1
        /\ \A k \in 1..Len(before) : before[k] = conditions[k]
    BY <2>1
  <2>4. /\ after \in Seq(Entries) /\ Len(after) = Len(conditions) - i
        /\ \A k \in 1..Len(after) : after[k] = conditions[k + i]
    BY <2>1
  <2>5. Without(conditions, c) = before \o after
    BY <2>2 DEF RemoveAt
  <2> HIDE DEF before, after
  <2>6. Without(conditions, c) \in Seq(Entries)
    BY <2>3, <2>4, <2>5
  <2>7. ASSUME NEW k \in DOMAIN Without(conditions, c)
        PROVE  \E j \in DOMAIN conditions : Without(conditions, c)[k] = conditions[j]
    <3>1. k \in 1..(Len(before) + Len(after))
      BY <2>3, <2>4, <2>5, <2>7
    <3>2. CASE k <= Len(before)
      BY <2>1, <2>3, <2>4, <2>5, <3>1, <3>2
    <3>3. CASE k > Len(before)
      <4>1. k - Len(before) \in 1..Len(after)
        BY <2>3, <2>4, <3>1, <3>3
      <4>2. Without(conditions, c)[k] = after[k - Len(before)]
        BY <2>3, <2>4, <2>5, <3>1, <3>3
      <4>3. after[k - Len(before)] = conditions[k - Len(before) + i]
        BY <2>4, <4>1
      <4>4. k - Len(before) + i \in 1..Len(conditions)
        BY <2>1, <2>3, <2>4, <4>1
      <4> QED
        BY <4>2, <4>3, <4>4
    <3> QED
      BY <2>3, <3>1, <3>2, <3>3
  <2> QED
    BY <2>6, <2>7
<1> QED
  BY <1>1, <1>2

-----------------------------------------------------------------------------
(* What each event makes of the projection.                                *)

ProjectionTyped ==
  /\ unreadable \subseteq Projects
  /\ thesis \in [Theses -> IdeaStates \union {Unset}]
  /\ watch \in [Theses -> Seq(Entries)]
  /\ recorded \in [Projects -> [UIEvents -> Nat]]

\* At most this project can no longer be replayed.
Raised(pr) == unreadable' = unreadable \/ unreadable' = unreadable \union {pr}

LEMMA ProjectApplied ==
  ASSUME NEW pr \in Projects, NEW s \in ProjectStates, NEW ev, Apply(ev),
         ev = ProjectCreated(pr) \/ ev = ProjectMoved(pr, s)
  PROVE  UNCHANGED <<thesis, watch, recorded>> /\ Raised(pr)
<1>1. ev.kind \in {"PROJECT_CREATED", "PROJECT_STATE_CHANGED"} /\ ev.project = pr
  BY DEF ProjectCreated, ProjectMoved, EventOf
<1>2. UNCHANGED projection \/ ApplyProject(ev)
  BY <1>1 DEF Apply
<1> QED
  BY <1>1, <1>2 DEF ApplyProject, Raises, Raised, projection

LEMMA UIApplied ==
  ASSUME NEW pr \in Projects, NEW e \in UIEvents, Apply(UIRecorded(pr, e))
  PROVE  /\ UNCHANGED <<thesis, watch, unreadable>>
         /\ recorded' = recorded \/ recorded' = [recorded EXCEPT ![pr][e] = @ + 1]
<1> DEFINE ev == UIRecorded(pr, e)
<1>1. ev.kind = "UI_EVENT" /\ ev.project = pr /\ ev.value = e
  BY DEF UIRecorded, EventOf
<1>2. UNCHANGED projection \/ ApplyUI(ev)
  BY <1>1 DEF Apply
<1> QED
  BY <1>1, <1>2 DEF ApplyUI, projection

LEMMA CreatedApplied ==
  ASSUME NEW t \in Theses, Apply(ThesisCreated(t))
  PROVE  /\ UNCHANGED <<recorded, unreadable>>
         /\ \/ /\ thesis' = [thesis EXCEPT ![t] = "NASCENT"]
               /\ watch' = [watch EXCEPT ![t] = <<>>]
            \/ UNCHANGED <<thesis, watch>> /\ Home[t] \in unreadable'
<1> DEFINE ev == ThesisCreated(t)
<1>1. ev.kind = "THESIS_CREATED" /\ ev.project = Home[t] /\ ev.subject = t /\ ev.value = "NASCENT"
  BY DEF ThesisCreated, EventOf
<1>2. (UNCHANGED projection /\ Home[t] \in unreadable) \/ ApplyIdea(ev)
  BY <1>1 DEF Apply
<1> QED
  BY <1>1, <1>2 DEF ApplyIdea, projection

LEMMA MoveApplied ==
  ASSUME NEW t \in Theses, NEW s \in IdeaStates, Apply(IdeaMoved(t, s))
  PROVE  /\ UNCHANGED <<watch, recorded>>
         /\ Raised(Home[t])
         /\ \/ s \in IdeaMoves(thesis[t]) /\ thesis' = [thesis EXCEPT ![t] = s]
            \/ thesis' = thesis /\ Home[t] \in unreadable'
<1> DEFINE ev == IdeaMoved(t, s)
<1>1. ev.kind = "STATE_CHANGED" /\ ev.project = Home[t] /\ ev.subject = t /\ ev.value = s
  BY DEF IdeaMoved, EventOf
<1>2. (UNCHANGED projection /\ Home[t] \in unreadable) \/ ApplyIdea(ev)
  BY <1>1 DEF Apply
<1> QED
  BY <1>1, <1>2 DEF ApplyIdea, Raises, Raised, projection

LEMMA WatchSetApplied ==
  ASSUME NEW t \in Theses, NEW c \in Conditions, Apply(WatchSet(t, c))
  PROVE  /\ UNCHANGED <<thesis, recorded>>
         /\ Raised(Home[t])
         /\ \/ /\ thesis[t] # Unset
               /\ watch' = [watch EXCEPT ![t] = Append(Without(watch[t], c), [id |-> c, breached |-> FALSE])]
            \/ watch' = watch /\ Home[t] \in unreadable'
<1> DEFINE ev == WatchSet(t, c)
<1>1. ev.kind = "WATCH_CONDITION_SET" /\ ev.project = Home[t] /\ ev.subject = t /\ ev.value = c
  BY DEF WatchSet, EventOf
<1>2. (UNCHANGED projection /\ Home[t] \in unreadable) \/ ApplyWatch(ev)
  BY <1>1 DEF Apply
<1> QED
  BY <1>1, <1>2 DEF ApplyWatch, Raises, Raised, projection

LEMMA BreachApplied ==
  ASSUME NEW t \in Theses, NEW c \in Conditions, Apply(WatchBreached(t, c))
  PROVE  /\ UNCHANGED <<thesis, recorded>>
         /\ Raised(Home[t])
         /\ \/ /\ thesis[t] # Unset
               /\ watch' = [watch EXCEPT ![t] = [k \in DOMAIN watch[t] |->
                              IF watch[t][k].id = c THEN [id |-> c, breached |-> TRUE] ELSE watch[t][k]]]
            \/ watch' = watch /\ Home[t] \in unreadable'
<1> DEFINE ev == WatchBreached(t, c)
<1>1. ev.kind = "WATCH_CONDITION_BREACHED" /\ ev.project = Home[t] /\ ev.subject = t /\ ev.value = c
  BY DEF WatchBreached, EventOf
<1>2. (UNCHANGED projection /\ Home[t] \in unreadable) \/ ApplyWatch(ev)
  BY <1>1 DEF Apply
<1> QED
  BY <1>1, <1>2 DEF ApplyWatch, Raises, Raised, projection

-----------------------------------------------------------------------------
(* What one process that never dies owes an idea.                          *)

\* The idea c is a standing condition of has been marked as breached by it.
Marked(t, c) == \E k \in DOMAIN watch[t] : watch[t][k].breached /\ watch[t][k].id = c

Unmarked(t) == \A c \in Conditions : ~Marked(t, c)

Excused(t) == died \/ Home[t] \in unreadable

\* Nothing is left to do for the idea.
Settled(t) ==
  \/ Excused(t)
  \/ /\ thesis[t] # "NASCENT"
     /\ thesis[t] = Unset => Unmarked(t)
     /\ \A c \in Conditions : Marked(t, c) => DemotedFor(thesis[t], c)

Promised(t, c) ==
  /\ OnBreach[c] # "ALERT" /\ thesis[t] \notin {Unset, "NASCENT"}
  /\ \A d \in Conditions : Marked(t, d) => DemotedFor(thesis[t], d) \/ Target(d) = Target(c)

\* Nothing is left to do for it but what this step does next.
Owed(t, step) ==
  \/ Settled(t)
  \/ thesis[t] = "NASCENT" /\ Unmarked(t) /\ step[1] = IdeaMoved(t, "RESEARCHING")
  \/ \E c \in Conditions : Promised(t, c) /\ step = <<IdeaMoved(t, Target(c))>>

\* The steps an operation may still have to take.
SingleStep(step) ==
  \/ \E pr \in Projects :
       \/ step = <<ProjectCreated(pr)>>
       \/ \E s \in ProjectStates : step = <<ProjectMoved(pr, s)>>
       \/ \E e \in UIEvents : step = <<UIRecorded(pr, e)>> /\ recorded[pr][e] = 0
  \/ \E t \in Theses :
       \/ step = <<IdeaMoved(t, "CONFIRMED")>>
       \/ \E c \in Conditions : step = <<WatchSet(t, c)>>

\* A thesis is opened: it is created anew, perhaps in place of another.
CreatingOf(step, t) ==
  \E c \in Conditions :
    step = <<ThesisCreated(t), IdeaMoved(t, "RESEARCHING"), IdeaMoved(t, "EVIDENCED"), WatchSet(t, c)>>

SeedingOf(step, t) ==
  \E c \in Conditions :
    step = <<ProjectCreated(Home[t]), ThesisCreated(t), IdeaMoved(t, "RESEARCHING"),
             IdeaMoved(t, "EVIDENCED"), WatchSet(t, c)>>

OpeningOf(step, t) ==
  \/ SeedingOf(step, t)
  \/ CreatingOf(step, t)
  \/ /\ Excused(t) \/ thesis[t] = "NASCENT"
     /\ \E c \in Conditions :
          step = <<IdeaMoved(t, "RESEARCHING"), IdeaMoved(t, "EVIDENCED"), WatchSet(t, c)>>
  \/ /\ Excused(t) \/ (thesis[t] = "RESEARCHING" /\ Unmarked(t))
     /\ \E c \in Conditions : step = <<IdeaMoved(t, "EVIDENCED"), WatchSet(t, c)>>

BreachOf(step, t, c) ==
  \/ step = <<WatchBreached(t, c)>> /\ (Excused(t) \/ DemotedFor(thesis[t], c))
  \/ OnBreach[c] # "ALERT" /\ step = <<WatchBreached(t, c), IdeaMoved(t, Target(c))>>
  \/ OnBreach[c] # "ALERT" /\ step = <<IdeaMoved(t, Target(c))>>

OpeningStep(step) == \E t \in Theses : OpeningOf(step, t)

BreachStep(step) == \E t \in Theses, c \in Conditions : BreachOf(step, t, c)

AllSettled == \A t \in Theses : Settled(t)

AllOwed(step) == \A t \in Theses : Owed(t, step)

Work(steps) ==
  \/ steps = <<>> /\ AllSettled
  \/ Len(steps) = 1 /\ SingleStep(steps[1]) /\ AllSettled
  \/ Len(steps) = 1 /\ OpeningStep(steps[1]) /\ AllOwed(steps[1])
  \/ steps # <<>> /\ (\A k \in DOMAIN steps : BreachStep(steps[k])) /\ AllOwed(steps[1])

Once == \A pr \in Projects, e \in UIEvents : recorded[pr][e] <= 1

WorkInv ==
  \A p \in Processes : Processes = {p} =>
    /\ ProjectionTyped
    /\ todo \in [Processes -> Seq(Steps)]
    /\ prev \in [Processes -> {Unset, "LAST", "EARLIER"}]
    /\ prev[p] # Unset => todo[p] # <<>>
    /\ Work(todo[p])
    /\ Once

\* Demotions are not undone by what a process does to a demoted idea.
LEMMA DemotionStays ==
  ASSUME NEW s, NEW c \in Conditions, DemotedFor(s, c),
         NEW s2 \in IdeaMoves(s) \intersect {"CONFIRMED", "CONTESTED", "INVALIDATED"}
  PROVE  DemotedFor(s2, c)
BY DEF DemotedFor, Demoted, IdeaMoves

LEMMA TargetDemotes ==
  ASSUME NEW c \in Conditions, NEW d \in Conditions, OnBreach[c] # "ALERT", Target(d) = Target(c)
  PROVE  DemotedFor(Target(c), d) /\ Target(c) \in IdeaStates \intersect {"CONTESTED", "INVALIDATED"}
BY OnBreachAssumption DEF DemotedFor, Demoted, Target, IdeaStates

LEMMA SetMarksNothing ==
  ASSUME ProjectionTyped, NEW t \in Theses, NEW c \in Conditions,
         watch' = [watch EXCEPT ![t] = Append(Without(watch[t], c), [id |-> c, breached |-> FALSE])]
  PROVE  \A d \in Conditions : Marked(t, d)' => Marked(t, d)
<1>1. watch[t] \in Seq(Entries)
  BY DEF ProjectionTyped
<1> DEFINE rest == Without(watch[t], c)
<1>2. rest \in Seq(Entries)
  BY <1>1, WithoutKeeps
<1>3. watch'[t] = Append(rest, [id |-> c, breached |-> FALSE])
  BY DEF ProjectionTyped
<1> SUFFICES ASSUME NEW d \in Conditions, NEW k \in DOMAIN watch'[t],
                    watch'[t][k].breached, watch'[t][k].id = d
             PROVE  Marked(t, d)
  BY DEF Marked
<1>4. k \in 1..Len(rest)
  <2>1. k \in 1..(Len(rest) + 1)
    BY <1>2, <1>3
  <2>2. k # Len(rest) + 1
    <3> SUFFICES ASSUME k = Len(rest) + 1 PROVE FALSE
      OBVIOUS
    <3>1. watch'[t][k] = [id |-> c, breached |-> FALSE]
      BY <1>2, <1>3
    <3> QED
      BY <3>1
  <2> QED
    BY <1>2, <2>1, <2>2
<1>5. watch'[t][k] = rest[k]
  BY <1>2, <1>3, <1>4
<1>6. PICK j \in DOMAIN watch[t] : rest[k] = watch[t][j]
  BY <1>1, <1>2, <1>4, WithoutKeeps
<1> QED
  BY <1>5, <1>6 DEF Marked

LEMMA BreachMarksOne ==
  ASSUME ProjectionTyped, NEW t \in Theses, NEW c \in Conditions,
         watch' = [watch EXCEPT ![t] = [k \in DOMAIN watch[t] |->
                     IF watch[t][k].id = c THEN [id |-> c, breached |-> TRUE] ELSE watch[t][k]]]
  PROVE  /\ \A d \in Conditions : Marked(t, d)' => Marked(t, d) \/ d = c
         /\ watch'[t] \in Seq(Entries)
<1>1. watch[t] \in Seq(Entries)
  BY DEF ProjectionTyped
<1>2. watch'[t] = [k \in DOMAIN watch[t] |->
                     IF watch[t][k].id = c THEN [id |-> c, breached |-> TRUE] ELSE watch[t][k]]
  BY DEF ProjectionTyped
<1>3. watch'[t] \in Seq(Entries)
  <2>1. DOMAIN watch[t] = 1..Len(watch[t]) /\ Len(watch[t]) \in Nat
    BY <1>1
  <2>2. \A k \in 1..Len(watch[t]) : watch[t][k] \in Entries
    BY <1>1
  <2>3. [id |-> c, breached |-> TRUE] \in Entries
    BY DEF Entries
  <2>4. watch'[t] \in [1..Len(watch[t]) -> Entries]
    BY <1>2, <2>1, <2>2, <2>3
  <2> QED
    BY <2>1, <2>4, SeqDef
<1> QED
  BY <1>2, <1>3 DEF Marked

\* What is not touched stays settled.
LEMMA SettledStays ==
  ASSUME NEW t \in Theses, Settled(t), Excused(t) => Excused(t)',
         UNCHANGED <<thesis[t], watch[t]>>
  PROVE  Settled(t)'
BY DEF Settled, Unmarked, Marked, Excused

\* Only an idea that the next event is about, and moves, is owed something.
LEMMA OwedToSubject ==
  ASSUME NEW t \in Theses, NEW step, Owed(t, step),
         step[1].subject # t \/ step[1].kind # "STATE_CHANGED"
  PROVE  Settled(t)
BY DEF Owed, IdeaMoved, EventOf

LEMMA ExcusedStays ==
  ASSUME NEW pr, Raised(pr), died' = died
  PROVE  \A t \in Theses : Excused(t) => Excused(t)'
BY DEF Excused, Raised

\* The types of what most events leave alone.
LEMMA TypedStays ==
  ASSUME ProjectionTyped, NEW pr \in Projects, Raised(pr), recorded' = recorded,
         thesis' \in [Theses -> IdeaStates \union {Unset}], watch' \in [Theses -> Seq(Entries)]
  PROVE  ProjectionTyped'
BY DEF ProjectionTyped, Raised

\* An event of one idea leaves the others as they are.
LEMMA OthersSettled ==
  ASSUME ProjectionTyped, died' = died, NEW t \in Theses,
         Raised(Home[t]),
         \A t2 \in Theses \ {t} : Settled(t2) /\ UNCHANGED <<thesis[t2], watch[t2]>>
  PROVE  \A t2 \in Theses \ {t} : Settled(t2)'
<1> TAKE t2 \in Theses \ {t}
<1>1. Excused(t2) => Excused(t2)'
  BY ExcusedStays
<1> QED
  BY <1>1, SettledStays

LEMMA SingleApplied ==
  ASSUME ProjectionTyped, Once, AllSettled, died' = died,
         NEW step, SingleStep(step), Apply(step[1])
  PROVE  Len(step) = 1 /\ ProjectionTyped' /\ Once' /\ AllSettled'
<1>1. ASSUME UNCHANGED <<thesis, watch>>,
             NEW pr, Raised(pr)
      PROVE  AllSettled'
  <2> SUFFICES ASSUME NEW t \in Theses PROVE Settled(t)'
    BY DEF AllSettled
  <2>1. Settled(t) /\ (Excused(t) => Excused(t)')
    BY <1>1, ExcusedStays DEF AllSettled
  <2> QED
    BY <1>1, <2>1, SettledStays
<1>2. ASSUME NEW pr \in Projects, NEW s \in ProjectStates,
             step = <<ProjectCreated(pr)>> \/ step = <<ProjectMoved(pr, s)>>
      PROVE  Len(step) = 1 /\ ProjectionTyped' /\ Once' /\ AllSettled'
  <2>1. UNCHANGED <<thesis, watch, recorded>> /\ Raised(pr)
    BY <1>2, ProjectApplied
  <2>2. AllSettled'
    BY <1>1, <2>1
  <2>3. ProjectionTyped'
    BY <2>1, TypedStays DEF ProjectionTyped
  <2> QED
    BY <1>2, <2>1, <2>2, <2>3 DEF Once
<1>3. ASSUME NEW pr \in Projects, NEW e \in UIEvents, step = <<UIRecorded(pr, e)>>, recorded[pr][e] = 0
      PROVE  Len(step) = 1 /\ ProjectionTyped' /\ Once' /\ AllSettled'
  <2>1. /\ UNCHANGED <<thesis, watch, unreadable>>
        /\ recorded' = recorded \/ recorded' = [recorded EXCEPT ![pr][e] = @ + 1]
    BY <1>3, UIApplied
  <2>2. AllSettled'
    BY <1>1, <2>1 DEF Raised
  <2>3. recorded' \in [Projects -> [UIEvents -> Nat]] /\ Once'
    <3>1. CASE recorded' = recorded
      BY <3>1 DEF ProjectionTyped, Once
    <3>2. CASE recorded' = [recorded EXCEPT ![pr][e] = @ + 1]
      <4>1. recorded' = [recorded EXCEPT ![pr] = [recorded[pr] EXCEPT ![e] = 1]]
        BY <1>3, <3>2
      <4>2. [recorded[pr] EXCEPT ![e] = 1] \in [UIEvents -> Nat]
        BY DEF ProjectionTyped
      <4>3. recorded' \in [Projects -> [UIEvents -> Nat]]
        BY <4>1, <4>2 DEF ProjectionTyped
      <4>4. ASSUME NEW pr2 \in Projects, NEW e2 \in UIEvents PROVE recorded'[pr2][e2] <= 1
        <5>1. recorded[pr2][e2] <= 1 /\ recorded[pr] \in [UIEvents -> Nat]
          BY DEF Once, ProjectionTyped
        <5>2. recorded'[pr2] = IF pr2 = pr THEN [recorded[pr] EXCEPT ![e] = 1] ELSE recorded[pr2]
          BY <4>1 DEF ProjectionTyped
        <5>3. CASE pr2 = pr
          BY <5>1, <5>2, <5>3
        <5>4. CASE pr2 # pr
          BY <5>1, <5>2, <5>4
        <5> QED
          BY <5>3, <5>4
      <4> QED
        BY <4>3, <4>4 DEF Once
    <3> QED
      BY <2>1, <3>1, <3>2
  <2> QED
    BY <1>3, <2>1, <2>2, <2>3 DEF ProjectionTyped
<1>4. ASSUME NEW t \in Theses, step = <<IdeaMoved(t, "CONFIRMED")>>
      PROVE  Len(step) = 1 /\ ProjectionTyped' /\ Once' /\ AllSettled'
  <2>1. "CONFIRMED" \in IdeaStates
    BY DEF IdeaStates
  <2>2. /\ UNCHANGED <<watch, recorded>>
        /\ Raised(Home[t])
        /\ \/ "CONFIRMED" \in IdeaMoves(thesis[t]) /\ thesis' = [thesis EXCEPT ![t] = "CONFIRMED"]
           \/ thesis' = thesis /\ Home[t] \in unreadable'
    BY <1>4, <2>1, MoveApplied
  <2>3. Settled(t) /\ (Excused(t) => Excused(t)')
    BY <2>2, ExcusedStays DEF AllSettled
  <2>4. ASSUME thesis' = thesis
        PROVE  AllSettled'
    BY <1>1, <2>2, <2>4
  <2>5. ASSUME "CONFIRMED" \in IdeaMoves(thesis[t]), thesis' = [thesis EXCEPT ![t] = "CONFIRMED"]
        PROVE  AllSettled'
    <3>1. thesis'[t] = "CONFIRMED"
      BY <2>5 DEF ProjectionTyped
    <3>2. \A c \in Conditions : DemotedFor(thesis[t], c) => DemotedFor("CONFIRMED", c)
      BY <2>5, DemotionStays
    <3>3. Settled(t)'
      BY <2>2, <2>3, <3>1, <3>2 DEF Settled, Marked, Unmarked, Unset, DemotedFor
    <3>4. \A t2 \in Theses \ {t} : Settled(t2)'
      BY <2>2, <2>5, OthersSettled DEF AllSettled, ProjectionTyped
    <3> QED
      BY <3>3, <3>4 DEF AllSettled
  <2>6. ProjectionTyped'
    <3>1. thesis' \in [Theses -> IdeaStates \union {Unset}]
      BY <2>1, <2>2 DEF ProjectionTyped
    <3> QED
      BY <2>2, <3>1, HomeAssumption, TypedStays DEF ProjectionTyped
  <2> QED
    BY <1>4, <2>2, <2>4, <2>5, <2>6 DEF Once
<1>5. ASSUME NEW t \in Theses, NEW c \in Conditions, step = <<WatchSet(t, c)>>
      PROVE  Len(step) = 1 /\ ProjectionTyped' /\ Once' /\ AllSettled'
  <2>1. /\ UNCHANGED <<thesis, recorded>>
        /\ Raised(Home[t])
        /\ \/ /\ thesis[t] # Unset
              /\ watch' = [watch EXCEPT ![t] = Append(Without(watch[t], c), [id |-> c, breached |-> FALSE])]
           \/ watch' = watch /\ Home[t] \in unreadable'
    BY <1>5, WatchSetApplied
  <2>2. ASSUME watch' = watch
        PROVE  AllSettled' /\ ProjectionTyped'
    <3>1. AllSettled'
      BY <1>1, <2>1, <2>2
    <3> QED
      BY <2>1, <2>2, <3>1, HomeAssumption, TypedStays DEF ProjectionTyped
  <2>3. ASSUME watch' = [watch EXCEPT ![t] = Append(Without(watch[t], c), [id |-> c, breached |-> FALSE])]
        PROVE  AllSettled' /\ ProjectionTyped'
    <3>1. \A d \in Conditions : Marked(t, d)' => Marked(t, d)
      BY <2>3, SetMarksNothing
    <3>2. Settled(t)'
      <4>1. Settled(t) /\ (Excused(t) => Excused(t)')
        BY <2>1, ExcusedStays DEF AllSettled
      <4> QED
        BY <2>1, <3>1, <4>1 DEF Settled, Unmarked
    <3>3. \A t2 \in Theses \ {t} : Settled(t2)'
      BY <2>1, <2>3, OthersSettled DEF AllSettled, ProjectionTyped
    <3>4. Append(Without(watch[t], c), [id |-> c, breached |-> FALSE]) \in Seq(Entries)
      <4>1. watch[t] \in Seq(Entries) /\ [id |-> c, breached |-> FALSE] \in Entries
        BY DEF ProjectionTyped, Entries
      <4> QED
        BY <4>1, WithoutKeeps
    <3>5. ProjectionTyped'
      <4>1. watch' \in [Theses -> Seq(Entries)]
        BY <2>3, <3>4 DEF ProjectionTyped
      <4> QED
        BY <2>1, <4>1, HomeAssumption, TypedStays DEF ProjectionTyped
    <3> QED
      BY <3>2, <3>3, <3>5 DEF AllSettled
  <2> QED
    BY <1>5, <2>1, <2>2, <2>3 DEF Once
<1> QED
  BY <1>2, <1>3, <1>4, <1>5 DEF SingleStep, ProjectStates

\* A move keeps the types, and concerns one idea.
LEMMA MoveConcernsOne ==
  ASSUME ProjectionTyped, Once, died' = died, NEW t \in Theses, NEW s \in IdeaStates,
         Apply(IdeaMoved(t, s)), \A t2 \in Theses \ {t} : Settled(t2)
  PROVE  /\ ProjectionTyped' /\ Once'
         /\ \A t2 \in Theses \ {t} : Settled(t2)'
         /\ Excused(t) => Excused(t)'
<1>1. /\ UNCHANGED <<watch, recorded>>
      /\ Raised(Home[t])
      /\ \/ thesis' = [thesis EXCEPT ![t] = s]
         \/ thesis' = thesis
  BY MoveApplied
<1>2. thesis' \in [Theses -> IdeaStates \union {Unset}]
  BY <1>1 DEF ProjectionTyped
<1>3. ProjectionTyped'
  BY <1>1, <1>2, HomeAssumption, TypedStays DEF ProjectionTyped
<1>4. \A t2 \in Theses \ {t} : thesis'[t2] = thesis[t2] /\ watch'[t2] = watch[t2]
  BY <1>1 DEF ProjectionTyped
<1>5. \A t2 \in Theses \ {t} : Settled(t2)'
  BY <1>1, <1>4, OthersSettled
<1> QED
  BY <1>1, <1>3, <1>5, ExcusedStays DEF Once

\* An idea that is being opened: in this state, and nothing has been breached.
Fresh(t, s) == Excused(t) \/ (thesis[t] = s /\ Unmarked(t))

LEMMA FreshSettled ==
  ASSUME NEW t \in Theses, NEW s, s # "NASCENT", Fresh(t, s)
  PROVE  Settled(t)
BY DEF Fresh, Settled, Unmarked

LEMMA MoveKeepsFresh ==
  ASSUME ProjectionTyped, died' = died, NEW t \in Theses, NEW s, NEW s2 \in IdeaStates,
         Fresh(t, s), Apply(IdeaMoved(t, s2))
  PROVE  Fresh(t, s2)'
<1>1. /\ watch' = watch
      /\ Raised(Home[t])
      /\ \/ thesis' = [thesis EXCEPT ![t] = s2]
         \/ Home[t] \in unreadable'
  BY MoveApplied
<1>2. Excused(t) => Excused(t)'
  BY <1>1, ExcusedStays
<1> QED
  BY <1>1, <1>2 DEF Fresh, Unmarked, Marked, Excused, ProjectionTyped

LEMMA Tails ==
  \A a, b, c, d, e :
    /\ Tail(<<a, b>>) = <<b>> /\ Len(<<a, b>>) = 2
    /\ Tail(<<a, b, c>>) = <<b, c>> /\ Len(<<a, b, c>>) = 3
    /\ Tail(<<a, b, c, d>>) = <<b, c, d>> /\ Len(<<a, b, c, d>>) = 4
    /\ Tail(<<a, b, c, d, e>>) = <<b, c, d, e>> /\ Len(<<a, b, c, d, e>>) = 5
<1> TAKE a, b, c, d, e
<1>1. Tail(<<a, b>>) = <<b>> /\ Len(<<a, b>>) = 2
  OBVIOUS
<1>2. Tail(<<a, b, c>>) = <<b, c>> /\ Len(<<a, b, c>>) = 3
  OBVIOUS
<1>3. Tail(<<a, b, c, d>>) = <<b, c, d>> /\ Len(<<a, b, c, d>>) = 4
  OBVIOUS
<1>4. Tail(<<a, b, c, d, e>>) = <<b, c, d, e>> /\ Len(<<a, b, c, d, e>>) = 5
  OBVIOUS
<1> QED
  BY <1>1, <1>2, <1>3, <1>4

\* An event that moves no idea comes when every idea is settled.
LEMMA SettledBefore ==
  ASSUME NEW step, AllOwed(step), step[1].kind # "STATE_CHANGED"
  PROVE  AllSettled
BY OwedToSubject DEF AllOwed, AllSettled

\* One step of opening a thesis, and what is left of it.
Opens(step) ==
  /\ ProjectionTyped' /\ Once'
  /\ \/ Len(step) = 1 /\ AllSettled'
     \/ Len(step) > 1 /\ OpeningStep(Tail(step))' /\ AllOwed(Tail(step))'
     \/ Len(step) > 1 /\ SingleStep(Tail(step))' /\ AllSettled'

LEMMA SeedingApplied ==
  ASSUME ProjectionTyped, Once, died' = died,
         NEW step, NEW t \in Theses, SeedingOf(step, t), AllOwed(step), Apply(step[1])
  PROVE  Opens(step)
<1> PICK c \in Conditions :
      step = <<ProjectCreated(Home[t]), ThesisCreated(t), IdeaMoved(t, "RESEARCHING"),
               IdeaMoved(t, "EVIDENCED"), WatchSet(t, c)>>
  BY DEF SeedingOf
<1> DEFINE pr == Home[t]
<1>1. step[1] = ProjectCreated(pr) /\ pr \in Projects
  BY HomeAssumption
<1>2. AllSettled
  <2>1. step[1].kind # "STATE_CHANGED"
    BY <1>1 DEF ProjectCreated, EventOf
  <2> QED
    BY <2>1, SettledBefore
<1>3. UNCHANGED <<thesis, watch, recorded>> /\ Raised(pr)
  BY <1>1, ProjectApplied DEF ProjectStates
<1>4. AllSettled'
  <2> SUFFICES ASSUME NEW t2 \in Theses PROVE Settled(t2)'
    BY DEF AllSettled
  <2>1. Settled(t2) /\ (Excused(t2) => Excused(t2)')
    BY <1>2, <1>3, ExcusedStays DEF AllSettled
  <2> QED
    BY <1>3, <2>1, SettledStays
<1>5. ProjectionTyped' /\ Once'
  <2>1. ProjectionTyped'
    BY <1>1, <1>3, TypedStays DEF ProjectionTyped
  <2> QED
    BY <1>3, <2>1 DEF Once
<1>6. /\ Len(step) > 1
      /\ Tail(step) = <<ThesisCreated(t), IdeaMoved(t, "RESEARCHING"), IdeaMoved(t, "EVIDENCED"), WatchSet(t, c)>>
  BY Tails
<1>7. OpeningStep(Tail(step))'
  BY <1>6 DEF OpeningStep, OpeningOf, CreatingOf
<1> QED
  BY <1>4, <1>5, <1>6, <1>7 DEF Opens, AllOwed, AllSettled, Owed

LEMMA CreatingApplied ==
  ASSUME ProjectionTyped, Once, died' = died,
         NEW step, NEW t \in Theses, CreatingOf(step, t), AllOwed(step), Apply(step[1])
  PROVE  Opens(step)
<1> PICK c \in Conditions :
      step = <<ThesisCreated(t), IdeaMoved(t, "RESEARCHING"), IdeaMoved(t, "EVIDENCED"), WatchSet(t, c)>>
  BY DEF CreatingOf
<1>1. step[1] = ThesisCreated(t)
  OBVIOUS
<1>2. AllSettled
  <2>1. step[1].kind # "STATE_CHANGED"
    BY <1>1 DEF ThesisCreated, EventOf
  <2> QED
    BY <2>1, SettledBefore
<1>3. /\ UNCHANGED <<recorded, unreadable>>
      /\ \/ /\ thesis' = [thesis EXCEPT ![t] = "NASCENT"]
            /\ watch' = [watch EXCEPT ![t] = <<>>]
         \/ UNCHANGED <<thesis, watch>> /\ Home[t] \in unreadable'
  BY <1>1, CreatedApplied
<1>4. thesis' \in [Theses -> IdeaStates \union {Unset}] /\ watch' \in [Theses -> Seq(Entries)]
  <2>1. "NASCENT" \in IdeaStates /\ <<>> \in Seq(Entries)
    BY DEF IdeaStates
  <2> QED
    BY <1>3, <2>1 DEF ProjectionTyped
<1>5. ProjectionTyped' /\ Once'
  BY <1>3, <1>4 DEF ProjectionTyped, Once
<1>6. Fresh(t, "NASCENT")'
  <2>1. CASE UNCHANGED <<thesis, watch>> /\ Home[t] \in unreadable'
    BY <2>1 DEF Fresh, Excused
  <2>2. CASE thesis' = [thesis EXCEPT ![t] = "NASCENT"] /\ watch' = [watch EXCEPT ![t] = <<>>]
    <3>1. thesis'[t] = "NASCENT" /\ watch'[t] = <<>>
      BY <2>2 DEF ProjectionTyped
    <3> QED
      BY <3>1 DEF Fresh, Unmarked, Marked
  <2> QED
    BY <1>3, <2>1, <2>2
<1>7. \A t2 \in Theses \ {t} : Settled(t2)'
  <2>1. \A t2 \in Theses \ {t} : thesis'[t2] = thesis[t2] /\ watch'[t2] = watch[t2]
    BY <1>3 DEF ProjectionTyped
  <2> QED
    BY <1>2, <1>3, <2>1, OthersSettled DEF Raised, AllSettled
<1>8. /\ Len(step) > 1
      /\ Tail(step) = <<IdeaMoved(t, "RESEARCHING"), IdeaMoved(t, "EVIDENCED"), WatchSet(t, c)>>
  BY Tails
<1> HIDE DEF Fresh
<1>9. OpeningStep(Tail(step))'
  <2>1. OpeningOf(Tail(step), t)'
    BY <1>6, <1>8 DEF OpeningOf, Fresh, Excused
  <2> QED
    BY <2>1 DEF OpeningStep
<1>10. AllOwed(Tail(step))'
  <2> DEFINE rest == Tail(step)
  <2>1. rest[1] = IdeaMoved(t, "RESEARCHING")
    BY <1>8
  <2> HIDE DEF rest
  <2>2. Owed(t, rest)'
    BY <1>6, <2>1 DEF Owed, Fresh, Settled
  <2> QED
    BY <1>7, <2>2 DEF AllOwed, Owed, rest
<1> QED
  BY <1>5, <1>8, <1>9, <1>10 DEF Opens

LEMMA OpeningApplied ==
  ASSUME ProjectionTyped, Once, died' = died,
         NEW step, OpeningStep(step), AllOwed(step), Apply(step[1])
  PROVE  Opens(step)
<1>1. PICK t \in Theses : OpeningOf(step, t)
  BY DEF OpeningStep
<1>2. CASE SeedingOf(step, t)
  BY <1>2, SeedingApplied
<1>3. CASE CreatingOf(step, t)
  BY <1>3, CreatingApplied
<1>4. {"RESEARCHING", "EVIDENCED"} \subseteq IdeaStates
  BY DEF IdeaStates
<1>5. ASSUME step[1].subject = t
      PROVE  \A t2 \in Theses \ {t} : Settled(t2)
  BY <1>5, OwedToSubject DEF AllOwed
<1>6. ASSUME Excused(t) \/ thesis[t] = "NASCENT", NEW c \in Conditions,
             step = <<IdeaMoved(t, "RESEARCHING"), IdeaMoved(t, "EVIDENCED"), WatchSet(t, c)>>
      PROVE  Opens(step)
  <2>1. step[1] = IdeaMoved(t, "RESEARCHING") /\ step[1].subject = t
    BY <1>6 DEF IdeaMoved, EventOf
  <2>2. Fresh(t, "NASCENT")
    <3>1. Owed(t, step)
      BY DEF AllOwed
    <3> QED
      BY <1>6, <3>1 DEF Owed, Settled, Promised, Fresh
  <2>3. Fresh(t, "RESEARCHING")'
    BY <1>4, <2>1, <2>2, MoveKeepsFresh
  <2>4. /\ ProjectionTyped' /\ Once'
        /\ \A t2 \in Theses \ {t} : Settled(t2)'
    BY <1>4, <1>5, <2>1, MoveConcernsOne
  <2>5. AllSettled'
    <3>1. Settled(t)'
      BY <2>3 DEF Fresh, Settled, Unmarked, Unset
    <3> QED
      BY <2>4, <3>1 DEF AllSettled
  <2>6. Tail(step) = <<IdeaMoved(t, "EVIDENCED"), WatchSet(t, c)>> /\ Len(step) > 1
    BY <1>6, Tails
  <2>7. OpeningOf(Tail(step), t)'
    BY <2>3, <2>6 DEF OpeningOf, Fresh
  <2> QED
    BY <2>4, <2>5, <2>6, <2>7 DEF Opens, OpeningStep, AllOwed, AllSettled, Owed
<1>7. ASSUME Fresh(t, "RESEARCHING"), NEW c \in Conditions,
             step = <<IdeaMoved(t, "EVIDENCED"), WatchSet(t, c)>>
      PROVE  Opens(step)
  <2>1. step[1] = IdeaMoved(t, "EVIDENCED") /\ step[1].subject = t
    BY <1>7 DEF IdeaMoved, EventOf
  <2>2. Fresh(t, "EVIDENCED")'
    BY <1>4, <1>7, <2>1, MoveKeepsFresh
  <2>3. /\ ProjectionTyped' /\ Once'
        /\ \A t2 \in Theses \ {t} : Settled(t2)'
    BY <1>4, <1>5, <2>1, MoveConcernsOne
  <2>4. AllSettled'
    <3>1. Settled(t)'
      BY <2>2 DEF Fresh, Settled, Unmarked, Unset
    <3> QED
      BY <2>3, <3>1 DEF AllSettled
  <2>5. Tail(step) = <<WatchSet(t, c)>> /\ Len(step) > 1
    BY <1>7, Tails
  <2>6. SingleStep(Tail(step))'
    BY <2>5 DEF SingleStep
  <2> QED
    BY <2>3, <2>4, <2>5, <2>6 DEF Opens
<1> QED
  BY <1>1, <1>2, <1>3, <1>6, <1>7 DEF OpeningOf, Fresh

\* A demotion that was not needed stays unneeded.
KeepsDemotions ==
  \A t \in Theses, c \in Conditions :
    Excused(t) \/ DemotedFor(thesis[t], c) => Excused(t)' \/ DemotedFor(thesis'[t], c)

LEMMA BreachStepsStay ==
  ASSUME KeepsDemotions, NEW step, BreachStep(step)
  PROVE  BreachStep(step)'
BY DEF KeepsDemotions, BreachStep, BreachOf

LEMMA MarkingApplied ==
  ASSUME ProjectionTyped, Once, died' = died, NEW t \in Theses, NEW c \in Conditions,
         Apply(WatchBreached(t, c)), AllSettled
  PROVE  /\ ProjectionTyped' /\ Once' /\ KeepsDemotions
         /\ \A t2 \in Theses \ {t} : Settled(t2)'
         /\ Excused(t) => Excused(t)'
         /\ \/ Excused(t)'
            \/ /\ thesis'[t] \notin {Unset, "NASCENT"}
               /\ \A d \in Conditions : Marked(t, d)' => DemotedFor(thesis'[t], d) \/ d = c
<1>1. /\ UNCHANGED <<thesis, recorded>>
      /\ Raised(Home[t])
      /\ \/ /\ thesis[t] # Unset
            /\ watch' = [watch EXCEPT ![t] = [k \in DOMAIN watch[t] |->
                           IF watch[t][k].id = c THEN [id |-> c, breached |-> TRUE] ELSE watch[t][k]]]
         \/ watch' = watch /\ Home[t] \in unreadable'
  BY BreachApplied
<1>2. \A t2 \in Theses : Excused(t2) => Excused(t2)'
  BY <1>1, ExcusedStays
<1>3. KeepsDemotions
  BY <1>1, <1>2 DEF KeepsDemotions
<1>4. \A t2 \in Theses \ {t} : watch'[t2] = watch[t2]
  BY <1>1 DEF ProjectionTyped
<1>5. \A t2 \in Theses \ {t} : Settled(t2)'
  BY <1>1, <1>4, OthersSettled DEF AllSettled
<1>6. CASE watch' = watch /\ Home[t] \in unreadable'
  <2>1. ProjectionTyped'
    BY <1>1, <1>6, HomeAssumption, TypedStays DEF ProjectionTyped
  <2> QED
    BY <1>1, <1>2, <1>3, <1>5, <1>6, <2>1 DEF Excused, Once
<1>7. CASE /\ thesis[t] # Unset
           /\ watch' = [watch EXCEPT ![t] = [k \in DOMAIN watch[t] |->
                          IF watch[t][k].id = c THEN [id |-> c, breached |-> TRUE] ELSE watch[t][k]]]
  <2>1. /\ \A d \in Conditions : Marked(t, d)' => Marked(t, d) \/ d = c
        /\ watch'[t] \in Seq(Entries)
    BY <1>7, BreachMarksOne
  <2>2. watch' \in [Theses -> Seq(Entries)]
    BY <1>7, <2>1 DEF ProjectionTyped
  <2>3. ProjectionTyped'
    BY <1>1, <2>2, HomeAssumption, TypedStays DEF ProjectionTyped
  <2>4. Settled(t)
    BY DEF AllSettled
  <2>5. \/ Excused(t)'
        \/ /\ thesis'[t] \notin {Unset, "NASCENT"}
           /\ \A d \in Conditions : Marked(t, d)' => DemotedFor(thesis'[t], d) \/ d = c
    BY <1>1, <1>2, <1>7, <2>1, <2>4 DEF Settled
  <2> QED
    BY <1>1, <1>2, <1>3, <1>5, <2>3, <2>5 DEF Once
<1> QED
  BY <1>1, <1>6, <1>7

LEMMA DemotionApplied ==
  ASSUME ProjectionTyped, Once, died' = died, NEW t \in Theses, NEW c \in Conditions,
         OnBreach[c] # "ALERT", Apply(IdeaMoved(t, Target(c))),
         AllOwed(<<IdeaMoved(t, Target(c))>>)
  PROVE  ProjectionTyped' /\ Once' /\ KeepsDemotions /\ AllSettled'
<1> DEFINE step == <<IdeaMoved(t, Target(c))>>
<1>1. Target(c) \in IdeaStates \intersect {"CONTESTED", "INVALIDATED"}
  BY TargetDemotes
<1>2. step[1].subject = t /\ step[1].value = Target(c)
  BY DEF IdeaMoved, EventOf
<1>3. \A t2 \in Theses \ {t} : Settled(t2)
  BY <1>2, OwedToSubject DEF AllOwed
<1>4. /\ ProjectionTyped' /\ Once'
      /\ \A t2 \in Theses \ {t} : Settled(t2)'
      /\ Excused(t) => Excused(t)'
  BY <1>1, <1>3, MoveConcernsOne
<1>5. /\ UNCHANGED <<watch, recorded>>
      /\ Raised(Home[t])
      /\ \/ Target(c) \in IdeaMoves(thesis[t]) /\ thesis' = [thesis EXCEPT ![t] = Target(c)]
         \/ thesis' = thesis /\ Home[t] \in unreadable'
  BY <1>1, MoveApplied
<1>6. \A t2 \in Theses : Excused(t2) => Excused(t2)'
  BY <1>5, ExcusedStays
<1>7. CASE thesis' = thesis /\ Home[t] \in unreadable'
  <2>1. KeepsDemotions
    BY <1>6, <1>7 DEF KeepsDemotions
  <2>2. Settled(t)'
    BY <1>7 DEF Settled, Excused
  <2> QED
    BY <1>4, <2>1, <2>2 DEF AllSettled
<1>8. CASE Target(c) \in IdeaMoves(thesis[t]) /\ thesis' = [thesis EXCEPT ![t] = Target(c)]
  <2>1. thesis'[t] = Target(c) /\ \A t2 \in Theses \ {t} : thesis'[t2] = thesis[t2]
    BY <1>8 DEF ProjectionTyped
  <2>2. \A d \in Conditions : DemotedFor(thesis[t], d) => DemotedFor(Target(c), d)
    BY <1>1, <1>8, DemotionStays
  <2>3. KeepsDemotions
    BY <1>6, <2>1, <2>2 DEF KeepsDemotions
  <2>4. ASSUME ~Excused(t), NEW d \in Conditions, Marked(t, d)
        PROVE  DemotedFor(Target(c), d)
    <3>1. Owed(t, step)
      BY DEF AllOwed
    <3>2. CASE Settled(t)
      BY <2>2, <2>4, <3>2 DEF Settled
    <3>3. CASE Unmarked(t)
      BY <2>4, <3>3 DEF Unmarked
    <3>4. ASSUME NEW e \in Conditions, Promised(t, e), step = <<IdeaMoved(t, Target(e))>>
          PROVE  DemotedFor(Target(c), d)
      <4>1. Target(e) = Target(c)
        BY <1>2, <3>4 DEF IdeaMoved, EventOf
      <4> QED
        BY <2>2, <2>4, <3>4, <4>1, TargetDemotes DEF Promised
    <3> QED
      BY <3>1, <3>2, <3>3, <3>4 DEF Owed
  <2>5. Settled(t)'
    <3>1. \A d \in Conditions : Marked(t, d)' => Marked(t, d)
      BY <1>5 DEF Marked
    <3>2. Excused(t)' \/ ~Excused(t)
      BY <1>6
    <3> QED
      BY <1>1, <2>1, <2>4, <3>1, <3>2 DEF Settled, Unmarked, Unset
  <2> QED
    BY <1>4, <2>3, <2>5 DEF AllSettled
<1> QED
  BY <1>5, <1>7, <1>8

LEMMA BreachStepApplied ==
  ASSUME ProjectionTyped, Once, died' = died,
         NEW step, BreachStep(step), AllOwed(step), Apply(step[1])
  PROVE  /\ ProjectionTyped' /\ Once' /\ KeepsDemotions
         /\ \/ Len(step) = 1 /\ AllSettled'
            \/ Len(step) > 1 /\ BreachStep(Tail(step))' /\ AllOwed(Tail(step))'
<1>1. PICK t \in Theses, c \in Conditions : BreachOf(step, t, c)
  BY DEF BreachStep
<1>2. ASSUME step[1] = WatchBreached(t, c)
      PROVE  AllSettled
  <2>1. step[1].kind # "STATE_CHANGED"
    BY <1>2 DEF WatchBreached, EventOf
  <2> QED
    BY <2>1, OwedToSubject DEF AllOwed, AllSettled
<1>3. CASE step = <<WatchBreached(t, c)>> /\ (Excused(t) \/ DemotedFor(thesis[t], c))
  <2>1. Apply(WatchBreached(t, c)) /\ AllSettled
    BY <1>2, <1>3
  <2>2. /\ ProjectionTyped' /\ Once' /\ KeepsDemotions
        /\ \A t2 \in Theses \ {t} : Settled(t2)'
        /\ \/ Excused(t)'
           \/ /\ thesis'[t] \notin {Unset, "NASCENT"}
              /\ \A d \in Conditions : Marked(t, d)' => DemotedFor(thesis'[t], d) \/ d = c
    BY <2>1, MarkingApplied
  <2>3. Settled(t)'
    BY <1>3, <2>2 DEF Settled, KeepsDemotions
  <2> QED
    BY <1>3, <2>2, <2>3 DEF AllSettled
<1>4. CASE OnBreach[c] # "ALERT" /\ step = <<WatchBreached(t, c), IdeaMoved(t, Target(c))>>
  <2>1. Apply(WatchBreached(t, c)) /\ AllSettled
    BY <1>2, <1>4
  <2>2. /\ ProjectionTyped' /\ Once' /\ KeepsDemotions
        /\ \A t2 \in Theses \ {t} : Settled(t2)'
        /\ \/ Excused(t)'
           \/ /\ thesis'[t] \notin {Unset, "NASCENT"}
              /\ \A d \in Conditions : Marked(t, d)' => DemotedFor(thesis'[t], d) \/ d = c
    BY <2>1, MarkingApplied
  <2>3. Tail(step) = <<IdeaMoved(t, Target(c))>> /\ Len(step) > 1
    BY <1>4
  <2>4. Owed(t, <<IdeaMoved(t, Target(c))>>)'
    BY <1>4, <2>2 DEF Owed, Promised, Settled
  <2>5. AllOwed(Tail(step))'
    BY <2>2, <2>3, <2>4 DEF AllOwed, Owed
  <2>6. BreachStep(Tail(step))'
    BY <1>4, <2>3 DEF BreachStep, BreachOf
  <2> QED
    BY <2>2, <2>3, <2>5, <2>6
<1>5. CASE OnBreach[c] # "ALERT" /\ step = <<IdeaMoved(t, Target(c))>>
  BY <1>5, DemotionApplied
<1> QED
  BY <1>1, <1>3, <1>4, <1>5 DEF BreachOf

-----------------------------------------------------------------------------
(* What an operation begins.                                               *)

LEMMA NothingHappens ==
  ASSUME UNCHANGED <<projection, died>>
  PROVE  /\ AllSettled => AllSettled'
         /\ \A step : /\ AllOwed(step) => AllOwed(step)'
                      /\ SingleStep(step) => SingleStep(step)'
                      /\ OpeningStep(step) => OpeningStep(step)'
                      /\ BreachStep(step) => BreachStep(step)'
<1>1. UNCHANGED <<unreadable, thesis, watch, recorded, died>>
  BY DEF projection
<1>2. ASSUME NEW t \in Theses
      PROVE  (Excused(t)' <=> Excused(t)) /\ (Unmarked(t)' <=> Unmarked(t))
  BY <1>1 DEF Excused, Unmarked, Marked
<1>3. ASSUME NEW t \in Theses
      PROVE  Settled(t) => Settled(t)'
  BY <1>1, <1>2, SettledStays
<1>4. AllSettled => AllSettled'
  BY <1>3 DEF AllSettled
<1>5. ASSUME NEW step, AllOwed(step)
      PROVE  AllOwed(step)'
  <2> SUFFICES ASSUME NEW t \in Theses PROVE Owed(t, step)'
    BY DEF AllOwed
  <2>1. Owed(t, step)
    BY <1>5 DEF AllOwed
  <2>2. \A c \in Conditions : Promised(t, c) => Promised(t, c)'
    BY <1>1 DEF Promised, Marked
  <2> QED
    BY <1>1, <1>2, <1>3, <2>1, <2>2 DEF Owed
<1>6. ASSUME NEW step
      PROVE  SingleStep(step) => SingleStep(step)'
  BY <1>1 DEF SingleStep
<1>7. ASSUME NEW step
      PROVE  OpeningStep(step) => OpeningStep(step)'
  BY <1>1, <1>2 DEF OpeningStep, OpeningOf, SeedingOf, CreatingOf
<1>8. ASSUME NEW step
      PROVE  BreachStep(step) => BreachStep(step)'
  BY <1>1, <1>2 DEF BreachStep, BreachOf
<1> QED
  BY <1>4, <1>5, <1>6, <1>7, <1>8

LEMMA BeginsWork ==
  ASSUME NEW p \in Processes, todo \in [Processes -> Seq(Steps)], Work(todo[p]),
         NEW steps \in Seq(Steps), Begins(p, steps),
         \/ Len(steps) = 1 /\ SingleStep(steps[1])
         \/ Len(steps) = 1 /\ OpeningStep(steps[1])
         \/ \A k \in DOMAIN steps : BreachStep(steps[k])
  PROVE  todo' \in [Processes -> Seq(Steps)] /\ Work(todo[p])'
<1>1. /\ todo[p] = <<>> /\ steps # <<>>
      /\ todo' = [todo EXCEPT ![p] = steps]
      /\ UNCHANGED <<projection, died>>
  BY DEF Begins
<1>2. AllSettled
  BY <1>1 DEF Work
<1>3. todo' \in [Processes -> Seq(Steps)] /\ todo'[p] = steps
  BY <1>1
<1> DEFINE first == steps[1]
<1>4. AllOwed(first)
  BY <1>2 DEF AllOwed, AllSettled, Owed
<1>5. /\ AllSettled'
      /\ UNCHANGED <<thesis, unreadable, watch, recorded, died>>
  BY <1>1, <1>2, NothingHappens DEF projection
<1>6. ASSUME NEW q, q = steps
      PROVE  Work(q)'
  <2>1. AllOwed(q[1])'
    BY <1>1, <1>4, <1>6, NothingHappens
  <2>2. \/ Len(q) = 1 /\ SingleStep(q[1])
        \/ Len(q) = 1 /\ OpeningStep(q[1])
        \/ \A k \in DOMAIN q : BreachStep(q[k])
    BY <1>6
  <2>3. SingleStep(q[1]) => SingleStep(q[1])'
    BY <1>1, NothingHappens
  <2>4. OpeningStep(q[1]) => OpeningStep(q[1])'
    BY <1>1, NothingHappens
  <2>5. \A k \in DOMAIN q : BreachStep(q[k]) => BreachStep(q[k])'
    BY <1>1, NothingHappens
  <2> QED
    BY <1>1, <1>5, <1>6, <2>1, <2>2, <2>3, <2>4, <2>5 DEF Work
<1> QED
  BY <1>3, <1>6

LEMMA NotMovedIsDemoted ==
  ASSUME NEW s \in IdeaStates \ {"NASCENT"}, NEW c \in Conditions,
         OnBreach[c] = "ALERT" \/ Target(c) \notin IdeaMoves(s)
  PROVE  DemotedFor(s, c)
BY OnBreachAssumption DEF IdeaStates, IdeaMoves, DemotedFor, Demoted, Target

LEMMA Joined ==
  \A a, b : <<a>> \o <<b>> = <<a, b>> /\ <<a>> \o <<>> = <<a>>
<1> TAKE a, b
<1>1. <<a>> \in Seq({a, b}) /\ <<b>> \in Seq({a, b}) /\ <<a, b>> \in Seq({a, b})
  OBVIOUS
<1>2. <<a>> \o <<>> = <<a>>
  BY <1>1, ConcatEmptySeq
<1>3. <<a>> \o <<b>> = <<a, b>>
  <2>1. /\ Len(<<a>> \o <<b>>) = 2 /\ <<a>> \o <<b>> \in Seq({a, b})
        /\ (<<a>> \o <<b>>)[1] = a /\ (<<a>> \o <<b>>)[2] = b
    BY <1>1, ConcatProperties
  <2> DEFINE both == <<a>> \o <<b>>
             pair == <<a, b>>
  <2>2. /\ Len(both) = 2 /\ both \in Seq({a, b}) /\ both[1] = a /\ both[2] = b
        /\ Len(pair) = 2 /\ pair \in Seq({a, b}) /\ pair[1] = a /\ pair[2] = b
    BY <1>1, <2>1
  <2> HIDE DEF both, pair
  <2>3. both = pair
    BY <2>2, SeqEqual
  <2> QED
    BY <2>3 DEF both, pair
<1> QED
  BY <1>2, <1>3

LEMMA BreachEventsBreach ==
  ASSUME ProjectionTyped, NEW t \in Theses, NEW c \in Conditions, thesis[t] # Unset, Settled(t)
  PROVE  BreachEvents(t, c) \in Steps /\ BreachStep(BreachEvents(t, c))
<1>1. WatchBreached(t, c) \in Events
  BY EventsTyped
<1>2. CASE OnBreach[c] # "ALERT" /\ Target(c) \in IdeaMoves(thesis[t])
  <2>1. IdeaMoved(t, Target(c)) \in Events
    <3>1. Target(c) \in IdeaStates
      BY <1>2, TargetDemotes
    <3> QED
      BY <3>1, EventsTyped
  <2>2. BreachEvents(t, c) = <<WatchBreached(t, c), IdeaMoved(t, Target(c))>>
    BY <1>2, Joined DEF BreachEvents
  <2> QED
    BY <1>1, <1>2, <2>1, <2>2 DEF BreachStep, BreachOf, Steps
<1>3. CASE ~(OnBreach[c] # "ALERT" /\ Target(c) \in IdeaMoves(thesis[t]))
  <2>1. BreachEvents(t, c) = <<WatchBreached(t, c)>>
    BY <1>3, Joined DEF BreachEvents
  <2>2. thesis[t] \in IdeaStates
    BY DEF ProjectionTyped
  <2>3. Excused(t) \/ DemotedFor(thesis[t], c)
    BY <1>3, <2>2, NotMovedIsDemoted DEF Settled
  <2> QED
    BY <1>1, <2>1, <2>3 DEF BreachStep, BreachOf, Steps
<1> QED
  BY <1>2, <1>3

LEMMA EvaluationBegins ==
  ASSUME ProjectionTyped, NEW p \in Processes, todo \in [Processes -> Seq(Steps)], Work(todo[p]),
         NEW pr \in Projects, NEW hit \in SUBSET Conditions, EvaluateWatchConditions(p, pr, hit)
  PROVE  todo' \in [Processes -> Seq(Steps)] /\ Work(todo[p])'
<1>1. PICK order \in SetToSeqs(Standing(pr, hit)) :
        Begins(p, [k \in DOMAIN order |-> BreachEvents(order[k][1], order[k][2])])
  BY DEF EvaluateWatchConditions
<1> DEFINE n == Cardinality(Standing(pr, hit))
           steps == [k \in DOMAIN order |-> BreachEvents(order[k][1], order[k][2])]
<1>2. n \in Nat
  <2>1. IsFiniteSet(Theses \X hit)
    BY FiniteAssumption, FS_Product, FS_Subset
  <2>2. Standing(pr, hit) \subseteq Theses \X hit
    BY DEF Standing
  <2> QED
    BY <2>1, <2>2, FS_Subset, FS_CardinalityType
<1>3. order \in [1..n -> Standing(pr, hit)]
  BY <1>1 DEF SetToSeqs
<1>4. AllSettled
  BY <1>1 DEF Begins, Work
<1>5. ASSUME NEW k \in 1..n
      PROVE  steps[k] \in Steps /\ BreachStep(steps[k])
  <2>1. order[k] \in Standing(pr, hit)
    BY <1>3
  <2>2. order[k][1] \in Theses /\ order[k][2] \in Conditions /\ thesis[order[k][1]] # Unset
    BY <2>1 DEF Standing
  <2>3. Settled(order[k][1])
    BY <1>4, <2>2 DEF AllSettled
  <2>4. steps[k] = BreachEvents(order[k][1], order[k][2])
    BY <1>3
  <2> QED
    BY <2>2, <2>3, <2>4, BreachEventsBreach
<1>6. DOMAIN steps = 1..n /\ steps = [k \in 1..n |-> steps[k]]
  BY <1>3
<1>7. Begins(p, steps)
  BY <1>1
<1> HIDE DEF steps, n
<1>8. steps \in Seq(Steps)
  BY <1>2, <1>5, <1>6
<1> QED
  BY <1>5, <1>6, <1>7, <1>8, BeginsWork

LEMMA SeedOpens == Seeded(TRUE) \in Steps /\ OpeningStep(Seeded(TRUE))
<1> DEFINE t == SeedThesis
           c == SeedCondition
           events == <<ProjectCreated(Home[t]), ThesisCreated(t), IdeaMoved(t, "RESEARCHING"),
                       IdeaMoved(t, "EVIDENCED"), WatchSet(t, c)>>
<1>1. t \in Theses /\ c \in Conditions /\ Home[t] \in Projects
  BY SeedAssumption, HomeAssumption
<1>2. Seeded(TRUE) = events
  BY DEF Seeded
<1>3. events \in Steps
  <2>1. "RESEARCHING" \in IdeaStates /\ "EVIDENCED" \in IdeaStates
    BY DEF IdeaStates
  <2> QED
    BY <1>1, <2>1, EventsTyped DEF Steps
<1>4. OpeningOf(events, t)
  BY <1>1 DEF OpeningOf, SeedingOf
<1> QED
  BY <1>1, <1>2, <1>3, <1>4 DEF OpeningStep

LEMMA SeedingAnyTime == OpeningStep(Seeded(TRUE))'
<1> DEFINE t == SeedThesis
           c == SeedCondition
           events == <<ProjectCreated(Home[t]), ThesisCreated(t), IdeaMoved(t, "RESEARCHING"),
                       IdeaMoved(t, "EVIDENCED"), WatchSet(t, c)>>
<1>1. t \in Theses /\ c \in Conditions
  BY SeedAssumption
<1>2. Seeded(TRUE) = events
  BY DEF Seeded
<1>3. OpeningOf(events, t)'
  BY <1>1 DEF OpeningOf, SeedingOf
<1> QED
  BY <1>1, <1>2, <1>3 DEF OpeningStep

LEMMA OperationWorks ==
  ASSUME ProjectionTyped, NEW p \in Processes, todo \in [Processes -> Seq(Steps)], Work(todo[p]),
         BeginsOperation(p)
  PROVE  todo' \in [Processes -> Seq(Steps)] /\ Work(todo[p])'
<1>1. ASSUME NEW events, Appends(p, events), events \in Steps, SingleStep(events) \/ OpeningStep(events)
      PROVE  todo' \in [Processes -> Seq(Steps)] /\ Work(todo[p])'
  <2>1. Begins(p, <<events>>)
    BY <1>1 DEF Appends
  <2>2. <<events>> \in Seq(Steps) /\ Len(<<events>>) = 1 /\ <<events>>[1] = events
    BY <1>1
  <2> QED
    BY <1>1, <2>1, <2>2, BeginsWork
<1>2. \A s \in {"RESEARCHING", "EVIDENCED", "CONFIRMED"} : s \in IdeaStates
  BY DEF IdeaStates
<1>3. ASSUME NEW pr \in Projects, CreateProject(p, pr)
      PROVE  todo' \in [Processes -> Seq(Steps)] /\ Work(todo[p])'
  <2>1. Appends(p, <<ProjectCreated(pr)>>)
    BY <1>3 DEF CreateProject
  <2>2. <<ProjectCreated(pr)>> \in Steps
    BY EventsTyped DEF Steps
  <2>3. SingleStep(<<ProjectCreated(pr)>>)
    BY <1>3 DEF SingleStep
  <2> QED
    BY <1>1, <2>1, <2>2, <2>3
<1>4. ASSUME NEW pr \in Projects, NEW s \in ProjectStates, SetProjectState(p, pr, s)
      PROVE  todo' \in [Processes -> Seq(Steps)] /\ Work(todo[p])'
  <2>1. Appends(p, <<ProjectMoved(pr, s)>>)
    BY <1>4 DEF SetProjectState
  <2>2. <<ProjectMoved(pr, s)>> \in Steps
    BY EventsTyped DEF Steps
  <2>3. SingleStep(<<ProjectMoved(pr, s)>>)
    BY <1>4 DEF SingleStep
  <2> QED
    BY <1>1, <2>1, <2>2, <2>3
<1>5. ASSUME NEW pr \in Projects, NEW e \in UIEvents, RecordUIEvent(p, pr, e)
      PROVE  todo' \in [Processes -> Seq(Steps)] /\ Work(todo[p])'
  <2>1. Appends(p, <<UIRecorded(pr, e)>>)
    BY <1>5 DEF RecordUIEvent
  <2>2. <<UIRecorded(pr, e)>> \in Steps
    BY EventsTyped DEF Steps
  <2>3. SingleStep(<<UIRecorded(pr, e)>>)
    BY <1>5 DEF RecordUIEvent, SingleStep
  <2> QED
    BY <1>1, <2>1, <2>2, <2>3
<1>6. ASSUME HostStarts(p)
      PROVE  todo' \in [Processes -> Seq(Steps)] /\ Work(todo[p])'
  <2>1. CASE Home[SeedThesis] \notin unreadable
    <3>1. Appends(p, Seeded(TRUE))
      BY <1>6, <2>1 DEF HostStarts
    <3> QED
      BY <1>1, <3>1, SeedOpens
  <2>2. CASE Home[SeedThesis] \in unreadable
    <3> DEFINE pr == Home[SeedThesis]
    <3>1. Appends(p, <<ProjectCreated(pr)>>) /\ pr \in Projects
      BY <1>6, <2>2, HomeAssumption, SeedAssumption DEF HostStarts, Seeded
    <3>2. <<ProjectCreated(pr)>> \in Steps
      BY <3>1, EventsTyped DEF Steps
    <3>3. SingleStep(<<ProjectCreated(pr)>>)
      BY <3>1 DEF SingleStep
    <3> QED
      BY <1>1, <3>1, <3>2, <3>3
  <2> QED
    BY <2>1, <2>2
<1>7. ASSUME NEW t \in Theses, NEW c \in Conditions, OpenThesis(p, t, c)
      PROVE  todo' \in [Processes -> Seq(Steps)] /\ Work(todo[p])'
  <2> DEFINE events == <<ThesisCreated(t), IdeaMoved(t, "RESEARCHING"), IdeaMoved(t, "EVIDENCED"), WatchSet(t, c)>>
  <2>1. Appends(p, events)
    BY <1>7 DEF OpenThesis
  <2>2. events \in Steps
    BY <1>2, EventsTyped DEF Steps
  <2>3. OpeningOf(events, t)
    BY DEF OpeningOf, CreatingOf
  <2>4. OpeningStep(events)
    BY <2>3 DEF OpeningStep
  <2> QED
    BY <1>1, <2>1, <2>2, <2>4
<1>8. ASSUME NEW t \in Theses, PromoteThesis(p, t)
      PROVE  todo' \in [Processes -> Seq(Steps)] /\ Work(todo[p])'
  <2>1. Appends(p, <<IdeaMoved(t, "CONFIRMED")>>)
    BY <1>8 DEF PromoteThesis
  <2>2. <<IdeaMoved(t, "CONFIRMED")>> \in Steps
    BY <1>2, EventsTyped DEF Steps
  <2>3. SingleStep(<<IdeaMoved(t, "CONFIRMED")>>)
    BY <1>8 DEF SingleStep
  <2> QED
    BY <1>1, <2>1, <2>2, <2>3
<1>9. ASSUME NEW t \in Theses, NEW c \in Conditions, SetWatchCondition(p, t, c)
      PROVE  todo' \in [Processes -> Seq(Steps)] /\ Work(todo[p])'
  <2>1. Appends(p, <<WatchSet(t, c)>>)
    BY <1>9 DEF SetWatchCondition
  <2>2. <<WatchSet(t, c)>> \in Steps
    BY EventsTyped DEF Steps
  <2>3. SingleStep(<<WatchSet(t, c)>>)
    BY <1>9 DEF SingleStep
  <2> QED
    BY <1>1, <2>1, <2>2, <2>3
<1> QED
  BY <1>3, <1>4, <1>5, <1>6, <1>7, <1>8, <1>9, EvaluationBegins DEF BeginsOperation

-----------------------------------------------------------------------------
(* The invariant of one writer.                                            *)

LEMMA WriteWorks ==
  ASSUME ProjectionTyped, Once, NEW p \in Processes, todo \in [Processes -> Seq(Steps)],
         Work(todo[p]), todo[p] # <<>>, WriteLine(p)
  PROVE  /\ ProjectionTyped' /\ Once' /\ todo' \in [Processes -> Seq(Steps)]
         /\ Work(todo[p])'
<1>1. PICK steps : steps = todo[p]
  OBVIOUS
<1>2. steps \in Seq(Steps) /\ steps # <<>> /\ steps[1] \in Steps
  BY <1>1
<1>3. /\ Apply(steps[1][1]) /\ died' = died
      /\ todo' = [todo EXCEPT ![p] = AfterNext(steps)]
  <2>1. NextEvent(p) = steps[1][1]
    BY <1>1, <1>2 DEF NextEvent, Steps
  <2> QED
    BY <1>1, <2>1 DEF WriteLine
<1>4. todo'[p] = AfterNext(steps)
  BY <1>3
<1>5. PICK step : step = steps[1]
  OBVIOUS
<1>6. PICK rest : rest = AfterNext(steps)
  OBVIOUS
<1>7. ASSUME Len(step) = 1
      PROVE  /\ rest \in Seq(Steps) /\ Len(rest) = Len(steps) - 1
             /\ \A k \in DOMAIN rest : k + 1 \in DOMAIN steps /\ rest[k] = steps[k + 1]
  BY <1>2, <1>5, <1>6, <1>7, AfterLastEvent
<1>8. ASSUME Len(step) > 1
      PROVE  /\ rest \in Seq(Steps) /\ Len(rest) = Len(steps) /\ rest[1] = Tail(step)
             /\ \A k \in DOMAIN rest : k \in DOMAIN steps /\ (k # 1 => rest[k] = steps[k])
  <2>1. steps[1] # <<>> /\ Len(steps[1]) # 1
    <3>1. step \in Seq(Events)
      BY <1>2, <1>5 DEF Steps
    <3>2. PICK n : n = Len(step)
      OBVIOUS
    <3>3. n > 1
      BY <1>8, <3>2
    <3>4. n \in Nat /\ n # 0 /\ n # 1
      BY <3>1, <3>2, <3>3, LenProperties
    <3>5. step # <<>>
      BY <3>1, <3>2, <3>4, EmptySeq
    <3>6. Len(step) # 1
      BY <3>2, <3>4, Zenon
    <3> QED
      BY <1>5, <3>5, <3>6, Zenon
  <2> QED
    BY <1>2, <1>5, <1>6, <2>1, AfterFirstEvent
<1>9. ASSUME ProjectionTyped', Once', rest \in Seq(Steps), Work(rest)'
      PROVE  /\ ProjectionTyped' /\ Once' /\ todo' \in [Processes -> Seq(Steps)]
             /\ Work(todo[p])'
  <2>1. todo' \in [Processes -> Seq(Steps)]
    BY <1>3, <1>6, <1>9
  <2>2. Work(todo[p])'
    BY <1>4, <1>6, <1>9
  <2> QED
    BY <1>9, <2>1, <2>2
<1>10. CASE Len(steps) = 1 /\ SingleStep(step) /\ AllSettled
  <2>1. Len(step) = 1 /\ ProjectionTyped' /\ Once' /\ AllSettled'
    BY <1>3, <1>5, <1>10, SingleApplied
  <2>2. rest \in Seq(Steps) /\ rest = <<>>
    BY <1>7, <1>10, <2>1
  <2> QED
    BY <1>9, <2>1, <2>2 DEF Work
<1>11. CASE Len(steps) = 1 /\ OpeningStep(step) /\ AllOwed(step)
  <2>1. /\ ProjectionTyped' /\ Once'
        /\ \/ Len(step) = 1 /\ AllSettled'
           \/ Len(step) > 1 /\ OpeningStep(Tail(step))' /\ AllOwed(Tail(step))'
           \/ Len(step) > 1 /\ SingleStep(Tail(step))' /\ AllSettled'
    BY <1>3, <1>5, <1>11, OpeningApplied DEF Opens
  <2>2. CASE Len(step) = 1 /\ AllSettled'
    <3>1. rest \in Seq(Steps) /\ rest = <<>>
      BY <1>7, <1>11, <2>2
    <3> QED
      BY <1>9, <2>1, <2>2, <3>1 DEF Work
  <2>3. CASE /\ Len(step) > 1
             /\ \/ OpeningStep(Tail(step))' /\ AllOwed(Tail(step))'
                \/ SingleStep(Tail(step))' /\ AllSettled'
    <3>1. rest \in Seq(Steps) /\ Len(rest) = 1 /\ rest[1] = Tail(step)
      BY <1>8, <1>11, <2>3
    <3>2. Work(rest)'
      BY <2>3, <3>1 DEF Work
    <3> QED
      BY <1>9, <2>1, <3>1, <3>2
  <2> QED
    BY <2>1, <2>2, <2>3
<1>12. CASE (\A k \in DOMAIN steps : BreachStep(steps[k])) /\ AllOwed(step)
  <2>1. BreachStep(step)
    BY <1>2, <1>5, <1>12
  <2>2. /\ ProjectionTyped' /\ Once' /\ KeepsDemotions
        /\ \/ Len(step) = 1 /\ AllSettled'
           \/ Len(step) > 1 /\ BreachStep(Tail(step))' /\ AllOwed(Tail(step))'
    BY <1>3, <1>5, <1>12, <2>1, BreachStepApplied
  <2>3. \A k \in DOMAIN steps : BreachStep(steps[k])'
    BY <1>12, <2>2, BreachStepsStay
  <2>4. CASE Len(step) = 1 /\ AllSettled'
    <3>1. /\ rest \in Seq(Steps)
          /\ \A k \in DOMAIN rest : k + 1 \in DOMAIN steps /\ rest[k] = steps[k + 1]
      BY <1>7, <2>4
    <3>2. \A k \in DOMAIN rest : BreachStep(rest[k])'
      BY <2>3, <3>1
    <3>3. AllOwed(rest[1])'
      BY <2>4 DEF AllOwed, AllSettled, Owed
    <3>4. Work(rest)'
      BY <2>4, <3>2, <3>3 DEF Work
    <3> QED
      BY <1>9, <2>2, <3>1, <3>4
  <2>5. CASE Len(step) > 1 /\ BreachStep(Tail(step))' /\ AllOwed(Tail(step))'
    <3>1. /\ rest \in Seq(Steps) /\ Len(rest) = Len(steps) /\ rest[1] = Tail(step)
          /\ \A k \in DOMAIN rest : k \in DOMAIN steps /\ (k # 1 => rest[k] = steps[k])
      BY <1>8, <2>5
    <3>2. ASSUME NEW k \in DOMAIN rest
          PROVE  BreachStep(rest[k])'
      <4>1. CASE k = 1
        BY <2>5, <3>1, <4>1
      <4>2. CASE k # 1
        <5>1. k \in DOMAIN steps /\ rest[k] = steps[k]
          BY <3>1, <4>2
        <5> QED
          BY <2>3, <5>1
      <4> QED
        BY <4>1, <4>2
    <3>3. AllOwed(rest[1])' /\ rest # <<>>
      <4>1. rest # <<>>
        BY <1>2, <3>1
      <4> QED
        BY <2>5, <3>1, <4>1
    <3>4. Work(rest)'
      BY <3>2, <3>3 DEF Work
    <3> QED
      BY <1>9, <2>2, <3>1, <3>4
  <2> QED
    BY <2>2, <2>4, <2>5
<1> QED
  BY <1>1, <1>2, <1>5, <1>10, <1>11, <1>12 DEF Work

\* In the file that a console has deleted nothing is owed.
LEMMA DeletedSettled ==
  ASSUME thesis' = [t \in Theses |-> Unset], watch' = [t \in Theses |-> <<>>], unreadable' = {},
         recorded' = [pr \in Projects |-> [e \in UIEvents |-> 0]]
  PROVE  ProjectionTyped' /\ Once' /\ AllSettled'
<1>1. ProjectionTyped' /\ Once'
  BY DEF ProjectionTyped, Once
<1>2. AllSettled'
  <2> SUFFICES ASSUME NEW t \in Theses PROVE Settled(t)'
    BY DEF AllSettled
  <2>1. thesis'[t] = Unset /\ watch'[t] = <<>>
    OBVIOUS
  <2> QED
    BY <2>1 DEF Settled, Unmarked, Marked, Unset
<1> QED
  BY <1>1, <1>2

LEMMA ConsoleWorks ==
  ASSUME NEW p \in Processes, todo \in [Processes -> Seq(Steps)],
         prev \in [Processes -> {Unset, "LAST", "EARLIER"}], ConsoleStarts(p)
  PROVE  /\ ProjectionTyped' /\ Once' /\ todo' \in [Processes -> Seq(Steps)]
         /\ prev' \in [Processes -> {Unset, "LAST", "EARLIER"}]
         /\ todo'[p] # <<>> /\ Work(todo[p])'
<1>1. /\ todo' = [todo EXCEPT ![p] = <<Seeded(TRUE)>>]
      /\ thesis' = [t \in Theses |-> Unset] /\ watch' = [t \in Theses |-> <<>>]
      /\ unreadable' = {} /\ recorded' = [pr \in Projects |-> [e \in UIEvents |-> 0]]
      /\ prev' = [q \in Processes |-> IF Empty THEN prev[q] ELSE PassedBy(prev[q])]
  BY DEF ConsoleStarts
<1>2. ProjectionTyped' /\ Once' /\ AllSettled'
  BY <1>1, DeletedSettled
<1>3. prev' \in [Processes -> {Unset, "LAST", "EARLIER"}]
  BY <1>1 DEF PassedBy
<1> DEFINE steps == <<Seeded(TRUE)>>
<1>4. steps \in Seq(Steps) /\ Len(steps) = 1 /\ steps[1] = Seeded(TRUE) /\ steps # <<>>
  <2>1. PICK events \in Steps : events = Seeded(TRUE)
    BY SeedOpens
  <2>2. <<events>> \in Seq(Steps) /\ Len(<<events>>) = 1 /\ <<events>>[1] = events /\ <<events>> # <<>>
    OBVIOUS
  <2> QED
    BY <2>1, <2>2
<1>5. todo'[p] = steps /\ todo' \in [Processes -> Seq(Steps)]
  BY <1>1, <1>4
<1>6. OpeningStep(steps[1])'
  BY <1>4, SeedingAnyTime
<1>7. Work(steps)'
  BY <1>2, <1>4, <1>6 DEF Work, AllOwed, AllSettled, Owed
<1> QED
  BY <1>2, <1>3, <1>4, <1>5, <1>7

LEMMA WorkInit == WorkbenchInit => WorkInv
<1> SUFFICES ASSUME WorkbenchInit PROVE WorkInv
  OBVIOUS
<1>1. ProjectionTyped /\ Once
  BY DEF WorkbenchInit, ProjectionTyped, Once
<1>3. AllSettled
  <2> SUFFICES ASSUME NEW t \in Theses PROVE Settled(t)
    BY DEF AllSettled
  <2>1. thesis[t] = Unset /\ watch[t] = <<>>
    BY DEF WorkbenchInit
  <2> QED
    BY <2>1 DEF Settled, Unmarked, Marked, Unset
<1>2. /\ todo \in [Processes -> Seq(Steps)] /\ \A p \in Processes : todo[p] = <<>> /\ prev[p] = Unset
      /\ prev \in [Processes -> {Unset, "LAST", "EARLIER"}]
  BY DEF WorkbenchInit
<1> QED
  BY <1>1, <1>2, <1>3 DEF WorkInv, Work

LEMMA WorkStep == WorkInv /\ [WorkbenchNext]_workbenchVars => WorkInv'
<1> SUFFICES ASSUME WorkInv, [WorkbenchNext]_workbenchVars, NEW p \in Processes, Processes = {p}
             PROVE  /\ ProjectionTyped' /\ todo' \in [Processes -> Seq(Steps)]
                    /\ prev' \in [Processes -> {Unset, "LAST", "EARLIER"}]
                    /\ prev'[p] # Unset => todo'[p] # <<>>
                    /\ Work(todo[p])' /\ Once'
  BY DEF WorkInv
<1>1. \/ UNCHANGED workbenchVars
      \/ BeginsOperation(p) \/ ConsoleStarts(p) \/ ReadLastHash(p) \/ WriteLine(p) \/ Dies(p)
  BY DEF WorkbenchNext
<1>2. /\ ProjectionTyped /\ todo \in [Processes -> Seq(Steps)]
      /\ prev \in [Processes -> {Unset, "LAST", "EARLIER"}]
      /\ prev[p] # Unset => todo[p] # <<>>
      /\ Work(todo[p]) /\ Once
  BY DEF WorkInv
<1>3. ASSUME UNCHANGED <<projection, died, todo>>
      PROVE  ProjectionTyped' /\ todo' \in [Processes -> Seq(Steps)] /\ Work(todo[p])' /\ Once'
  <2>1. ProjectionTyped' /\ Once'
    BY <1>2, <1>3 DEF projection, ProjectionTyped, Once
  <2>2. PICK steps : steps = todo[p]
    OBVIOUS
  <2>3. steps = todo'[p]
    BY <1>3, <2>2
  <2>4. Work(steps)
    BY <1>2, <2>2
  <2>5. UNCHANGED <<projection, died>>
    BY <1>3
  <2>6. /\ AllSettled => AllSettled'
        /\ SingleStep(steps[1]) => SingleStep(steps[1])'
        /\ OpeningStep(steps[1]) => OpeningStep(steps[1])'
        /\ AllOwed(steps[1]) => AllOwed(steps[1])'
        /\ \A k \in DOMAIN steps : BreachStep(steps[k]) => BreachStep(steps[k])'
    BY <2>5, NothingHappens
  <2>7. Work(steps)'
    BY <2>4, <2>6 DEF Work
  <2> QED
    BY <1>2, <1>3, <2>1, <2>3, <2>7
<1>4. CASE UNCHANGED workbenchVars
  BY <1>2, <1>3, <1>4 DEF workbenchVars
<1>5. CASE BeginsOperation(p)
  <2>1. todo' \in [Processes -> Seq(Steps)] /\ Work(todo[p])'
    BY <1>2, <1>5, OperationWorks
  <2>2. UNCHANGED <<projection, prev>> /\ todo[p] = <<>> /\ todo'[p] # <<>>
    BY <1>2, <1>5 DEF BeginsOperation, HostStarts, CreateProject, SetProjectState, EvaluateWatchConditions,
       RecordUIEvent, PromoteThesis, OpenThesis, SetWatchCondition, Appends, Begins
  <2> QED
    BY <1>2, <2>1, <2>2 DEF projection, ProjectionTyped, Once
<1>6. CASE ReadLastHash(p)
  <2>1. prev' \in [Processes -> {Unset, "LAST", "EARLIER"}] /\ todo[p] # <<>> /\ UNCHANGED <<todo, projection, died>>
    BY <1>2, <1>6 DEF ReadLastHash
  <2> QED
    BY <1>3, <2>1
<1>7. CASE WriteLine(p)
  <2>1. todo[p] # <<>>
    BY <1>2, <1>7 DEF WriteLine
  <2>2. prev'[p] = Unset /\ prev' \in [Processes -> {Unset, "LAST", "EARLIER"}]
    BY <1>2, <1>7 DEF WriteLine, PassedBy
  <2> QED
    BY <1>2, <1>7, <2>1, <2>2, WriteWorks
<1>8. CASE Dies(p)
  <2>1. /\ todo' = [todo EXCEPT ![p] = <<>>] /\ prev' = [prev EXCEPT ![p] = Unset]
        /\ died' = TRUE /\ UNCHANGED projection
    BY <1>8 DEF Dies
  <2>2. /\ todo' \in [Processes -> Seq(Steps)] /\ todo'[p] = <<>> /\ prev'[p] = Unset
        /\ prev' \in [Processes -> {Unset, "LAST", "EARLIER"}]
    BY <1>2, <2>1
  <2>3. AllSettled'
    BY <2>1 DEF AllSettled, Settled, Excused
  <2> QED
    BY <1>2, <2>1, <2>2, <2>3 DEF projection, ProjectionTyped, Once, Work
<1>9. CASE ConsoleStarts(p)
  BY <1>2, <1>9, ConsoleWorks
<1> QED
  BY <1>1, <1>4, <1>5, <1>6, <1>7, <1>8, <1>9

LEMMA WorkAlways == WorkbenchSpec => []WorkInv
BY WorkInit, WorkStep, PTL DEF WorkbenchSpec

(* One process never records a delivery twice, retried or not, and wherever *)
(* that process dies.                                                      *)
THEOREM DeliveriesRecordedOnce == WorkbenchSpec => []RecordedOnce
<1>1. WorkInv => RecordedOnce
  BY DEF WorkInv, RecordedOnce, Once, Alone
<1> QED
  BY <1>1, WorkAlways, PTL

(* Between the operations of one process that never died, every idea with  *)
(* a breached condition has been demoted for it.                           *)
THEOREM BreachesHaveDemoted == WorkbenchSpec => []BreachesDemote
<1>1. WorkInv => BreachesDemote
  <2> SUFFICES ASSUME WorkInv, NEW p \in Processes, Processes = {p}, ~died, todo[p] = <<>>,
                      NEW t \in Theses, NEW k \in DOMAIN watch[t],
                      Home[t] \notin unreadable, watch[t][k].breached
               PROVE  DemotedFor(thesis[t], watch[t][k].id)
    BY DEF BreachesDemote, Alone
  <2>1. ProjectionTyped /\ AllSettled
    BY DEF WorkInv, Work
  <2>2. watch[t][k].id \in Conditions
    <3>1. watch[t] \in Seq(Entries)
      BY <2>1 DEF ProjectionTyped
    <3>2. watch[t][k] \in Entries
      BY <3>1
    <3> QED
      BY <3>2 DEF Entries
  <2>3. Marked(t, watch[t][k].id)
    BY DEF Marked
  <2>4. Settled(t) /\ ~Excused(t)
    BY <2>1 DEF AllSettled, Excused
  <2> QED
    BY <2>2, <2>3, <2>4 DEF Settled
<1> QED
  BY <1>1, WorkAlways, PTL
=============================================================================
