---------------------------- MODULE AgentProofs ----------------------------
(* Machine-checked proofs about Agent and its ResearchFunnel, for any      *)
(* finite set of strategies and any bounds.                                *)
EXTENDS Agent, FiniteSetTheorems, SequenceTheorems, WellFoundedInduction, TLAPS

-----------------------------------------------------------------------------
(* What a funnel is, and what it owes to the theses th and the intents in. *)

StageNames == {"STRATEGY_GENERATION", "DISCLOSURE_SYNTHESIS", "EVIDENCE_REVIEW",
               "IMPLEMENTATION_GENERATION", "IMPLEMENTATION_SELECTED",
               "TRADE_DESIGN", "APPROVAL", "EXECUTED"}

Positions ==
  [stage : StageNames, thesis : Nat, intent : Nat,
   implementation : Kinds \union {None}, blocked : BOOLEAN]

Funnels ==
  [order        : [Strategies -> Nat],
   positions    : [Strategies -> Positions],
   syntheses    : Seq([strategy : Strategies, usable : BOOLEAN]),
   evidenced    : SUBSET Strategies,
   alternatives : [Strategies -> SUBSET Kinds],
   selected     : [Strategies -> Kinds \union {None}]]

Thesis == [strategy : Strategies, events : Nat]

Intent == [strategy : Strategies, thesis : Nat, kind : Kinds \union {None},
           linked : BOOLEAN, previewed : BOOLEAN]

At(f, s, n) == StageIndex(f.positions[s].stage) >= n

OnFile(th, s, n) == n \in DOMAIN th /\ th[n] = [strategy |-> s, events |-> Complete]

Previewed(in, s, n) == n \in DOMAIN in /\ in[n].strategy = s /\ in[n].previewed

\* The stage and the caches of a strategy, each with what must have come before it.
Earned(f, th, in, s) ==
  LET position == f.positions[s]
  IN /\ ~Placed(f, s) => position.thesis = 0
     /\ position.thesis # 0 => OnFile(th, s, position.thesis)
     /\ Usable(f, s) => s \in f.evidenced
     /\ At(f, s, 3) => s \in f.evidenced
     /\ f.alternatives[s] # {} => position.thesis # 0 /\ s \in f.evidenced
     /\ At(f, s, 4) => f.alternatives[s] # {}
     /\ f.selected[s] # None =>
          f.selected[s] \in f.alternatives[s] /\ position.implementation = f.selected[s]
     /\ At(f, s, 5) => f.selected[s] # None
     /\ At(f, s, 7) => Previewed(in, s, position.intent)

Sound(f, th, in) == f \in Funnels /\ \A s \in Strategies : Earned(f, th, in, s)

Grounded(f, th, intent) ==
  /\ OnFile(th, intent.strategy, intent.thesis)
  /\ intent.strategy \in f.evidenced
  /\ intent.kind \in f.alternatives[intent.strategy] \ {"NO_TRADE"}
  /\ intent.previewed => intent.linked

\* What no turn takes back: that a synthesis has been usable, and alternatives once generated.
Keeps(f, g) ==
  \A s \in Strategies :
    /\ s \in f.evidenced => s \in g.evidenced
    /\ f.alternatives[s] # {} => g.alternatives[s] = f.alternatives[s]

Extends(a, b) == \A k \in DOMAIN a : k \in DOMAIN b /\ b[k] = a[k]

-----------------------------------------------------------------------------
(* Operators of the funnel.                                                *)

LEMMA StageNumbers ==
  /\ StageIndex("STRATEGY_GENERATION") = 1
  /\ StageIndex("DISCLOSURE_SYNTHESIS") = 2
  /\ StageIndex("EVIDENCE_REVIEW") = 3
  /\ StageIndex("IMPLEMENTATION_GENERATION") = 4
  /\ StageIndex("IMPLEMENTATION_SELECTED") = 5
  /\ StageIndex("TRADE_DESIGN") = 6
  /\ StageIndex("APPROVAL") = 7
  /\ StageIndex("EXECUTED") = 8
<1>1. DOMAIN Stages = 1..8
  BY DEF Stages
<1> QED
  BY <1>1 DEF StageIndex, Stages

LEMMA StageNumber == ASSUME NEW stage \in StageNames PROVE StageIndex(stage) \in 1..8
BY StageNumbers DEF StageNames

(* A position moves forward to a stage, and nothing else of it changes.    *)
LEMMA AdvancedTo ==
  ASSUME NEW position \in Positions, NEW stage \in StageNames
  PROVE  LET result == Advanced(position, stage)
         IN /\ result \in Positions
            /\ result.thesis = position.thesis
            /\ result.intent = position.intent
            /\ result.implementation = position.implementation
            /\ \A n \in Nat : StageIndex(result.stage) >= n <=>
                 StageIndex(position.stage) >= n \/ StageIndex(stage) >= n
<1>1. position.stage \in StageNames
  BY DEF Positions
<1>2. StageIndex(position.stage) \in 1..8 /\ StageIndex(stage) \in 1..8
  BY <1>1, StageNumber
<1> QED
  BY <1>1, <1>2 DEF Advanced, Positions

LEMMA KeysAreFinite ==
  ASSUME NEW f PROVE IsFiniteSet(Keys(f)) /\ Cardinality(Keys(f)) \in Nat
<1>1. IsFiniteSet(Keys(f))
  BY StrategiesAssumption, FS_Subset DEF Keys
<1> QED
  BY <1>1, FS_CardinalityType

(* The first of some strategies is one of them.                            *)
LEMMA FirstIsOne ==
  ASSUME NEW f \in Funnels, NEW among \in SUBSET Strategies, among # {}
  PROVE  First(f, among) \in among
<1> DEFINE places == {f.order[s] : s \in among}
           below == {pair \in Nat \X Nat : pair[1] < pair[2]}
<1>1. places \in SUBSET Nat /\ places # {}
  BY DEF Funnels
<1>2. IsWellFoundedOn(below, Nat)
  BY NatLessThanWellFounded DEF OpToRel
<1>3. PICK least \in places : \A place \in places : <<place, least>> \notin below
  <2> HIDE DEF below, places
  <2> QED BY <1>1, <1>2, WFMin
<1>4. PICK s \in among : f.order[s] = least
  BY <1>3
<1>5. \A t \in among : f.order[s] <= f.order[t]
  <2> TAKE t \in among
  <2>1. <<f.order[t], least>> \notin below
    BY <1>3
  <2>2. f.order[t] \in Nat /\ least \in Nat
    BY <1>1, <1>3
  <2> QED
    BY <1>4, <2>1, <2>2
<1> QED
  BY <1>4, <1>5 DEF First

LEMMA PlacedIn ==
  ASSUME NEW f \in Funnels, NEW s \in Strategies
  PROVE  LET g == WithPlace(f, s)
         IN /\ g \in Funnels
            /\ Keys(g) = Keys(f) \union {s}
            /\ g.positions = f.positions
            /\ g.syntheses = f.syntheses
            /\ g.evidenced = f.evidenced
            /\ g.alternatives = f.alternatives
            /\ g.selected = f.selected
<1> DEFINE n == Cardinality(Keys(f))
<1>1. n \in Nat
  BY KeysAreFinite
<1> HIDE DEF n
<1>2. CASE Placed(f, s)
  BY <1>2 DEF WithPlace, Placed
<1>3. CASE ~Placed(f, s)
  <2>1. WithPlace(f, s) = [f EXCEPT !.order[s] = n + 1]
    BY <1>3 DEF WithPlace, n
  <2> DEFINE order == [f.order EXCEPT ![s] = n + 1]
  <2>2. order \in [Strategies -> Nat]
    BY <1>1 DEF Funnels
  <2>3. \A t \in Strategies : order[t] # 0 <=> f.order[t] # 0 \/ t = s
    BY <1>1 DEF Funnels
  <2>4. WithPlace(f, s) = [f EXCEPT !.order = order]
    BY <2>1
  <2> HIDE DEF order
  <2>5. WithPlace(f, s) \in Funnels
    BY <2>2, <2>4 DEF Funnels
  <2>6. LET g == WithPlace(f, s)
        IN /\ g.order = order
           /\ g.positions = f.positions
           /\ g.syntheses = f.syntheses
           /\ g.evidenced = f.evidenced
           /\ g.alternatives = f.alternatives
           /\ g.selected = f.selected
    BY <2>4 DEF Funnels
  <2>7. Keys(WithPlace(f, s)) = Keys(f) \union {s}
    BY <2>3, <2>6 DEF Keys
  <2> QED
    BY <2>5, <2>6, <2>7
<1> QED
  BY <1>2, <1>3

LEMMA MarkedAs ==
  ASSUME NEW f \in Funnels, NEW s \in Strategies, NEW stage \in StageNames
  PROVE  LET g == Marked(f, s, stage)
         IN /\ g \in Funnels
            /\ Keys(g) = Keys(f) \union {s}
            /\ g.positions = [f.positions EXCEPT ![s] = Advanced(@, stage)]
            /\ g.syntheses = f.syntheses
            /\ g.evidenced = f.evidenced
            /\ g.alternatives = f.alternatives
            /\ g.selected = f.selected
<1> DEFINE g == WithPlace(f, s)
<1>1. /\ g \in Funnels
      /\ Keys(g) = Keys(f) \union {s}
      /\ g.positions = f.positions
      /\ g.syntheses = f.syntheses
      /\ g.evidenced = f.evidenced
      /\ g.alternatives = f.alternatives
      /\ g.selected = f.selected
  BY PlacedIn
<1>2. Marked(f, s, stage) = [g EXCEPT !.positions[s] = Advanced(@, stage)]
  BY DEF Marked
<1> HIDE DEF g
<1>3. f.positions[s] \in Positions
  BY DEF Funnels
<1>4. Advanced(f.positions[s], stage) \in Positions
  BY <1>3, AdvancedTo
<1> DEFINE positions == [f.positions EXCEPT ![s] = Advanced(f.positions[s], stage)]
<1>5. positions \in [Strategies -> Positions]
  BY <1>4 DEF Funnels
<1>6. Marked(f, s, stage) = [g EXCEPT !.positions = positions]
  BY <1>1, <1>2
<1> HIDE DEF positions
<1>7. /\ Marked(f, s, stage) \in Funnels
      /\ Marked(f, s, stage).order = g.order
      /\ Marked(f, s, stage).positions = positions
      /\ Marked(f, s, stage).syntheses = g.syntheses
      /\ Marked(f, s, stage).evidenced = g.evidenced
      /\ Marked(f, s, stage).alternatives = g.alternatives
      /\ Marked(f, s, stage).selected = g.selected
  BY <1>1, <1>5, <1>6 DEF Funnels
<1> QED
  BY <1>1, <1>7 DEF Keys, positions

-----------------------------------------------------------------------------
(* Each operation keeps a funnel sound.                                    *)

LEMMA KeepsBoth ==
  ASSUME NEW f, NEW g, NEW h, Keeps(f, g), Keeps(g, h)
  PROVE  Keeps(f, h)
BY DEF Keeps

(* More theses and more intents take nothing from what was earned.         *)
LEMMA SoundWithMore ==
  ASSUME NEW f, NEW th, NEW more, NEW in, NEW others,
         Sound(f, th, in), Extends(th, more), Extends(in, others)
  PROVE  Sound(f, more, others)
BY DEF Sound, Earned, Extends, OnFile, Previewed

LEMMA GeneratedSound ==
  ASSUME NEW f, NEW th, NEW in, Sound(f, th, in), NEW found \in Searches
  PROVE  Sound(Generated(f, found), th, in) /\ Keeps(f, Generated(f, found))
<1> DEFINE g == Generated(f, found)
           fresh(k) == {j \in 1..k : ~Placed(f, found[j])}
           place(s) == Cardinality(Keys(f))
                         + Cardinality(fresh(CHOOSE k \in DOMAIN found : found[k] = s))
           isFresh(s) == Contains(found, s) /\ ~Placed(f, s)
           order == [s \in Strategies |-> IF isFresh(s) THEN place(s) ELSE f.order[s]]
           positions == [s \in Strategies |->
             IF isFresh(s) THEN [NewPosition EXCEPT !.blocked = (s \in Rejected)]
             ELSE f.positions[s]]
<1>1. g = [f EXCEPT !.order = order, !.positions = positions]
  BY DEF Generated
<1>2. \A s \in Strategies : isFresh(s) => place(s) \in Nat \ {0}
  <2> TAKE s \in Strategies
  <2> HAVE isFresh(s)
  <2> DEFINE k == CHOOSE k \in DOMAIN found : found[k] = s
  <2>1. PICK n \in Nat : found \in [1..n -> Strategies]
    BY DEF Searches, SeqOf
  <2>2. DOMAIN found = 1..n /\ Len(found) = n
    BY <2>1
  <2>3. k \in DOMAIN found /\ found[k] = s
    BY <2>2 DEF Contains
  <2> HIDE DEF k
  <2>4. k \in 1..n
    BY <2>2, <2>3
  <2>5. IsFiniteSet(fresh(k))
    <3>1. IsFiniteSet(1..k)
      BY <2>4, FS_Interval
    <3> QED
      BY <3>1, FS_Subset
  <2>6. k \in fresh(k)
    BY <2>3, <2>4
  <2>7. Cardinality(fresh(k)) \in Nat
    BY <2>5, FS_CardinalityType
  <2>8. Cardinality(fresh(k)) # 0
    BY <2>5, <2>6, FS_EmptySet
  <2> HIDE DEF fresh
  <2>9. Cardinality(Keys(f)) + Cardinality(fresh(k)) \in Nat \ {0}
    BY <2>7, <2>8, KeysAreFinite
  <2> QED
    BY <2>9 DEF k
<1> HIDE DEF place, isFresh
<1> USE DEF Sound
<1>3. order \in [Strategies -> Nat]
  BY <1>2 DEF Funnels
<1>4. \A s \in Strategies :
        isFresh(s) => [NewPosition EXCEPT !.blocked = (s \in Rejected)] \in Positions
  <2>1. \A b \in BOOLEAN : [NewPosition EXCEPT !.blocked = b] \in Positions
    BY DEF NewPosition, Positions, StageNames
  <2>2. \A s \in Strategies : (s \in Rejected) \in BOOLEAN
    OBVIOUS
  <2> QED
    BY <2>1, <2>2
<1>5. positions \in [Strategies -> Positions]
  BY <1>4 DEF Funnels
<1>6. \A s \in Strategies :
        isFresh(s) => positions[s].thesis = 0 /\ positions[s].stage = "STRATEGY_GENERATION"
  BY DEF NewPosition
<1>7. \A s \in Strategies : ~isFresh(s) => positions[s] = f.positions[s]
  OBVIOUS
<1>8. \A s \in Strategies : order[s] = 0 => f.order[s] = 0
  BY <1>2 DEF isFresh, Placed, Keys
<1> HIDE DEF order, positions, g
<1>9. /\ g \in Funnels /\ g.order = order /\ g.positions = positions
      /\ g.syntheses = f.syntheses /\ g.alternatives = f.alternatives
      /\ g.evidenced = f.evidenced
      /\ g.selected = f.selected
  BY <1>1, <1>3, <1>5 DEF Funnels
<1>10. \A s \in Strategies : Usable(g, s) <=> Usable(f, s)
  BY <1>9 DEF Usable
<1>11. \A s \in Strategies : Earned(g, th, in, s)
  <2> TAKE s \in Strategies
  <2>1. Earned(f, th, in, s)
    OBVIOUS
  <2>2. CASE isFresh(s)
    <3>1. f.positions[s].thesis = 0
      BY <2>1, <2>2 DEF Earned, isFresh
    <3>2. f.alternatives[s] = {} /\ f.selected[s] = None
      BY <2>1, <3>1 DEF Earned
    <3>3. g.positions[s].thesis = 0 /\ ~At(g, s, 3) /\ ~At(g, s, 4) /\ ~At(g, s, 5) /\ ~At(g, s, 7)
      BY <1>6, <1>9, <2>2, StageNumbers DEF At
    <3> QED
      BY <1>9, <1>10, <2>1, <3>2, <3>3 DEF Earned
  <2>3. CASE ~isFresh(s)
    <3>1. ~Placed(g, s) => ~Placed(f, s)
      BY <1>8, <1>9 DEF Placed, Keys
    <3> QED
      BY <1>7, <1>9, <1>10, <2>1, <2>3, <3>1 DEF Earned, At
  <2> QED
    BY <2>2, <2>3
<1>12. Keeps(f, g)
  BY <1>9, <1>10 DEF Keeps
<1> QED
  BY <1>9, <1>11, <1>12 DEF g

LEMMA Appended ==
  ASSUME NEW S, NEW list \in Seq(S), NEW item \in S
  PROVE  /\ Append(list, item) \in Seq(S)
         /\ Contains(Append(list, item), item)
         /\ \A x : Contains(Append(list, item), x) => Contains(list, x) \/ x = item
BY DEF Contains

LEMMA SynthesizedSound ==
  ASSUME NEW f, NEW th, NEW in, Sound(f, th, in),
         NEW s \in Strategies, NEW usable \in BOOLEAN
  PROVE  LET g == SynthesizedAs(f, s, usable)
         IN Sound(g, th, in) /\ Keeps(f, g)
<1> USE DEF Sound
<1> DEFINE g == SynthesizedAs(f, s, usable)
           known == Synthesized(f, s)
           result == IF known THEN Usable(f, s) ELSE usable
           stage == IF result THEN "EVIDENCE_REVIEW" ELSE "DISCLOSURE_SYNTHESIS"
           placed == WithPlace(f, s)
           syntheses == IF known THEN f.syntheses
                        ELSE Append(f.syntheses, [strategy |-> s, usable |-> usable])
           evidenced == IF result THEN f.evidenced \union {s} ELSE f.evidenced
           moved == Advanced(f.positions[s], stage)
           position == [moved EXCEPT !.blocked = ~result]
           positions == [f.positions EXCEPT ![s] = position]
<1>1. /\ placed \in Funnels
      /\ Keys(placed) = Keys(f) \union {s}
      /\ placed.positions = f.positions
      /\ placed.syntheses = f.syntheses
      /\ placed.evidenced = f.evidenced
      /\ placed.alternatives = f.alternatives
      /\ placed.selected = f.selected
  BY PlacedIn
<1>2. g = [placed EXCEPT !.syntheses = syntheses, !.evidenced = evidenced, !.positions = positions]
  <2> HIDE DEF known, result
  <2> QED BY <1>1 DEF SynthesizedAs, known, result
<1>3. stage \in StageNames
  BY DEF StageNames
<1>4. f.positions[s] \in Positions
  BY DEF Funnels
<1>5. /\ moved \in Positions
      /\ moved.thesis = f.positions[s].thesis
      /\ moved.intent = f.positions[s].intent
      /\ moved.implementation = f.positions[s].implementation
      /\ \A n \in Nat : StageIndex(moved.stage) >= n <=>
           StageIndex(f.positions[s].stage) >= n \/ StageIndex(stage) >= n
  BY <1>3, <1>4, AdvancedTo
<1>6. result \in BOOLEAN
  BY DEF Usable, Contains
<1>7. StageIndex(stage) \in {2, 3} /\ (StageIndex(stage) = 3 <=> result)
  BY <1>6, StageNumbers
<1> HIDE DEF moved, result
<1>8. /\ position \in Positions
      /\ position.stage = moved.stage
      /\ position.thesis = f.positions[s].thesis
      /\ position.intent = f.positions[s].intent
      /\ position.implementation = f.positions[s].implementation
  BY <1>5, <1>6 DEF Positions
<1> DEFINE entry == [strategy |-> s, usable |-> usable]
           Entry == [strategy : Strategies, usable : BOOLEAN]
<1>9. entry \in Entry /\ f.syntheses \in Seq(Entry)
  BY DEF Funnels
<1>10. /\ Append(f.syntheses, entry) \in Seq(Entry)
  <2> HIDE DEF Entry, entry
  <2> QED BY <1>9, Appended
<1>11. syntheses \in Seq(Entry)
  BY <1>9, <1>10
<1> HIDE DEF position
<1>12. positions \in [Strategies -> Positions]
  BY <1>8 DEF Funnels
<1>13. positions[s] = position /\ \A t \in Strategies \ {s} : positions[t] = f.positions[t]
  BY DEF Funnels
<1>14. \A t \in Strategies :
         Contains(syntheses, [strategy |-> t, usable |-> TRUE]) =>
           \/ Contains(f.syntheses, [strategy |-> t, usable |-> TRUE])
           \/ t = s /\ result
  <2>1. CASE known
    BY <2>1
  <2>2. CASE ~known
    <3>1. \A x : Contains(Append(f.syntheses, entry), x) => Contains(f.syntheses, x) \/ x = entry
      <4> HIDE DEF Entry, entry
      <4> QED BY <1>9, Appended
    <3> QED
      BY <2>2, <3>1 DEF result
  <2> QED
    BY <2>1, <2>2
<1>15. evidenced \in SUBSET Strategies /\ f.evidenced \subseteq evidenced /\ (result => s \in evidenced)
  BY DEF Funnels
<1> HIDE DEF evidenced
<1> HIDE DEF syntheses, positions, placed, g
<1>16. /\ g \in Funnels /\ g.order = placed.order /\ g.positions = positions
       /\ g.syntheses = syntheses /\ g.alternatives = f.alternatives
       /\ g.evidenced = evidenced /\ g.selected = f.selected
  BY <1>1, <1>2, <1>11, <1>12, <1>15 DEF Funnels
<1>17. \A t \in Strategies : Usable(g, t) => t \in g.evidenced
  BY <1>14, <1>15, <1>16 DEF Usable, Earned
<1>18. Keys(g) = Keys(f) \union {s}
  BY <1>1, <1>16 DEF Keys
<1>19. \A t \in Strategies : Earned(g, th, in, t)
  <2> TAKE t \in Strategies
  <2>1. Earned(f, th, in, t)
    OBVIOUS
  <2>2. CASE t = s
    <3>1. At(g, s, 3) => s \in g.evidenced
      BY <1>5, <1>7, <1>8, <1>13, <1>15, <1>16, <2>1, <2>2 DEF Earned, At
    <3>2. \A n \in {4, 5, 7} : At(g, s, n) => At(f, s, n)
      BY <1>5, <1>7, <1>8, <1>13, <1>16 DEF At
    <3> QED
      BY <1>8, <1>13, <1>15, <1>16, <1>17, <1>18, <2>1, <2>2, <3>1, <3>2 DEF Earned, Placed
  <2>3. CASE t # s
    BY <1>13, <1>15, <1>16, <1>17, <1>18, <2>1, <2>3 DEF Earned, At, Placed
  <2> QED
    BY <2>2, <2>3
<1>20. Keeps(f, g)
  BY <1>15, <1>16 DEF Keeps
<1> QED
  BY <1>16, <1>19, <1>20 DEF g

(* A mark keeps every strategy sound but the one that it moves, whose      *)
(* figures other than the stage stay.                                      *)
Elsewhere(f, g, s) ==
  \A t \in Strategies \ {s} : /\ g.positions[t] = f.positions[t]
                             /\ g.alternatives[t] = f.alternatives[t]
                             /\ g.selected[t] = f.selected[t]

LEMMA MarkedElsewhere ==
  ASSUME NEW f, NEW th, NEW in, Sound(f, th, in), NEW s \in Strategies, NEW g,
         Keys(g) = Keys(f) \union {s}, g.syntheses = f.syntheses,
         g.evidenced = f.evidenced, Elsewhere(f, g, s)
  PROVE  /\ \A t \in Strategies \ {s} : Earned(g, th, in, t)
         /\ \A t \in Strategies : Usable(g, t) <=> Usable(f, t)
         /\ Placed(g, s)
BY DEF Elsewhere, Sound, Earned, At, Placed, Usable

(* The position that a mark makes.                                         *)
LEMMA MarkedPosition ==
  ASSUME NEW f \in Funnels, NEW s \in Strategies, NEW stage \in StageNames
  PROVE  LET moved == Advanced(f.positions[s], stage)
         IN /\ moved \in Positions
            /\ Marked(f, s, stage).positions[s] = moved
            /\ moved.thesis = f.positions[s].thesis
            /\ moved.intent = f.positions[s].intent
            /\ moved.implementation = f.positions[s].implementation
            /\ \A n \in Nat : StageIndex(moved.stage) >= n <=>
                 At(f, s, n) \/ StageIndex(stage) >= n
<1> DEFINE moved == Advanced(f.positions[s], stage)
<1>1. f.positions[s] \in Positions
  BY DEF Funnels
<1>2. /\ moved \in Positions
      /\ moved.thesis = f.positions[s].thesis
      /\ moved.intent = f.positions[s].intent
      /\ moved.implementation = f.positions[s].implementation
      /\ \A n \in Nat : StageIndex(moved.stage) >= n <=>
           StageIndex(f.positions[s].stage) >= n \/ StageIndex(stage) >= n
  BY <1>1, AdvancedTo
<1>3. Marked(f, s, stage).positions = [f.positions EXCEPT ![s] = moved]
  BY MarkedAs
<1> HIDE DEF moved
<1>4. Marked(f, s, stage).positions[s] = moved
  BY <1>3 DEF Funnels
<1> QED
  BY <1>2, <1>4 DEF At, moved

LEMMA ThesisSound ==
  ASSUME NEW f, NEW th, NEW in, Sound(f, th, in), NEW s \in Strategies, NEW n \in Nat,
         Usable(f, s), OnFile(th, s, n), n # 0
  PROVE  LET g == MarkedWithThesis(f, s, "EVIDENCE_REVIEW", n)
         IN Sound(g, th, in) /\ Keeps(f, g)
<1> USE DEF Sound
<1> DEFINE stage == "EVIDENCE_REVIEW"
           g == MarkedWithThesis(f, s, stage, n)
           marked == Marked(f, s, stage)
           moved == Advanced(f.positions[s], stage)
           position == [moved EXCEPT !.thesis = n]
<1>1. stage \in StageNames
  BY DEF StageNames
<1>2. /\ marked \in Funnels
      /\ Keys(marked) = Keys(f) \union {s}
      /\ marked.positions = [f.positions EXCEPT ![s] = moved]
      /\ marked.syntheses = f.syntheses
      /\ marked.evidenced = f.evidenced
      /\ marked.alternatives = f.alternatives
      /\ marked.selected = f.selected
  BY <1>1, MarkedAs
<1>3. /\ moved \in Positions
      /\ marked.positions[s] = moved
      /\ moved.intent = f.positions[s].intent
      /\ moved.implementation = f.positions[s].implementation
      /\ \A k \in Nat : StageIndex(moved.stage) >= k <=> At(f, s, k) \/ StageIndex(stage) >= k
  BY <1>1, MarkedPosition
<1> DEFINE positions == [marked.positions EXCEPT ![s] = position]
<1>4. g = [marked EXCEPT !.positions = positions]
  BY <1>3 DEF MarkedWithThesis
<1> HIDE DEF moved, marked, g
<1>5. /\ position \in Positions
      /\ position.thesis = n
      /\ position.stage = moved.stage
      /\ position.intent = f.positions[s].intent
      /\ position.implementation = f.positions[s].implementation
  BY <1>3 DEF Positions
<1> HIDE DEF position
<1>6. positions = [f.positions EXCEPT ![s] = position]
  BY <1>2 DEF Funnels
<1>7. positions \in [Strategies -> Positions]
  BY <1>5, <1>6 DEF Funnels
<1> HIDE DEF positions
<1>8. /\ g \in Funnels /\ g.order = marked.order /\ g.positions = positions
      /\ g.syntheses = f.syntheses /\ g.alternatives = f.alternatives
      /\ g.evidenced = f.evidenced
      /\ g.selected = f.selected
  BY <1>2, <1>4, <1>7 DEF Funnels
<1>9. Keys(g) = Keys(f) \union {s}
  BY <1>2, <1>8 DEF Keys
<1>10. g.positions[s] = position /\ Elsewhere(f, g, s)
  BY <1>6, <1>8 DEF Elsewhere, Funnels
<1>11. /\ \A t \in Strategies \ {s} : Earned(g, th, in, t)
       /\ \A t \in Strategies : Usable(g, t) <=> Usable(f, t)
       /\ Placed(g, s)
  BY <1>8, <1>9, <1>10, MarkedElsewhere
<1>12. \A k \in {4, 5, 7} : At(g, s, k) => At(f, s, k)
  BY <1>3, <1>5, <1>10, StageNumbers DEF At
<1>13. Earned(g, th, in, s)
  BY <1>5, <1>8, <1>10, <1>11, <1>12 DEF Earned
<1> QED
  BY <1>8, <1>11, <1>13 DEF Keeps, g

LEMMA IntentSound ==
  ASSUME NEW f, NEW th, NEW in, Sound(f, th, in), NEW s \in Strategies, NEW n \in Nat,
         f.selected[s] # None, Previewed(in, s, n)
  PROVE  LET g == MarkedWithIntent(f, s, "APPROVAL", n)
         IN Sound(g, th, in) /\ Keeps(f, g)
<1> USE DEF Sound
<1> DEFINE stage == "APPROVAL"
           g == MarkedWithIntent(f, s, stage, n)
           marked == Marked(f, s, stage)
           moved == Advanced(f.positions[s], stage)
           position == [moved EXCEPT !.intent = n]
<1>1. stage \in StageNames
  BY DEF StageNames
<1>2. /\ marked \in Funnels
      /\ Keys(marked) = Keys(f) \union {s}
      /\ marked.positions = [f.positions EXCEPT ![s] = moved]
      /\ marked.syntheses = f.syntheses
      /\ marked.evidenced = f.evidenced
      /\ marked.alternatives = f.alternatives
      /\ marked.selected = f.selected
  BY <1>1, MarkedAs
<1>3. /\ moved \in Positions
      /\ marked.positions[s] = moved
      /\ moved.thesis = f.positions[s].thesis
      /\ moved.implementation = f.positions[s].implementation
  BY <1>1, MarkedPosition
<1> DEFINE positions == [marked.positions EXCEPT ![s] = position]
<1>4. g = [marked EXCEPT !.positions = positions]
  BY <1>3 DEF MarkedWithIntent
<1> HIDE DEF moved, marked, g
<1>5. /\ position \in Positions
      /\ position.intent = n
      /\ position.thesis = f.positions[s].thesis
      /\ position.implementation = f.positions[s].implementation
  BY <1>3 DEF Positions
<1> HIDE DEF position
<1>6. positions = [f.positions EXCEPT ![s] = position]
  BY <1>2 DEF Funnels
<1>7. positions \in [Strategies -> Positions]
  BY <1>5, <1>6 DEF Funnels
<1> HIDE DEF positions
<1>8. /\ g \in Funnels /\ g.order = marked.order /\ g.positions = positions
      /\ g.syntheses = f.syntheses /\ g.alternatives = f.alternatives
      /\ g.evidenced = f.evidenced
      /\ g.selected = f.selected
  BY <1>2, <1>4, <1>7 DEF Funnels
<1>9. Keys(g) = Keys(f) \union {s}
  BY <1>2, <1>8 DEF Keys
<1>10. g.positions[s] = position /\ Elsewhere(f, g, s)
  BY <1>6, <1>8 DEF Elsewhere, Funnels
<1>11. /\ \A t \in Strategies \ {s} : Earned(g, th, in, t)
       /\ \A t \in Strategies : Usable(g, t) <=> Usable(f, t)
       /\ Placed(g, s)
  BY <1>8, <1>9, <1>10, MarkedElsewhere
<1>12. f.selected[s] \in f.alternatives[s] /\ f.alternatives[s] # {}
  BY DEF Earned
<1>13. Earned(g, th, in, s)
  BY <1>5, <1>8, <1>10, <1>11, <1>12 DEF Earned
<1> QED
  BY <1>8, <1>11, <1>13 DEF Keeps, g

LEMMA ImplementationsSound ==
  ASSUME NEW f, NEW th, NEW in, Sound(f, th, in), NEW s \in Strategies,
         NEW kinds \in Alternatives, Usable(f, s), f.positions[s].thesis # 0
  PROVE  LET g == WithImplementations(f, s, kinds)
         IN Sound(g, th, in) /\ Keeps(f, g)
<1> USE DEF Sound
<1> DEFINE stage == "IMPLEMENTATION_GENERATION"
           g == WithImplementations(f, s, kinds)
           fresh == f.alternatives[s] = {}
           alternatives == [f.alternatives EXCEPT ![s] = IF fresh THEN kinds ELSE @]
           selected == [f.selected EXCEPT ![s] = IF fresh THEN None ELSE @]
           base == [f EXCEPT !.alternatives = alternatives, !.selected = selected]
           moved == Advanced(base.positions[s], stage)
<1>1. stage \in StageNames
  BY DEF StageNames
<1>2. g = Marked(base, s, stage)
  BY DEF WithImplementations
<1>3. kinds \in SUBSET Kinds /\ kinds # {}
  BY DEF Alternatives
<1>4. Earned(f, th, in, s)
  OBVIOUS
<1>5. fresh => f.selected[s] = None
  BY <1>4 DEF Earned
<1>6. alternatives \in [Strategies -> SUBSET Kinds] /\ alternatives[s] # {}
  BY <1>3 DEF Funnels
<1>7. selected = f.selected
  BY <1>5 DEF Funnels
<1>8. ~fresh => alternatives[s] = f.alternatives[s]
  BY DEF Funnels
<1>9. \A t \in Strategies \ {s} : alternatives[t] = f.alternatives[t]
  BY DEF Funnels
<1> HIDE DEF alternatives, selected, fresh, g
<1>10. /\ base \in Funnels
       /\ base.order = f.order
       /\ base.positions = f.positions
       /\ base.syntheses = f.syntheses
       /\ base.evidenced = f.evidenced
       /\ base.alternatives = alternatives
       /\ base.selected = f.selected
  BY <1>6, <1>7 DEF Funnels
<1> HIDE DEF base
<1>11. /\ g \in Funnels
       /\ Keys(g) = Keys(base) \union {s}
       /\ g.positions = [base.positions EXCEPT ![s] = moved]
       /\ g.syntheses = base.syntheses
       /\ g.evidenced = base.evidenced
       /\ g.alternatives = base.alternatives
       /\ g.selected = base.selected
  BY <1>1, <1>2, <1>10, MarkedAs
<1>12. /\ g.positions[s] = moved
       /\ moved.thesis = f.positions[s].thesis
       /\ moved.intent = f.positions[s].intent
       /\ moved.implementation = f.positions[s].implementation
       /\ \A n \in Nat : StageIndex(moved.stage) >= n <=>
            At(base, s, n) \/ StageIndex(stage) >= n
  BY <1>1, <1>2, <1>10, MarkedPosition
<1>13. \A n \in {5, 7} : At(g, s, n) => At(f, s, n)
  BY <1>10, <1>12, StageNumbers DEF At
<1> HIDE DEF moved
<1>14. Keys(g) = Keys(f) \union {s} /\ Elsewhere(f, g, s)
  BY <1>9, <1>10, <1>11 DEF Elsewhere, Keys, Funnels
<1>15. /\ \A t \in Strategies \ {s} : Earned(g, th, in, t)
       /\ \A t \in Strategies : Usable(g, t) <=> Usable(f, t)
       /\ Placed(g, s)
  BY <1>10, <1>11, <1>14, MarkedElsewhere
<1>16. f.selected[s] # None => g.alternatives[s] = f.alternatives[s]
  BY <1>5, <1>8, <1>10, <1>11
<1>17. Earned(g, th, in, s)
  BY <1>4, <1>6, <1>10, <1>11, <1>12, <1>13, <1>15, <1>16 DEF Earned
<1>18. \A t \in Strategies : f.alternatives[t] # {} => g.alternatives[t] = f.alternatives[t]
  BY <1>8, <1>9, <1>10, <1>11 DEF fresh
<1> QED
  BY <1>10, <1>11, <1>15, <1>17, <1>18 DEF Keeps, g

LEMMA SelectionSound ==
  ASSUME NEW f, NEW th, NEW in, Sound(f, th, in), NEW s \in Strategies,
         NEW kind \in f.alternatives[s]
  PROVE  LET g == WithSelection(f, s, kind)
         IN Sound(g, th, in) /\ Keeps(f, g) /\ g.selected[s] = kind
<1> USE DEF Sound
<1> DEFINE stage == "IMPLEMENTATION_SELECTED"
           g == WithSelection(f, s, kind)
           selected == [f.selected EXCEPT ![s] = kind]
           base == [f EXCEPT !.selected = selected]
           marked == Marked(base, s, stage)
           moved == Advanced(base.positions[s], stage)
           position == [moved EXCEPT !.implementation = kind]
<1>1. stage \in StageNames
  BY DEF StageNames
<1>2. Earned(f, th, in, s)
  OBVIOUS
<1>3. kind \in Kinds /\ kind # None
  BY DEF Funnels, Kinds, None
<1>4. selected \in [Strategies -> Kinds \union {None}] /\ selected[s] = kind
  BY <1>3 DEF Funnels
<1>5. \A t \in Strategies \ {s} : selected[t] = f.selected[t]
  BY DEF Funnels
<1> HIDE DEF selected
<1>6. /\ base \in Funnels
      /\ base.order = f.order
      /\ base.positions = f.positions
      /\ base.syntheses = f.syntheses
      /\ base.evidenced = f.evidenced
      /\ base.alternatives = f.alternatives
      /\ base.selected = selected
  BY <1>4 DEF Funnels
<1>7. WithSelection(f, s, kind) =
        [Marked([f EXCEPT !.selected[s] = kind], s, stage)
           EXCEPT !.positions[s].implementation = kind]
  BY DEF WithSelection
<1>8. [f EXCEPT !.selected[s] = kind] = base
  BY DEF selected
<1> HIDE DEF base
<1>9. /\ marked \in Funnels
      /\ Keys(marked) = Keys(base) \union {s}
      /\ marked.positions = [base.positions EXCEPT ![s] = moved]
      /\ marked.syntheses = base.syntheses
      /\ marked.evidenced = base.evidenced
      /\ marked.alternatives = base.alternatives
      /\ marked.selected = base.selected
  BY <1>1, <1>6, MarkedAs
<1>10. /\ moved \in Positions
       /\ marked.positions[s] = moved
       /\ moved.thesis = f.positions[s].thesis
       /\ moved.intent = f.positions[s].intent
       /\ \A n \in Nat : StageIndex(moved.stage) >= n <=>
            At(base, s, n) \/ StageIndex(stage) >= n
  BY <1>1, <1>6, MarkedPosition
<1> DEFINE positions == [marked.positions EXCEPT ![s] = position]
<1> HIDE DEF marked
<1>11. g = [marked EXCEPT !.positions = positions]
  BY <1>7, <1>8, <1>10 DEF marked
<1>12. \A n \in {7} : StageIndex(moved.stage) >= n => At(f, s, n)
  BY <1>6, <1>10, StageNumbers DEF At
<1> HIDE DEF moved, g
<1>13. /\ position \in Positions
       /\ position.implementation = kind
       /\ position.stage = moved.stage
       /\ position.thesis = f.positions[s].thesis
       /\ position.intent = f.positions[s].intent
  BY <1>3, <1>10 DEF Positions
<1> HIDE DEF position
<1>14. positions = [f.positions EXCEPT ![s] = position]
  BY <1>6, <1>9 DEF Funnels
<1>15. positions \in [Strategies -> Positions]
  BY <1>13, <1>14 DEF Funnels
<1> HIDE DEF positions
<1>16. /\ g \in Funnels /\ g.order = marked.order /\ g.positions = positions
       /\ g.syntheses = f.syntheses /\ g.alternatives = f.alternatives
       /\ g.evidenced = f.evidenced
       /\ g.selected = selected
  BY <1>6, <1>9, <1>11, <1>15 DEF Funnels
<1>17. Keys(g) = Keys(f) \union {s}
  BY <1>6, <1>9, <1>16 DEF Keys
<1>18. g.positions[s] = position /\ Elsewhere(f, g, s)
  BY <1>5, <1>14, <1>16 DEF Elsewhere, Funnels
<1>19. /\ \A t \in Strategies \ {s} : Earned(g, th, in, t)
       /\ \A t \in Strategies : Usable(g, t) <=> Usable(f, t)
       /\ Placed(g, s)
  BY <1>16, <1>17, <1>18, MarkedElsewhere
<1>20. f.positions[s].thesis # 0 /\ s \in f.evidenced /\ f.alternatives[s] # {}
  BY <1>2 DEF Earned
<1>21. At(g, s, 7) => At(f, s, 7)
  BY <1>12, <1>13, <1>18 DEF At
<1>22. /\ g.positions[s].thesis = f.positions[s].thesis
       /\ g.positions[s].intent = f.positions[s].intent
       /\ g.positions[s].implementation = kind
       /\ g.selected[s] = kind /\ kind # None
       /\ g.alternatives[s] = f.alternatives[s]
  BY <1>3, <1>4, <1>13, <1>16, <1>18
<1>23. Earned(g, th, in, s)
  BY <1>2, <1>16, <1>19, <1>20, <1>21, <1>22 DEF Earned
<1> QED
  BY <1>4, <1>16, <1>19, <1>23 DEF Keeps, g

-----------------------------------------------------------------------------
(* The invariant, and the handlers, each of which keeps it.                *)

Core ==
  /\ Sound(funnel, theses, intents)
  /\ focus \in Strategies \union {None}
  /\ theses \in Seq(Thesis)
  /\ intents \in Seq(Intent)
  /\ \A k \in DOMAIN intents : Grounded(funnel, theses, intents[k])

Producers ==
  [name : {"catalyst", "design_trade", "design_catalyst", "open_thesis"},
   strategy : Strategies \union {None}, matched : BOOLEAN]

ViewsOK == views \in Seq(Producers) /\ refreshing \in SUBSET DOMAIN views

AgentInv == Core /\ ViewsOK

LEMMA CoreStays == Core /\ UNCHANGED <<funnel, focus, ledgerVars>> => Core'
BY DEF Core, ledgerVars

LEMMA GroundedStill ==
  ASSUME NEW f, NEW g, NEW th, NEW more, NEW intent, intent.strategy \in Strategies,
         Grounded(f, th, intent), Keeps(f, g), Extends(th, more)
  PROVE  Grounded(g, more, intent)
<1>1. intent.strategy \in g.evidenced
  BY DEF Grounded, Keeps
<1>2. g.alternatives[intent.strategy] = f.alternatives[intent.strategy]
  BY DEF Grounded, Keeps
<1>3. OnFile(more, intent.strategy, intent.thesis)
  BY DEF Grounded, OnFile, Extends
<1> QED
  BY <1>1, <1>2, <1>3 DEF Grounded

LEMMA OfStrategies ==
  ASSUME NEW list \in Seq(Intent)
  PROVE  \A k \in DOMAIN list : list[k].strategy \in Strategies
<1>1. \A k \in DOMAIN list : list[k] \in Intent
  OBVIOUS
<1> QED
  BY <1>1 DEF Intent

(* A handler that drafts nothing.                                          *)
LEMMA CoreKept ==
  ASSUME Core, Sound(funnel', theses', intents), Keeps(funnel, funnel'),
         Extends(theses, theses'), theses' \in Seq(Thesis),
         focus' \in Strategies \union {None}, intents' = intents
  PROVE  Core'
<1>1. \A k \in DOMAIN intents : intents[k].strategy \in Strategies
  BY OfStrategies DEF Core
<1>2. \A k \in DOMAIN intents : Grounded(funnel', theses', intents[k])
  BY <1>1, GroundedStill DEF Core
<1> QED
  BY <1>2 DEF Core

LEMMA SameExtends == ASSUME NEW S, NEW list \in Seq(S) PROVE Extends(list, list)
BY DEF Extends

LEMMA AppendExtends ==
  ASSUME NEW S, NEW list \in Seq(S), NEW item \in S
  PROVE  /\ Append(list, item) \in Seq(S)
         /\ Extends(list, Append(list, item))
         /\ Len(Append(list, item)) \in DOMAIN Append(list, item)
         /\ Len(Append(list, item)) \in Nat \ {0}
         /\ Append(list, item)[Len(Append(list, item))] = item
BY DEF Extends

(* The handlers that change no more than the funnel.                       *)
LEMMA FunnelOnly ==
  ASSUME Core, Sound(funnel', theses, intents), Keeps(funnel, funnel'),
         focus' \in Strategies \union {None}, UNCHANGED ledgerVars
  PROVE  Core'
<1>1. theses \in Seq(Thesis) /\ theses' = theses /\ intents' = intents
  BY DEF Core, ledgerVars
<1>2. Extends(theses, theses')
  BY <1>1, SameExtends
<1> QED
  BY <1>1, <1>2, CoreKept

LEMMA GenerateCore ==
  ASSUME Core, NEW found \in Searches, NEW made, Generate(found, made)
  PROVE  Core'
<1>1. CASE found = <<>>
  BY <1>1, CoreStays DEF Generate, Says
<1>2. CASE found # <<>>
  <2>1. funnel' = Generated(funnel, found) /\ focus' = focus /\ UNCHANGED ledgerVars
    BY <1>2 DEF Generate
  <2>2. Sound(funnel', theses, intents) /\ Keeps(funnel, funnel')
    BY <2>1, GeneratedSound DEF Core
  <2> QED
    BY <2>1, <2>2, FunnelOnly DEF Core
<1> QED
  BY <1>1, <1>2

LEMMA SynthesizeCore ==
  ASSUME Core, NEW s \in Strategies, NEW made, Synthesize(s, made)
  PROVE  Core'
<1>1. PICK usable \in BOOLEAN : funnel' = SynthesizedAs(funnel, s, usable)
  BY DEF Synthesize
<1>2. Sound(funnel', theses, intents) /\ Keeps(funnel, funnel')
  BY <1>1, SynthesizedSound DEF Core
<1> QED
  BY <1>2, FunnelOnly DEF Synthesize

LEMMA OpenThesisCore ==
  ASSUME Core, NEW s \in Strategies \union {None}, NEW made, OpenThesis(s, made)
  PROVE  Core'
<1>1. CASE s = None \/ ~Usable(funnel, s)
  BY <1>1, CoreStays DEF OpenThesis, Says
<1>2. CASE ~(s = None \/ ~Usable(funnel, s))
  <2>1. RecordThesis(s, made) /\ s \in Strategies /\ Usable(funnel, s)
    BY <1>2 DEF OpenThesis
  <2>2. focus' \in Strategies \union {None} /\ intents' = intents
    BY <2>1 DEF RecordThesis
  <2>3. theses \in Seq(Thesis) /\ intents \in Seq(Intent)
    BY DEF Core
  <2>4. \A n \in Nat :
          LET entry == [strategy |-> s, events |-> n]
          IN /\ entry \in Thesis
             /\ Append(theses, entry) \in Seq(Thesis)
             /\ Extends(theses, Append(theses, entry))
    <3> TAKE n \in Nat
    <3> DEFINE entry == [strategy |-> s, events |-> n]
    <3>1. entry \in Thesis
      BY <2>1 DEF Thesis
    <3> HIDE DEF entry
    <3>2. Append(theses, entry) \in Seq(Thesis) /\ Extends(theses, Append(theses, entry))
      BY <2>3, <3>1, AppendExtends
    <3> QED
      BY <3>1, <3>2 DEF entry
  <2>5. Extends(intents, intents) /\ Extends(theses, theses)
    BY <2>3, SameExtends
  <2>6. Complete \in Nat
    BY DEF Complete, ThesisEvents
  <2>7. CASE UNCHANGED <<funnel, theses>>
    BY <2>2, <2>3, <2>5, <2>7, CoreKept DEF Core, Keeps
  <2>8. CASE \E n \in 1..Complete - 1 :
               theses' = Append(theses, [strategy |-> s, events |-> n]) /\ UNCHANGED funnel
    <3>1. theses' \in Seq(Thesis) /\ Extends(theses, theses')
      BY <2>4, <2>6, <2>8
    <3>2. Sound(funnel', theses', intents) /\ Keeps(funnel, funnel')
      BY <2>5, <2>8, <3>1, SoundWithMore DEF Core, Keeps
    <3> QED
      BY <2>2, <3>1, <3>2, CoreKept
  <2>9. CASE /\ theses' = Append(theses, [strategy |-> s, events |-> Complete])
             /\ funnel' = MarkedWithThesis(funnel, s, "EVIDENCE_REVIEW", Len(theses'))
    <3>1. theses' \in Seq(Thesis) /\ Extends(theses, theses')
      BY <2>4, <2>6, <2>9
    <3>2. Len(theses') \in Nat \ {0} /\ OnFile(theses', s, Len(theses'))
      BY <2>1, <2>3, <2>6, <2>9, AppendExtends DEF OnFile
    <3>3. Sound(funnel, theses', intents)
      BY <2>5, <3>1, SoundWithMore DEF Core
    <3>4. Sound(funnel', theses', intents) /\ Keeps(funnel, funnel')
      BY <2>1, <2>9, <3>2, <3>3, ThesisSound
    <3> QED
      BY <2>2, <3>1, <3>4, CoreKept
  <2> QED
    BY <2>1, <2>7, <2>8, <2>9 DEF RecordThesis
<1> QED
  BY <1>1, <1>2

LEMMA ImplementationsCore ==
  ASSUME Core, NEW s \in Strategies \union {None}, NEW made, GenerateImplementations(s, made)
  PROVE  Core'
<1>1. CASE ~Researched(funnel, s)
  BY <1>1, CoreStays DEF GenerateImplementations, Says
<1>2. CASE Researched(funnel, s) /\ UNCHANGED <<funnel, focus>>
  BY <1>2, CoreStays DEF GenerateImplementations
<1>3. CASE /\ Researched(funnel, s) /\ focus' = s
           /\ \E kinds \in Alternatives : funnel' = WithImplementations(funnel, s, kinds)
  <2>1. s \in Strategies /\ Usable(funnel, s) /\ funnel.positions[s].thesis # 0
    BY <1>3 DEF Researched
  <2>2. Sound(funnel', theses, intents) /\ Keeps(funnel, funnel')
    BY <1>3, <2>1, ImplementationsSound DEF Core
  <2> QED
    BY <1>3, <2>2, FunnelOnly DEF GenerateImplementations
<1> QED
  BY <1>1, <1>2, <1>3 DEF GenerateImplementations

(* A draft names what its strategy has earned, whatever raises in between. *)
LEMMA DraftCore ==
  ASSUME Core, NEW base, Sound(base, theses, intents), Keeps(funnel, base),
         NEW s \in Strategies, base.selected[s] = "VEHICLE",
         NEW made, Draft(base, s, made), theses' = theses,
         focus' \in Strategies \union {None}
  PROVE  Core'
<1> DEFINE draft == [strategy |-> s, thesis |-> base.positions[s].thesis,
                     kind |-> base.selected[s], linked |-> FALSE, previewed |-> FALSE]
           whole == [draft EXCEPT !.linked = TRUE, !.previewed = TRUE]
<1>1. Earned(base, theses, intents, s) /\ base \in Funnels
  BY DEF Sound
<1>2. "VEHICLE" \in base.alternatives[s] /\ base.positions[s].thesis # 0 /\ s \in base.evidenced
  BY <1>1 DEF Earned, None
<1>3. OnFile(theses, s, base.positions[s].thesis)
  BY <1>1, <1>2 DEF Earned
<1>4. base.positions[s].thesis \in Nat /\ base.selected[s] \in Kinds \union {None}
  BY <1>1 DEF Funnels, Positions
<1>5. draft \in Intent /\ whole \in Intent
  BY <1>4 DEF Intent
<1>6. Grounded(base, theses, draft) /\ Grounded(base, theses, whole)
  BY <1>2, <1>3 DEF Grounded
<1>7. whole.strategy = s /\ whole.previewed
  OBVIOUS
<1>8. intents \in Seq(Intent) /\ theses \in Seq(Thesis) /\ Extends(theses, theses)
  BY SameExtends DEF Core
<1> HIDE DEF draft, whole
<1>9. \A kept \in {draft, whole} :
        /\ Append(intents, kept) \in Seq(Intent)
        /\ Sound(base, theses, Append(intents, kept))
        /\ \A k \in DOMAIN Append(intents, kept) :
             Grounded(base, theses, Append(intents, kept)[k])
  <2> TAKE kept \in {draft, whole}
  <2>1. /\ Append(intents, kept) \in Seq(Intent)
        /\ Extends(intents, Append(intents, kept))
    BY <1>5, <1>8, AppendExtends
  <2>2. Sound(base, theses, Append(intents, kept))
    BY <1>8, <2>1, SoundWithMore
  <2>3. \A k \in DOMAIN intents : Grounded(base, theses, intents[k])
    <3>1. \A k \in DOMAIN intents : intents[k].strategy \in Strategies
      BY <1>8, OfStrategies
    <3> QED
      BY <1>8, <3>1, GroundedStill DEF Core
  <2>4. \A k \in DOMAIN Append(intents, kept) :
          \/ k \in DOMAIN intents /\ Append(intents, kept)[k] = intents[k]
          \/ Append(intents, kept)[k] = kept
    BY <1>5, <1>8
  <2> QED
    BY <1>6, <2>1, <2>2, <2>3, <2>4
<1>10. \A g : Keeps(base, g) =>
         \A list \in Seq(Intent) :
           (\A k \in DOMAIN list : Grounded(base, theses, list[k])) =>
             \A k \in DOMAIN list : Grounded(g, theses, list[k])
  <2>1. \A list \in Seq(Intent) : \A k \in DOMAIN list : list[k].strategy \in Strategies
    BY OfStrategies
  <2> QED
    BY <1>8, <2>1, GroundedStill
<1>11. CASE made = "VIEW" /\ intents' = Append(intents, whole)
            /\ funnel' = MarkedWithIntent(base, s, "APPROVAL", Len(intents'))
  <2>1. Len(intents') \in Nat /\ Previewed(intents', s, Len(intents'))
    BY <1>5, <1>7, <1>8, <1>11, AppendExtends DEF Previewed
  <2>2. base.selected[s] # None
    BY DEF None
  <2>3. Sound(funnel', theses, intents') /\ Keeps(base, funnel')
    BY <1>9, <1>11, <2>1, <2>2, IntentSound
  <2>4. \A k \in DOMAIN intents' : Grounded(funnel', theses, intents'[k])
    BY <1>9, <1>10, <1>11, <2>3
  <2> QED
    BY <1>8, <1>9, <1>11, <2>3, <2>4 DEF Core
<1>12. CASE funnel' = base /\ \E kept \in {draft, whole} : intents' = Append(intents, kept)
  BY <1>8, <1>9, <1>12 DEF Core
<1>13. \/ made = "VIEW" /\ intents' = Append(intents, whole)
          /\ funnel' = MarkedWithIntent(base, s, "APPROVAL", Len(intents'))
       \/ funnel' = base /\ \E kept \in {draft, whole} : intents' = Append(intents, kept)
  BY DEF Draft, draft, whole
<1> QED
  BY <1>11, <1>12, <1>13

LEMMA DesignTradeCore ==
  ASSUME Core, NEW s \in Strategies \union {None}, NEW made, DesignTrade(s, made)
  PROVE  Core'
<1>1. CASE ~Researched(funnel, s)
  BY <1>1, CoreStays DEF DesignTrade, Says
<1>2. CASE Researched(funnel, s)
  <2>1. s \in Strategies
    BY <1>2 DEF Researched
  <2>2. CASE funnel.selected[s] = None
    <3>1. GenerateImplementations(s, made)
      BY <1>2, <2>2 DEF DesignTrade, None
    <3> QED
      BY <3>1, ImplementationsCore
  <2>3. CASE funnel.selected[s] = "VEHICLE"
    <3>1. Draft(funnel, s, made) /\ theses' = theses /\ focus' = focus
      BY <1>2, <2>3 DEF DesignTrade, None
    <3>2. Sound(funnel, theses, intents) /\ Keeps(funnel, funnel)
          /\ focus' \in Strategies \union {None}
      BY <3>1 DEF Core, Keeps
    <3> QED
      BY <2>1, <2>3, <3>1, <3>2, DraftCore
  <2>4. CASE funnel.selected[s] \notin {None, "VEHICLE"}
    BY <1>2, <2>4, CoreStays DEF DesignTrade, Says
  <2> QED
    BY <2>2, <2>3, <2>4
<1> QED
  BY <1>1, <1>2

LEMMA SelectCore ==
  ASSUME Core, NEW s \in Strategies \union {None}, NEW kind \in Kinds, NEW made,
         SelectImplementation(s, kind, made)
  PROVE  Core'
<1>1. CASE s = None
  BY <1>1, CoreStays DEF SelectImplementation, Says
<1>2. CASE s # None /\ funnel.alternatives[s] = {}
  <2>1. GenerateImplementations(s, made)
    BY <1>2 DEF SelectImplementation, GenerateImplementations
  <2> QED
    BY <2>1, ImplementationsCore
<1>3. CASE s # None /\ funnel.alternatives[s] # {} /\ kind \in funnel.alternatives[s]
  <2> DEFINE chosen == WithSelection(funnel, s, kind)
  <2>1. s \in Strategies /\ SelectThenDesign(s, kind, made)
    BY <1>3 DEF SelectImplementation
  <2>2. /\ Sound(chosen, theses, intents)
        /\ Keeps(funnel, chosen)
        /\ chosen.selected[s] = kind
    BY <1>3, <2>1, SelectionSound DEF Core
  <2>3. focus' = s /\ theses' = theses
    BY <2>1 DEF SelectThenDesign
  <2>4. \/ kind = "VEHICLE" /\ Draft(chosen, s, made)
        \/ funnel' = chosen /\ intents' = intents
    BY <2>1 DEF SelectThenDesign
  <2> HIDE DEF chosen
  <2>5. CASE kind = "VEHICLE" /\ Draft(chosen, s, made)
    BY <2>1, <2>2, <2>3, <2>5, DraftCore
  <2>6. CASE funnel' = chosen /\ intents' = intents
    BY <2>1, <2>2, <2>3, <2>6, FunnelOnly DEF ledgerVars
  <2> QED
    BY <2>4, <2>5, <2>6
<1>4. CASE s # None /\ funnel.alternatives[s] # {} /\ kind \notin funnel.alternatives[s]
  BY <1>4, CoreStays DEF SelectImplementation, Says
<1> QED
  BY <1>1, <1>2, <1>3, <1>4

LEMMA CatalystCore ==
  ASSUME Core, NEW call, NEW made, PlanCatalyst(call, made)
  PROVE  Core'
<1>1. UNCHANGED <<funnel, focus, ledgerVars>>
  BY DEF PlanCatalyst, Says
<1> QED
  BY <1>1, CoreStays

LEMMA LooksCore ==
  ASSUME Core, NEW made, Looks(made) \/ Says(made) \/ DesignCatalystTrade(made)
  PROVE  Core'
BY CoreStays DEF Looks, Says, DesignCatalystTrade

LEMMA FirstOrNone ==
  ASSUME Core, NEW among \in SUBSET Strategies
  PROVE  First(funnel, among) \in Strategies \union {None}
BY FirstIsOne DEF Core, Sound, First

LEMMA Resolved ==
  ASSUME Core, NEW named \in Strategies \union {None}
  PROVE  Resolve(named) \in Strategies \union {None}
<1> DEFINE viable == {s \in Keys(funnel) : ~funnel.positions[s].blocked}
<1>1. Keys(funnel) \in SUBSET Strategies /\ viable \in SUBSET Strategies
  BY DEF Keys
<1>2. /\ First(funnel, Keys(funnel)) \in Strategies \union {None}
      /\ First(funnel, viable) \in Strategies \union {None}
  BY <1>1, FirstOrNone
<1>3. focus \in Strategies \union {None}
  BY DEF Core
<1> HIDE DEF viable
<1>4. Resolve(named) \in {named, focus, First(funnel, viable), First(funnel, Keys(funnel))}
  BY DEF Resolve, viable
<1> QED
  BY <1>2, <1>3, <1>4

LEMMA RunCore ==
  ASSUME Core, NEW call \in Producers, NEW made, Run(call, made)
  PROVE  Core'
<1>1. Resolve(call.strategy) \in Strategies \union {None}
  BY Resolved DEF Producers
<1>2. call.name \in {"catalyst", "design_trade", "design_catalyst", "open_thesis"}
  BY DEF Producers
<1>3. CASE call.name = "catalyst"
  BY <1>3, CatalystCore DEF Run
<1>4. CASE call.name = "design_trade"
  BY <1>1, <1>4, DesignTradeCore DEF Run
<1>5. CASE call.name = "design_catalyst"
  BY <1>5, LooksCore DEF Run
<1>6. CASE call.name = "open_thesis"
  BY <1>1, <1>6, OpenThesisCore DEF Run
<1> QED
  BY <1>2, <1>3, <1>4, <1>5, <1>6

LEMMA HeadOf ==
  ASSUME NEW S, NEW list \in Seq(S), list # <<>>
  PROVE  Head(list) \in S
OBVIOUS

LEMMA ContinueCore ==
  ASSUME Core, NEW made, Continue(made)
  PROVE  Core'
<1> DEFINE having(field) == {s \in Keys(funnel) : funnel.positions[s][field] # 0}
<1>1. Keys(funnel) \in SUBSET Strategies /\ having("thesis") \in SUBSET Strategies
  BY DEF Keys
<1>2. First(funnel, having("thesis")) \in Strategies \union {None}
  BY <1>1, FirstOrNone
<1>3. Keys(funnel) # {} => First(funnel, Keys(funnel)) \in Strategies
  BY <1>1, FirstIsOne DEF Core, Sound
<1>4. funnel.syntheses # <<>> => Head(funnel.syntheses).strategy \in Strategies
  <2>1. funnel.syntheses \in Seq([strategy : Strategies, usable : BOOLEAN])
    BY DEF Core, Sound, Funnels
  <2>2. funnel.syntheses # <<>> =>
          Head(funnel.syntheses) \in [strategy : Strategies, usable : BOOLEAN]
    BY <2>1, HeadOf
  <2> QED
    BY <2>2
<1>5. \/ Looks(made)
      \/ DesignTrade(First(funnel, having("thesis")), made)
      \/ funnel.syntheses # <<>> /\ OpenThesis(Head(funnel.syntheses).strategy, made)
      \/ Keys(funnel) # {} /\ Synthesize(First(funnel, Keys(funnel)), made)
      \/ Says(made)
  BY DEF Continue
<1> HIDE DEF having
<1> QED
  BY <1>2, <1>3, <1>4, <1>5, LooksCore, DesignTradeCore, OpenThesisCore, SynthesizeCore

-----------------------------------------------------------------------------
(* Turns, refreshes, changes of a field and restarts.                      *)

(* A turn adds at most the view it made.                                   *)
LEMMA PlainViews ==
  ASSUME ViewsOK, NEW tracked \in Seq(Producers), NEW made, Plain(tracked, made)
  PROVE  ViewsOK'
<1>1. views' \in {views, views \o tracked} /\ refreshing' = refreshing
  BY DEF Plain, Ends
<1>2. views \o tracked \in Seq(Producers) /\ DOMAIN views \in SUBSET DOMAIN (views \o tracked)
  BY DEF ViewsOK
<1> QED
  BY <1>1, <1>2 DEF ViewsOK

LEMMA Tracked ==
  /\ <<>> \in Seq(Producers)
  /\ \A call \in Producers : <<call>> \in Seq(Producers)
OBVIOUS

LEMMA CallsAreProducers ==
  /\ \A matched \in BOOLEAN : Catalyst(matched) \in Producers
  /\ \A s \in Strategies \union {None} :
       \A name \in {"design_trade", "design_catalyst", "open_thesis"} : Call(name, s) \in Producers
BY DEF Catalyst, Call, Producers

LEMMA SendStep ==
  ASSUME AgentInv, Send
  PROVE  AgentInv'
<1> USE DEF AgentInv
<1> DEFINE Named == Strategies \union {None}
<1>1. ASSUME NEW call \in Producers, SendCatalyst(call) PROVE AgentInv'
  BY <1>1, CatalystCore, PlainViews, Tracked DEF SendCatalyst
<1>2. CASE \E matched \in BOOLEAN : SendCatalyst(Catalyst(matched))
  BY <1>1, <1>2, CallsAreProducers
<1>4. CASE \E found \in Searches : SendGenerate(found)
  BY <1>4, GenerateCore, PlainViews, Tracked DEF SendGenerate
<1>5. ASSUME NEW named \in Named, SendSynthesize(named) PROVE AgentInv'
  <2>1. Resolve(named) \in Strategies \union {None}
    BY Resolved
  <2>2. PICK made \in Endings :
          /\ IF Resolve(named) = None THEN Says(made) ELSE Synthesize(Resolve(named), made)
          /\ Plain(<<>>, made)
    BY <1>5 DEF SendSynthesize
  <2> QED
    BY <2>1, <2>2, LooksCore, SynthesizeCore, PlainViews, Tracked
<1>6. ASSUME NEW named \in Named, SendOpenThesis(named) PROVE AgentInv'
  <2>1. Resolve(named) \in Strategies \union {None}
    BY Resolved
  <2>2. PICK made \in Endings :
          OpenThesis(Resolve(named), made) /\ Plain(<<Call("open_thesis", named)>>, made)
    BY <1>6 DEF SendOpenThesis
  <2> QED
    BY <2>1, <2>2, OpenThesisCore, PlainViews, Tracked, CallsAreProducers
<1>7. ASSUME NEW named \in Named, SendGenerateImplementations(named) PROVE AgentInv'
  <2>1. Resolve(named) \in Strategies \union {None}
    BY Resolved
  <2>2. PICK made \in Endings :
          GenerateImplementations(Resolve(named), made) /\ Plain(<<>>, made)
    BY <1>7 DEF SendGenerateImplementations
  <2> QED
    BY <2>1, <2>2, ImplementationsCore, PlainViews, Tracked
<1>8. ASSUME NEW named \in Named, SendDesignTrade(named) PROVE AgentInv'
  <2>1. Resolve(named) \in Strategies \union {None}
    BY Resolved
  <2>2. PICK made \in Endings :
          DesignTrade(Resolve(named), made) /\ Plain(<<Call("design_trade", named)>>, made)
    BY <1>8 DEF SendDesignTrade
  <2> QED
    BY <2>1, <2>2, DesignTradeCore, PlainViews, Tracked, CallsAreProducers
<1>9. ASSUME NEW named \in Named, NEW kind \in Kinds, SendSelect(named, kind) PROVE AgentInv'
  <2>1. Resolve(named) \in Strategies \union {None}
    BY Resolved
  <2>2. PICK made \in Endings :
          SelectImplementation(Resolve(named), kind, made) /\ Plain(<<>>, made)
    BY <1>9 DEF SendSelect
  <2> QED
    BY <2>1, <2>2, SelectCore, PlainViews, Tracked
<1>10. CASE SendDesignCatalyst
  <2>1. Call("design_catalyst", None) \in Producers
    BY CallsAreProducers
  <2> QED
    BY <1>10, <2>1, LooksCore, PlainViews, Tracked DEF SendDesignCatalyst
<1>11. CASE SendProceed
  <2>1. CASE SendCatalyst(Catalyst(FALSE))
    BY <1>1, <2>1, CallsAreProducers
  <2>2. CASE \E made \in Endings : Continue(made) /\ Plain(<<>>, made)
    BY <2>2, ContinueCore, PlainViews, Tracked
  <2> QED
    BY <1>11, <2>1, <2>2 DEF SendProceed
<1>12. CASE SendLook
  <2>1. CASE Looks("VIEW") /\ Plain(<<>>, "VIEW")
    BY <2>1, LooksCore, PlainViews, Tracked
  <2>2. CASE UNCHANGED <<funnel, focus, deskVars, ledgerVars>> /\ Plain(<<>>, "RAISED")
    BY <2>2, CoreStays, PlainViews, Tracked
  <2> QED
    BY <1>12, <2>1, <2>2 DEF SendLook
<1> QED
  BY <1>2, <1>4, <1>5, <1>6, <1>7, <1>8, <1>9, <1>10, <1>11, <1>12 DEF Send

(* The least of the places of some views is one of them.                   *)
LEMMA LeastView ==
  ASSUME NEW n \in Nat, NEW places \in SUBSET (1..n), places # {}
  PROVE  Min(places) \in places /\ \A j \in places : Min(places) <= j
<1> DEFINE below == {pair \in Nat \X Nat : pair[1] < pair[2]}
<1>1. IsWellFoundedOn(below, Nat) /\ places \in SUBSET Nat
  BY NatLessThanWellFounded DEF OpToRel
<1>2. PICK k \in places : \A j \in places : <<j, k>> \notin below
  <2> HIDE DEF below
  <2> QED BY <1>1, WFMin
<1>3. \A j \in places : k <= j
  <2> TAKE j \in places
  <2>1. <<j, k>> \notin below /\ j \in Nat /\ k \in Nat
    BY <1>1, <1>2
  <2> QED
    BY <2>1
<1> QED
  BY <1>3 DEF Min

(* The view made anew takes the last place; the others keep their order.   *)
LEMMA Replaced ==
  ASSUME NEW S, NEW list \in Seq(S), NEW k \in DOMAIN list
  PROVE  /\ RemoveAt(list, k) \o <<list[k]>> \in Seq(S)
         /\ DOMAIN (RemoveAt(list, k) \o <<list[k]>>) = DOMAIN list
<1>1. k \in 1..Len(list) /\ Len(list) \in Nat /\ list[k] \in S
  OBVIOUS
<1> DEFINE before == SubSeq(list, 1, k - 1)
           after == SubSeq(list, k + 1, Len(list))
<1>2. before \in Seq(S) /\ Len(before) = k - 1
  BY <1>1
<1>3. after \in Seq(S) /\ Len(after) = Len(list) - k
  BY <1>1
<1> HIDE DEF before, after
<1>4. /\ (before \o after) \o <<list[k]>> \in Seq(S)
      /\ Len((before \o after) \o <<list[k]>>) = Len(list)
  BY <1>1, <1>2, <1>3
<1> QED
  BY <1>4 DEF RemoveAt, before, after

LEMMA RefreshStep ==
  ASSUME AgentInv, Refresh
  PROVE  AgentInv'
<1> USE DEF AgentInv
<1> DEFINE k == Min(refreshing)
           rest == refreshing \ {k}
           replaced == RemoveAt(views, k)
<1>1. Len(views) \in Nat /\ DOMAIN views = 1..Len(views)
      /\ refreshing \in SUBSET (1..Len(views)) /\ refreshing # {}
  BY DEF ViewsOK, Refresh
<1>2. k \in refreshing /\ \A j \in refreshing : k <= j
  BY <1>1, LeastView
<1> HIDE DEF k
<1>3. PICK made \in Endings :
        /\ Run(views[k], made)
        /\ Ends(made, <<views[k]>>, replaced)
        /\ refreshing' = IF ~Passed(made) THEN {}
                         ELSE IF made = "VIEW" THEN {j - 1 : j \in rest} ELSE rest
  BY DEF Refresh, k
<1>4. k \in DOMAIN views /\ views[k] \in Producers /\ views \in Seq(Producers)
  BY <1>1, <1>2 DEF ViewsOK
<1>5. Core'
  BY <1>3, <1>4, RunCore
<1>6. /\ replaced \o <<views[k]>> \in Seq(Producers)
      /\ DOMAIN (replaced \o <<views[k]>>) = DOMAIN views
  BY <1>4, Replaced
<1> HIDE DEF replaced
<1>7. views' \in Seq(Producers) /\ DOMAIN views' = DOMAIN views
  BY <1>3, <1>4, <1>6 DEF Ends
<1>8. \A j \in rest : j \in 1..Len(views) /\ j - 1 \in 1..Len(views)
  BY <1>1, <1>2
<1>9. refreshing' \in SUBSET (1..Len(views))
  BY <1>3, <1>8
<1> QED
  BY <1>1, <1>5, <1>7, <1>9 DEF ViewsOK

LEMMA EmptySound == ASSUME NEW th, NEW in PROVE Sound(EmptyFunnel, th, in)
<1>1. EmptyFunnel \in Funnels
  <2>1. NewPosition \in Positions
    BY DEF NewPosition, Positions, StageNames
  <2>2. <<>> \in Seq([strategy : Strategies, usable : BOOLEAN])
    OBVIOUS
  <2> QED
    BY <2>1, <2>2 DEF EmptyFunnel, Funnels
<1>2. \A s \in Strategies :
        /\ EmptyFunnel.positions[s].thesis = 0
        /\ EmptyFunnel.positions[s].stage = "STRATEGY_GENERATION"
        /\ EmptyFunnel.alternatives[s] = {}
        /\ EmptyFunnel.selected[s] = None
  BY DEF EmptyFunnel, NewPosition
<1>3. \A s \in Strategies, n \in {3, 4, 5, 7} : ~At(EmptyFunnel, s, n) /\ ~Usable(EmptyFunnel, s)
  BY <1>2, StageNumbers DEF At, Usable, Contains, EmptyFunnel
<1>4. \A s \in Strategies : Earned(EmptyFunnel, th, in, s)
  BY <1>2, <1>3 DEF Earned
<1> QED
  BY <1>1, <1>4 DEF Sound

LEMMA AgentInitInv == AgentInit => AgentInv
<1> SUFFICES ASSUME AgentInit PROVE AgentInv
  OBVIOUS
<1>1. funnel = EmptyFunnel /\ focus = None /\ theses = <<>> /\ intents = <<>>
      /\ views = <<>> /\ refreshing = {}
  BY DEF AgentInit
<1>2. Core
  BY <1>1, EmptySound DEF Core
<1> QED
  BY <1>1, <1>2 DEF AgentInv, ViewsOK

LEMMA ClearedSound ==
  ASSUME NEW f, NEW th, NEW in, Sound(f, th, in)
  PROVE  Sound(Cleared(f), th, in) /\ Keeps(f, Cleared(f))
<1> DEFINE g == Cleared(f)
<1>1. f \in Funnels
  BY DEF Sound
<1>2. <<>> \in Seq([strategy : Strategies, usable : BOOLEAN])
  OBVIOUS
<1>3. /\ g \in Funnels /\ g.order = f.order /\ g.positions = f.positions
      /\ g.syntheses = <<>> /\ g.evidenced = f.evidenced
      /\ g.alternatives = f.alternatives /\ g.selected = f.selected
  BY <1>1, <1>2 DEF Cleared, Funnels
<1> HIDE DEF g
<1>4. \A s \in Strategies : ~Usable(g, s)
  BY <1>3 DEF Usable, Contains
<1>5. \A s \in Strategies : Earned(g, th, in, s)
  <2> TAKE s \in Strategies
  <2>1. Earned(f, th, in, s)
    BY DEF Sound
  <2> QED
    BY <1>3, <1>4, <2>1 DEF Earned, At, Placed, Keys
<1> QED
  BY <1>3, <1>5 DEF Sound, Keeps, g

LEMMA RegimeStep ==
  ASSUME AgentInv, RegimeChanges
  PROVE  AgentInv'
<1>1. funnel' = Cleared(funnel) /\ UNCHANGED <<focus, theses, intents, views, refreshing>>
  BY DEF RegimeChanges, ledgerVars
<1>2. theses \in Seq(Thesis)
  BY DEF AgentInv, Core
<1>3. Sound(funnel', theses', intents) /\ Keeps(funnel, funnel')
  BY <1>1, ClearedSound DEF AgentInv, Core
<1>4. Extends(theses, theses') /\ theses' \in Seq(Thesis)
  BY <1>1, <1>2, SameExtends
<1>5. Core'
  BY <1>1, <1>3, <1>4, CoreKept DEF AgentInv, Core
<1> QED
  BY <1>1, <1>5 DEF AgentInv, ViewsOK

LEMMA ReopenedStep ==
  ASSUME AgentInv, ProjectReopened
  PROVE  AgentInv'
<1>1. UNCHANGED <<funnel, theses, intents>> /\ focus' = None /\ views' = <<>> /\ refreshing' = {}
  BY DEF ProjectReopened, Agentless, ledgerVars
<1>2. Core'
  BY <1>1 DEF AgentInv, Core
<1> QED
  BY <1>1, <1>2 DEF AgentInv, ViewsOK

LEMMA RestartStep ==
  ASSUME AgentInv, HostRestarts \/ ConsoleRestarts
  PROVE  AgentInv'
<1>1. /\ funnel' = EmptyFunnel /\ focus' = None /\ theses' \in {theses, <<>>} /\ intents' = <<>>
      /\ views' = <<>> /\ refreshing' = {} /\ theses \in Seq(Thesis)
  BY DEF HostRestarts, ConsoleRestarts, Memoryless, Agentless, AgentInv, Core
<1>2. Sound(funnel', theses', intents')
  BY <1>1, EmptySound
<1>3. theses' \in Seq(Thesis) /\ intents' \in Seq(Intent) /\ DOMAIN intents' = {}
  <2>1. \A S : <<>> \in Seq(S)
    OBVIOUS
  <2>2. DOMAIN <<>> = {}
    OBVIOUS
  <2>3. theses' \in Seq(Thesis)
    BY <1>1, <2>1, Zenon
  <2>4. intents' = <<>>
    BY <1>1
  <2> QED
    BY <2>1, <2>2, <2>3, <2>4, Zenon
<1>4. focus' \in Strategies \union {None}
  BY <1>1
<1>5. \A k \in DOMAIN intents' : Grounded(funnel', theses', intents'[k])
  BY <1>3
<1>6. Core'
  BY <1>2, <1>3, <1>4, <1>5 DEF Core
<1> QED
  BY <1>1, <1>6 DEF AgentInv, ViewsOK

LEMMA FieldStep ==
  ASSUME AgentInv, NEW field \in Fields, FieldDelivered(field)
  PROVE  AgentInv'
<1>1. UNCHANGED <<funnel, focus, ledgerVars, views>>
  BY DEF FieldDelivered
<1>2. refreshing' \in {refreshing, Affected(field)}
  BY DEF FieldDelivered
<1>3. refreshing' \in SUBSET DOMAIN views
  BY <1>2 DEF AgentInv, ViewsOK, Affected
<1>4. Core'
  BY <1>1, CoreStays DEF AgentInv
<1> QED
  BY <1>1, <1>3, <1>4 DEF AgentInv, ViewsOK

LEMMA AgentStep == AgentInv /\ [AgentNext]_agentVars => AgentInv'
<1> SUFFICES ASSUME AgentInv, [AgentNext]_agentVars PROVE AgentInv'
  OBVIOUS
<1>1. CASE Send
  BY <1>1, SendStep
<1>2. CASE Refresh
  BY <1>2, RefreshStep
<1>3. CASE RegimeChanges
  BY <1>3, RegimeStep
<1>4. CASE ProjectReopened
  BY <1>4, ReopenedStep
<1>5. CASE HostRestarts \/ ConsoleRestarts
  BY <1>5, RestartStep
<1>6. CASE \E field \in Fields : FieldDelivered(field)
  BY <1>6, FieldStep
<1>7. CASE UNCHANGED agentVars
  BY <1>7, CoreStays DEF AgentInv, ViewsOK, agentVars
<1> QED
  BY <1>1, <1>2, <1>3, <1>4, <1>5, <1>6, <1>7 DEF AgentNext

(* Every reachable state has it.                                           *)
THEOREM AgentSafe == AgentSpec => []AgentInv
BY AgentInitInv, AgentStep, PTL DEF AgentSpec

(* What raised on the way, and what became of regime and agent since, left *)
(* no intent without its thesis on file, a synthesis that was usable and   *)
(* the vehicle that was offered, for any strategies, any number of turns,  *)
(* and any appends that raise.                                             *)
THEOREM GroundedIntents == AgentSpec => []IntentsAreGrounded
<1>1. AgentInv => IntentsAreGrounded
  BY DEF AgentInv, Core, Grounded, OnFile, IntentsAreGrounded
<1> QED
  BY <1>1, AgentSafe, PTL

(* No position is at a stage that it has not earned, though the regime may *)
(* have taken the synthesis it was earned with.                            *)
THEOREM EarnedStages == AgentSpec => []StagesAreEarned
<1>1. AgentInv => StagesAreEarned
  <2> SUFFICES ASSUME AgentInv PROVE StagesAreEarned
    OBVIOUS
  <2>1. \A s \in Strategies : Earned(funnel, theses, intents, s)
    BY DEF AgentInv, Core, Sound
  <2>2. \A s \in Strategies : StageIndex(funnel.positions[s].stage) \in 1..8
    BY StageNumber DEF AgentInv, Core, Sound, Funnels, Positions
  <2>3. \A s \in Strategies :
          /\ Reached(s, "EVIDENCE_REVIEW") => At(funnel, s, 3)
          /\ Reached(s, "IMPLEMENTATION_GENERATION") => At(funnel, s, 4)
          /\ Reached(s, "IMPLEMENTATION_SELECTED") => At(funnel, s, 5)
          /\ Reached(s, "APPROVAL") => At(funnel, s, 7)
    BY StageNumbers DEF Reached, At
  <2> QED
    BY <2>1, <2>3 DEF StagesAreEarned, Earned, OnFile, Previewed
<1> QED
  BY <1>1, AgentSafe, PTL

(* The gate: whatever handlers do, as long as no turn raises and no agent  *)
(* is made anew, what is shown is of the state the project is in.          *)
LEMMA WorkflowStays == UNCHANGED <<funnel, focus>> => Workflow' = Workflow
BY DEF Workflow, Watched, First, Keys, Placed

LEMMA WorkflowOfCleared == funnel' = Cleared(funnel) /\ UNCHANGED focus /\ funnel \in Funnels => Workflow' = Workflow
<1> SUFFICES ASSUME funnel' = Cleared(funnel), focus' = focus, funnel \in Funnels PROVE Workflow' = Workflow
  OBVIOUS
<1>1. funnel'.order = funnel.order /\ funnel'.positions = funnel.positions
  BY DEF Cleared, Funnels
<1> QED
  BY <1>1 DEF Workflow, Watched, First, Keys, Placed

LEMMA NewWorkflow ==
  ASSUME funnel = EmptyFunnel, focus = None
  PROVE  Workflow = "NEW"
<1>1. Keys(funnel) = {}
  BY DEF Keys, EmptyFunnel
<1> QED
  BY <1>1 DEF Workflow, Watched, First

LEMMA EndsCurrent ==
  ASSUME ShownIsCurrent, NEW made \in Endings, NEW tracked, NEW replaced,
         Ends(made, tracked, replaced)
  PROVE  ShownIsCurrent'
<1>1. CASE Passed(made) /\ made = "VIEW"
  BY <1>1 DEF Ends, ShownIsCurrent
<1>2. CASE Passed(made) /\ made = "PROSE"
  BY <1>2 DEF Ends, Passed, GatePasses, ShownIsCurrent
<1>3. CASE ~Passed(made)
  BY <1>3 DEF Ends, ShownIsCurrent
<1> QED
  BY <1>1, <1>2, <1>3 DEF Endings, Passed

THEOREM CurrentView == AgentSpec => []ShownIsCurrent
<1>1. AgentInit => ShownIsCurrent
  BY NewWorkflow DEF AgentInit, ShownIsCurrent
<1>2. AgentInv /\ ShownIsCurrent /\ [AgentNext]_agentVars => ShownIsCurrent'
  <2> SUFFICES ASSUME AgentInv, ShownIsCurrent, [AgentNext]_agentVars PROVE ShownIsCurrent'
    OBVIOUS
  <2>1. ASSUME NEW tracked, NEW made \in Endings, Plain(tracked, made) PROVE ShownIsCurrent'
    BY <2>1, EndsCurrent DEF Plain
  <2>2. CASE Send
    <3>1. \E tracked : \E made \in Endings : Plain(tracked, made)
      BY <2>2 DEF Send, SendCatalyst, SendGenerate, SendSynthesize,
                  SendOpenThesis, SendGenerateImplementations, SendDesignTrade, SendSelect,
                  SendDesignCatalyst, SendProceed, SendLook, Endings
    <3> QED
      BY <2>1, <3>1
  <2>3. CASE Refresh
    BY <2>3, EndsCurrent DEF Refresh
  <2>4. CASE RegimeChanges
    <3>1. Workflow' = Workflow /\ shown' = shown
      BY <2>4, WorkflowOfCleared DEF RegimeChanges, AgentInv, Core, Sound
    <3> QED
      BY <3>1 DEF ShownIsCurrent
  <2>5. CASE ProjectReopened
    BY <2>5 DEF ProjectReopened, ShownIsCurrent
  <2>6. CASE HostRestarts \/ ConsoleRestarts
    <3>1. funnel' = EmptyFunnel /\ focus' = None
      BY <2>6 DEF HostRestarts, ConsoleRestarts, Memoryless, Agentless
    <3>2. Keys(funnel') = {}
      BY <3>1 DEF Keys, EmptyFunnel
    <3>3. Workflow' = "NEW"
      BY <3>1, <3>2 DEF Workflow, Watched, First
    <3> QED
      BY <2>6, <3>3 DEF HostRestarts, ConsoleRestarts, Memoryless, ShownIsCurrent
  <2>7. CASE UNCHANGED <<funnel, focus, shown>>
    BY <2>7, WorkflowStays DEF ShownIsCurrent
  <2> QED
    BY <2>2, <2>3, <2>4, <2>5, <2>6, <2>7 DEF AgentNext, FieldDelivered, agentVars
<1> QED
  BY <1>1, <1>2, AgentSafe, PTL DEF AgentSpec
=============================================================================
