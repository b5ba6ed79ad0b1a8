--------------------------- MODULE LearningProofs ---------------------------
(* Machine-checked proofs about ModelRegistry, for any finite set of model *)
(* ids and any number of cards; about Learning, for any theses; about      *)
(* WalkForward, for any datasets and windows; and about Analogs, for any   *)
(* events, setups and cards of models.                                     *)
EXTENDS Learning, WalkForward, Analogs, Sums

-----------------------------------------------------------------------------
(* Operators of the model.                                                 *)

(* A set of places that has a member has a first one.                      *)
LEMMA LeastPlace ==
  ASSUME NEW places \in SUBSET Nat, places # {}
  PROVE  \E k \in places : \A j \in places : k <= j
<1> DEFINE below == {pair \in Nat \X Nat : pair[1] < pair[2]}
<1>1. IsWellFoundedOn(below, Nat)
  BY NatLessThanWellFounded DEF OpToRel
<1>2. PICK k \in places : \A j \in places : <<j, k>> \notin below
  <2> HIDE DEF below
  <2> QED BY <1>1, WFMin
<1>3. \A j \in places : ~ (j < k)
  BY <1>2
<1> QED
  BY <1>3

(* What FirstOf returns is one of the places, or 0 when there is none.     *)
LEMMA FirstPlace ==
  ASSUME NEW places \in SUBSET (Nat \ {0})
  PROVE  /\ FirstOf(places) \in places \union {0}
         /\ FirstOf(places) = 0 <=> places = {}
<1>1. CASE places = {}
  BY <1>1 DEF FirstOf
<1>2. CASE places # {}
  BY <1>2, LeastPlace DEF FirstOf
<1> QED
  BY <1>1, <1>2

(* The places of a list have a last one.                                   *)
LEMMA LastPlace ==
  ASSUME NEW n \in Nat, NEW places \in SUBSET (1..n), places # {}
  PROVE  LastOf(places) \in places
<1> DEFINE mirrored == {n - k : k \in places}
<1>1. mirrored \in SUBSET Nat /\ mirrored # {}
  <2>1. \A k \in places : k \in 1..n
    OBVIOUS
  <2>2. \A k \in places : n - k \in Nat
    BY <2>1
  <2>3. mirrored \in SUBSET Nat
    BY <2>2
  <2>4. mirrored # {}
    OBVIOUS
  <2> QED
    BY <2>3, <2>4
<1>2. PICK m \in mirrored : \A j \in mirrored : m <= j
  BY <1>1, LeastPlace
<1>3. PICK k \in places : m = n - k
  BY <1>2
<1>4. \A j \in places : j <= k
  <2> TAKE j \in places
  <2>1. n - k <= n - j
    BY <1>2, <1>3
  <2> QED
    BY <2>1
<1> QED
  BY <1>4 DEF LastOf

(* The place of an id's card.                                              *)
LEMMA CardPlace ==
  ASSUME RegistryTypeOK, NEW id \in Ids
  PROVE  /\ Card(id) \in DOMAIN cards \union {0}
         /\ Card(id) # 0 => cards[Card(id)].id = id
         /\ Card(id) = 0 <=> \A k \in DOMAIN cards : cards[k].id # id
<1>1. DOMAIN cards \in SUBSET (Nat \ {0})
  BY DEF RegistryTypeOK
<1> DEFINE own == {k \in DOMAIN cards : cards[k].id = id}
<1>2. own \in SUBSET (Nat \ {0})
  BY <1>1
<1>3. Card(id) \in own \union {0} /\ (Card(id) = 0 <=> own = {})
  BY <1>2, FirstPlace DEF Card
<1> QED
  BY <1>1, <1>3

(* The place of a list's first challenger.                                 *)
LEMMA ChallengerPlace ==
  ASSUME NEW list \in Seq(CardType)
  PROVE  /\ GetChallenger(list) \in DOMAIN list \union {0}
         /\ GetChallenger(list) # 0 => list[GetChallenger(list)].status = "challenger"
<1> DEFINE places == {k \in DOMAIN list : list[k].status = "challenger"}
<1>1. places \in SUBSET (Nat \ {0})
  OBVIOUS
<1>2. GetChallenger(list) \in places \union {0}
  BY <1>1, FirstPlace DEF GetChallenger
<1> QED
  BY <1>2

(* A list in which one card's status is changed.                           *)
LEMMA PutList ==
  ASSUME NEW list \in Seq(CardType), NEW k \in DOMAIN list, NEW s \in Statuses
  PROVE  /\ Put(list, k, s) \in Seq(CardType)
         /\ Len(Put(list, k, s)) = Len(list)
         /\ DOMAIN Put(list, k, s) = DOMAIN list
         /\ \A j \in DOMAIN list :
              /\ Put(list, k, s)[j] = IF j = k THEN [id |-> list[k].id, status |-> s] ELSE list[j]
              /\ Put(list, k, s)[j].id = list[j].id
<1> DEFINE changed == [id |-> list[k].id, status |-> s]
<1>1. changed \in CardType
  <2>1. list[k] \in CardType
    OBVIOUS
  <2> QED
    BY <2>1 DEF CardType
<1>2. Put(list, k, s) = [list EXCEPT ![k] = changed]
  BY DEF Put
<1> HIDE DEF changed
<1>3. [list EXCEPT ![k] = changed] \in Seq(CardType)
  BY <1>1
<1> QED
  BY <1>2, <1>3 DEF changed

-----------------------------------------------------------------------------
(* Writing.                                                                *)

(* A file holds what it held or one of the cards written to it.            *)
LEMMA FilesAfterSaved ==
  ASSUME RegistryTypeOK, NEW list \in Seq(CardType), NEW id \in Ids
  PROVE  \/ FilesAfter(list)[id] = files[id] /\ \A j \in DOMAIN list : list[j].id # id
         \/ \E j \in DOMAIN list : list[j].id = id /\ FilesAfter(list)[id] = list[j]
<1> DEFINE own == {j \in DOMAIN list : list[j].id = id}
<1>1. FilesAfter(list)[id] = IF own = {} THEN files[id] ELSE list[LastOf(own)]
  BY DEF FilesAfter
<1>2. CASE own = {}
  BY <1>1, <1>2
<1>3. CASE own # {}
  <2>1. Len(list) \in Nat /\ own \in SUBSET (1..Len(list))
    OBVIOUS
  <2>2. LastOf(own) \in own
    BY <1>3, <2>1, LastPlace
  <2> QED
    BY <1>1, <1>3, <2>2
<1> QED
  BY <1>2, <1>3

FileType == CardType \union {NoFile, Unreadable}

LEMMA FilesAfterType ==
  ASSUME RegistryTypeOK, NEW list \in Seq(CardType)
  PROVE  FilesAfter(list) \in [Ids -> FileType]
<1>1. ASSUME NEW id \in Ids
      PROVE  FilesAfter(list)[id] \in FileType
  BY FilesAfterSaved DEF RegistryTypeOK, FileType
<1>2. FilesAfter(list) = [id \in Ids |-> FilesAfter(list)[id]]
  BY DEF FilesAfter
<1> QED
  BY <1>1, <1>2

(* The writes of a method, however many of them are made.                  *)
LEMMA PersistSaved ==
  ASSUME RegistryTypeOK, NEW saves \in Seq(CardType), NEW decided \in SUBSET (Ids \union {Demotion}),
         Persist(decided, saves)
  PROVE  /\ files' \in [Ids -> FileType]
         /\ decisions' \in {decisions, decisions \union decided}
         /\ up' \in BOOLEAN
         /\ failures' \in SUBSET {"DIED", "TORN", "RAISED"}
         /\ failures \subseteq failures'
         /\ up' /\ "RAISED" \notin failures' => decisions' = decisions \union decided
         /\ \A id \in Ids :
              \/ files'[id] \in {files[id], Unreadable}
              \/ /\ \E j \in DOMAIN saves : saves[j].id = id /\ files'[id] = saves[j]
                 /\ decisions' = decisions \union decided
<1>1. CASE /\ files' = FilesAfter(saves)
           /\ decisions' = decisions \union decided
           /\ UNCHANGED <<up, failures>>
  <2>1. files' \in [Ids -> FileType]
    BY <1>1, FilesAfterType
  <2>2. ASSUME NEW id \in Ids
        PROVE  \/ files'[id] \in {files[id], Unreadable}
               \/ \E j \in DOMAIN saves : saves[j].id = id /\ files'[id] = saves[j]
    BY <1>1, FilesAfterSaved
  <2> QED
    BY <1>1, <2>1, <2>2 DEF RegistryTypeOK
<1>2. ASSUME NEW n \in 0..Len(saves)
      PROVE  /\ SubSeq(saves, 1, n) \in Seq(CardType)
             /\ FilesAfter(SubSeq(saves, 1, n)) \in [Ids -> FileType]
             /\ \A id \in Ids :
                  \/ FilesAfter(SubSeq(saves, 1, n))[id] = files[id]
                  \/ \E j \in DOMAIN saves :
                       /\ saves[j].id = id
                       /\ FilesAfter(SubSeq(saves, 1, n))[id] = saves[j]
  <2> DEFINE front == SubSeq(saves, 1, n)
  <2>1. /\ front \in Seq(CardType)
        /\ DOMAIN front \subseteq DOMAIN saves
        /\ \A j \in DOMAIN front : front[j] = saves[j]
    OBVIOUS
  <2> HIDE DEF front
  <2>2. front \in Seq(CardType) /\ FilesAfter(front) \in [Ids -> FileType]
    BY <2>1, FilesAfterType
  <2>3. ASSUME NEW id \in Ids
        PROVE  \/ FilesAfter(front)[id] = files[id]
               \/ \E j \in DOMAIN saves : saves[j].id = id /\ FilesAfter(front)[id] = saves[j]
    <3>1. CASE FilesAfter(front)[id] = files[id]
      BY <3>1
    <3>2. CASE \E j \in DOMAIN front : front[j].id = id /\ FilesAfter(front)[id] = front[j]
      BY <2>1, <3>2
    <3> QED
      BY <2>1, <3>1, <3>2, FilesAfterSaved
  <2> QED
    BY <2>2, <2>3 DEF front
<1>3. ASSUME NEW how \in {"DIED", "RAISED"},
             \/ decided # {} /\ UNCHANGED <<files, decisions>>
             \/ /\ decisions' = decisions \union decided
                /\ \E n \in 0..Len(saves) - 1 : files' = FilesAfter(SubSeq(saves, 1, n)),
             up' = (how = "RAISED"),
             failures' = failures \union {how}
      PROVE  /\ files' \in [Ids -> FileType]
             /\ decisions' \in {decisions, decisions \union decided}
             /\ \A id \in Ids :
                  \/ files'[id] = files[id]
                  \/ /\ \E j \in DOMAIN saves : saves[j].id = id /\ files'[id] = saves[j]
                     /\ decisions' = decisions \union decided
  <2>1. CASE UNCHANGED <<files, decisions>>
    BY <2>1 DEF RegistryTypeOK, FileType
  <2>2. CASE /\ decisions' = decisions \union decided
             /\ \E n \in 0..Len(saves) - 1 : files' = FilesAfter(SubSeq(saves, 1, n))
    <3>1. PICK n \in 0..Len(saves) - 1 : files' = FilesAfter(SubSeq(saves, 1, n))
      BY <2>2
    <3>2. n \in 0..Len(saves)
      OBVIOUS
    <3> QED
      BY <1>2, <2>2, <3>1, <3>2
  <2> QED
    BY <1>3, <2>1, <2>2
<1>4. CASE /\ decisions' = decisions \union decided
           /\ \E n \in DOMAIN saves :
                files' = [FilesAfter(SubSeq(saves, 1, n - 1)) EXCEPT ![saves[n].id] = Unreadable]
           /\ up' \in BOOLEAN
           /\ failures' = failures \union {"TORN"}
  <2>1. PICK n \in DOMAIN saves :
          files' = [FilesAfter(SubSeq(saves, 1, n - 1)) EXCEPT ![saves[n].id] = Unreadable]
    BY <1>4
  <2> DEFINE before == FilesAfter(SubSeq(saves, 1, n - 1))
  <2>2. n - 1 \in 0..Len(saves)
    OBVIOUS
  <2>3. /\ before \in [Ids -> FileType]
        /\ \A id \in Ids : \/ before[id] = files[id]
                             \/ \E j \in DOMAIN saves : saves[j].id = id /\ before[id] = saves[j]
    BY <1>2, <2>2
  <2> HIDE DEF before
  <2>4. files' = [before EXCEPT ![saves[n].id] = Unreadable]
    BY <2>1 DEF before
  <2>5. files' \in [Ids -> FileType]
    BY <2>3, <2>4 DEF FileType
  <2>6. \A id \in Ids : files'[id] \in {before[id], Unreadable}
    BY <2>3, <2>4
  <2> QED
    BY <1>4, <2>3, <2>5, <2>6 DEF RegistryTypeOK
<1>5. CASE \E how \in {"DIED", "RAISED"} :
             /\ \/ decided # {} /\ UNCHANGED <<files, decisions>>
                \/ /\ decisions' = decisions \union decided
                   /\ \E n \in 0..Len(saves) - 1 : files' = FilesAfter(SubSeq(saves, 1, n))
             /\ up' = (how = "RAISED")
             /\ failures' = failures \union {how}
  <2>1. PICK how \in {"DIED", "RAISED"} :
          /\ \/ decided # {} /\ UNCHANGED <<files, decisions>>
             \/ /\ decisions' = decisions \union decided
                /\ \E n \in 0..Len(saves) - 1 : files' = FilesAfter(SubSeq(saves, 1, n))
          /\ up' = (how = "RAISED")
          /\ failures' = failures \union {how}
    BY <1>5
  <2>2. /\ files' \in [Ids -> FileType]
        /\ decisions' \in {decisions, decisions \union decided}
        /\ \A id \in Ids :
             \/ files'[id] = files[id]
             \/ /\ \E j \in DOMAIN saves : saves[j].id = id /\ files'[id] = saves[j]
                /\ decisions' = decisions \union decided
    BY <1>3, <2>1
  <2>3. up' => "RAISED" \in failures'
    BY <2>1
  <2>4. /\ up' \in BOOLEAN
        /\ failures \subseteq failures'
        /\ failures' \in SUBSET {"DIED", "TORN", "RAISED"}
    BY <2>1 DEF RegistryTypeOK
  <2> QED
    BY <2>2, <2>3, <2>4
<1> QED
  BY <1>1, <1>4, <1>5 DEF Persist

-----------------------------------------------------------------------------
(* Decisions.                                                              *)

(* What a promotion makes of the cards, and what it saves.                 *)
Crowned(id) ==
  IF GetChampion = 0 THEN Put(cards, Card(id), "champion")
  ELSE Put(Put(cards, Card(id), "champion"), GetChampion, "retired")

LEMMA GetChampionPlace ==
  ASSUME RegistryTypeOK
  PROVE  /\ GetChampion \in DOMAIN cards \union {0}
         /\ GetChampion # 0 => champion \in Ids /\ cards[GetChampion].id = champion
<1>1. CASE champion = None
  BY <1>1 DEF GetChampion
<1>2. CASE champion # None
  <2>1. champion \in Ids
    BY <1>2 DEF RegistryTypeOK
  <2> QED
    BY <1>2, <2>1, CardPlace DEF GetChampion
<1> QED
  BY <1>1, <1>2

LEMMA CrownedCards ==
  ASSUME RegistryTypeOK, NEW id \in Ids, Card(id) # 0
  PROVE  /\ Crowned(id) \in Seq(CardType)
         /\ DOMAIN Crowned(id) = DOMAIN cards
         /\ \A k \in DOMAIN cards :
              Crowned(id)[k] = IF k = GetChampion THEN [id |-> cards[k].id, status |-> "retired"]
                               ELSE IF k = Card(id) THEN [id |-> cards[k].id, status |-> "champion"]
                               ELSE cards[k]
<1> DEFINE first == Put(cards, Card(id), "champion")
<1>1. Card(id) \in DOMAIN cards /\ GetChampion \in DOMAIN cards \union {0}
  BY CardPlace, GetChampionPlace
<1>2. /\ first \in Seq(CardType)
      /\ DOMAIN first = DOMAIN cards
      /\ \A k \in DOMAIN cards :
           first[k] = IF k = Card(id) THEN [id |-> cards[Card(id)].id, status |-> "champion"] ELSE cards[k]
  <2>1. "champion" \in Statuses /\ cards \in Seq(CardType)
    BY DEF RegistryTypeOK, Statuses
  <2> QED
    BY <1>1, <2>1, PutList
<1> HIDE DEF first
<1>3. CASE GetChampion = 0
  <2>1. \A k \in DOMAIN cards : k # 0
    BY DEF RegistryTypeOK
  <2>2. Crowned(id) = first
    BY <1>3 DEF Crowned, first
  <2> QED
    BY <1>2, <1>3, <2>1, <2>2
<1>4. CASE GetChampion # 0
  <2>1. GetChampion \in DOMAIN first
    BY <1>1, <1>2, <1>4
  <2>2. Crowned(id) = Put(first, GetChampion, "retired")
    BY <1>4 DEF Crowned, first
  <2>3. /\ Crowned(id) \in Seq(CardType)
        /\ DOMAIN Crowned(id) = DOMAIN first
        /\ \A k \in DOMAIN first :
             Crowned(id)[k] = IF k = GetChampion THEN [id |-> first[GetChampion].id, status |-> "retired"]
                              ELSE first[k]
    <3>1. "retired" \in Statuses
      BY DEF Statuses
    <3> DEFINE both == Put(first, GetChampion, "retired")
    <3>2. /\ both \in Seq(CardType)
          /\ DOMAIN both = DOMAIN first
          /\ \A k \in DOMAIN first :
               both[k] = IF k = GetChampion THEN [id |-> first[GetChampion].id, status |-> "retired"]
                         ELSE first[k]
      BY <1>2, <2>1, <3>1, PutList
    <3> QED
      BY <2>2, <3>2
  <2>4. first[GetChampion].id = cards[GetChampion].id
    BY <1>1, <1>2, <1>4
  <2> QED
    BY <1>2, <2>3, <2>4
<1> QED
  BY <1>3, <1>4

(* What a demotion makes of the cards.                                     *)
Without(id) == IF champion = id THEN Put(cards, Card(id), "retired") ELSE cards

Succeeded(id) ==
  IF GetChallenger(Without(id)) = 0 THEN Without(id)
  ELSE Put(Without(id), GetChallenger(Without(id)), "champion")

LEMMA SucceededCards ==
  ASSUME RegistryTypeOK, NEW id \in Ids, Card(id) # 0
  PROVE  /\ Succeeded(id) \in Seq(CardType)
         /\ DOMAIN Succeeded(id) = DOMAIN cards
         /\ \A k \in DOMAIN cards : Succeeded(id)[k].id = cards[k].id
         /\ GetChallenger(Without(id)) \in DOMAIN cards \union {0}
<1>1. Card(id) \in DOMAIN cards
  BY CardPlace
<1>2. /\ Without(id) \in Seq(CardType)
      /\ DOMAIN Without(id) = DOMAIN cards
      /\ \A k \in DOMAIN cards : Without(id)[k].id = cards[k].id
  <2>1. CASE champion = id
    <3>1. "retired" \in Statuses /\ cards \in Seq(CardType)
      BY DEF Statuses, RegistryTypeOK
    <3> DEFINE list == Put(cards, Card(id), "retired")
    <3>2. /\ list \in Seq(CardType)
          /\ DOMAIN list = DOMAIN cards
          /\ \A k \in DOMAIN cards : list[k].id = cards[k].id
      BY <1>1, <3>1, PutList
    <3>3. Without(id) = list
      BY <2>1 DEF Without
    <3> QED
      BY <3>2, <3>3
  <2>2. CASE champion # id
    BY <2>2 DEF Without, RegistryTypeOK
  <2> QED
    BY <2>1, <2>2
<1>3. GetChallenger(Without(id)) \in DOMAIN cards \union {0}
  BY <1>2, ChallengerPlace
<1>4. CASE GetChallenger(Without(id)) = 0
  BY <1>2, <1>3, <1>4 DEF Succeeded
<1>5. CASE GetChallenger(Without(id)) # 0
  <2>1. GetChallenger(Without(id)) \in DOMAIN Without(id)
    BY <1>2, <1>3, <1>5
  <2> DEFINE without == Without(id)
             place   == GetChallenger(without)
  <2>2. /\ without \in Seq(CardType)
        /\ DOMAIN without = DOMAIN cards
        /\ \A k \in DOMAIN cards : without[k].id = cards[k].id
    BY <1>2
  <2>3. place \in DOMAIN without
    BY <2>1
  <2>4. Succeeded(id) = Put(without, place, "champion")
    BY <1>5 DEF Succeeded
  <2>5. "champion" \in Statuses
    BY DEF Statuses
  <2> HIDE DEF without, place
  <2>6. /\ Put(without, place, "champion") \in Seq(CardType)
        /\ DOMAIN Put(without, place, "champion") = DOMAIN without
        /\ \A k \in DOMAIN without : Put(without, place, "champion")[k].id = without[k].id
    BY <2>2, <2>3, <2>5, PutList
  <2> QED
    BY <1>3, <2>2, <2>4, <2>6
<1> QED
  BY <1>4, <1>5

(* A decision saves cards of the list it leaves.                           *)
LEMMA ChangedCards ==
  ASSUME RegistryTypeOK, NEW list \in Seq(CardType), DOMAIN list = DOMAIN cards,
         NEW id \in Ids, Card(id) # 0
  PROVE  LET saves == Changed(list, Card(id), GetChampion)
         IN  /\ saves \in Seq(CardType)
             /\ saves[1] = list[Card(id)]
             /\ 1 \in DOMAIN saves
             /\ \A j \in DOMAIN saves : \E k \in DOMAIN list : saves[j] = list[k]
             /\ GetChampion # 0 => 2 \in DOMAIN saves /\ saves[2] = list[GetChampion]
             /\ \A j \in DOMAIN saves : j = 1 \/ (GetChampion # 0 /\ saves[j] = list[GetChampion])
<1>1. Card(id) \in DOMAIN list /\ GetChampion \in DOMAIN list \union {0}
  BY CardPlace, GetChampionPlace
<1>2. CASE GetChampion = 0
  <2> DEFINE saves == <<list[Card(id)]>>
  <2>1. Changed(list, Card(id), GetChampion) = saves
    BY <1>2 DEF Changed
  <2>2. list[Card(id)] \in CardType
    BY <1>1
  <2>3. saves \in Seq(CardType) /\ saves[1] = list[Card(id)] /\ DOMAIN saves = {1}
    BY <2>2
  <2> HIDE DEF saves
  <2> QED
    BY <1>1, <1>2, <2>1, <2>3
<1>3. CASE GetChampion # 0
  <2> DEFINE saves == <<list[Card(id)], list[GetChampion]>>
  <2>1. Changed(list, Card(id), GetChampion) = saves
    BY <1>3 DEF Changed
  <2>2. list[Card(id)] \in CardType /\ list[GetChampion] \in CardType
    BY <1>1, <1>3
  <2>3. /\ saves \in Seq(CardType)
        /\ saves[1] = list[Card(id)] /\ saves[2] = list[GetChampion]
        /\ DOMAIN saves = {1, 2}
    BY <2>2
  <2> HIDE DEF saves
  <2> QED
    BY <1>1, <1>3, <2>1, <2>3
<1> QED
  BY <1>2, <1>3
-----------------------------------------------------------------------------
(* Types and the audit trail.                                              *)

(* What a restart reads.                                                   *)
LEMMA LoadedCards ==
  ASSUME RegistryTypeOK, NEW order \in SetToSeqs({id \in Ids : files[id] \in CardType})
  PROVE  LET loaded    == [k \in DOMAIN order |-> files[order[k]]]
             champions == {k \in DOMAIN loaded : loaded[k].status = "champion"}
         IN  /\ loaded \in Seq(CardType)
             /\ DOMAIN loaded = DOMAIN order
             /\ \A k \in DOMAIN order : order[k] \in Ids /\ files[order[k]] \in CardType
             /\ champions # {} => LastOf(champions) \in champions
<1> DEFINE readable == {id \in Ids : files[id] \in CardType}
           n == Cardinality(readable)
           loaded == [k \in DOMAIN order |-> files[order[k]]]
           champions == {k \in DOMAIN loaded : loaded[k].status = "champion"}
<1>1. IsFiniteSet(readable)
  BY IdsAssumption, FS_Subset
<1>2. n \in Nat
  BY <1>1, FS_CardinalityType
<1>3. order \in [1..n -> readable]
  BY DEF SetToSeqs
<1> HIDE DEF n
<1>4. /\ DOMAIN order = 1..n
      /\ \A k \in 1..n : order[k] \in Ids /\ files[order[k]] \in CardType
  BY <1>3
<1>5. loaded \in Seq(CardType) /\ DOMAIN loaded = 1..n
  BY <1>2, <1>4
<1>6. champions \subseteq 1..n
  BY <1>5
<1>7. champions # {} => LastOf(champions) \in champions
  <2> HIDE DEF champions
  <2> QED
    BY <1>2, <1>6, LastPlace
<1> QED
  BY <1>4, <1>5, <1>7

(* The status of a card on file, and of one in memory, is champion only    *)
(* after a decision on file that made it one, as long as no write raised.  *)
Made(id) == id \in decisions \/ Demotion \in decisions

Decided ==
  "RAISED" \notin failures =>
    /\ \A id \in Ids : files[id].status = "champion" => Made(id)
    /\ up => \A k \in DOMAIN cards : cards[k].status = "champion" => Made(cards[k].id)

OwnFiles == \A id \in Ids : files[id] \in CardType => files[id].id = id

DInv == RegistryTypeOK /\ OwnFiles /\ Decided

(* The champions of a list are made by the decisions and one more.         *)
Honest(list, decided) ==
  \A k \in DOMAIN list : list[k].status = "champion" =>
    list[k].id \in decisions \union decided \/ Demotion \in decisions \union decided

(* A method whose cards and writes have no champions but decided ones.     *)
LEMMA MethodInv ==
  ASSUME DInv, NEW list \in Seq(CardType), NEW saves \in Seq(CardType),
         NEW decided \in SUBSET (Ids \union {Demotion}),
         "RAISED" \notin failures => Honest(list, decided) /\ Honest(saves, decided),
         Persist(decided, saves), cards' = list,
         champion' \in Ids \union {None}, orderly' \in BOOLEAN
  PROVE  DInv'
<1>1. /\ files' \in [Ids -> FileType]
      /\ decisions' \in {decisions, decisions \union decided}
      /\ up' \in BOOLEAN
      /\ failures' \in SUBSET {"DIED", "TORN", "RAISED"}
      /\ failures \subseteq failures'
      /\ up' /\ "RAISED" \notin failures' => decisions' = decisions \union decided
      /\ \A id \in Ids :
           \/ files'[id] \in {files[id], Unreadable}
           \/ /\ \E j \in DOMAIN saves : saves[j].id = id /\ files'[id] = saves[j]
              /\ decisions' = decisions \union decided
  BY PersistSaved DEF DInv
<1>2. RegistryTypeOK'
  BY <1>1 DEF DInv, RegistryTypeOK, FileType
<1>3. Unreadable \notin CardType /\ Unreadable.status # "champion"
  BY DEF Unreadable, CardType, Statuses
<1>4. OwnFiles'
  BY <1>1, <1>3 DEF DInv, OwnFiles
<1>5. ASSUME "RAISED" \notin failures', NEW id \in Ids, files'[id].status = "champion"
      PROVE  Made(id)'
  <2>1. "RAISED" \notin failures
    BY <1>1, <1>5
  <2>2. CASE files'[id] \in {files[id], Unreadable}
    BY <1>1, <1>3, <1>5, <2>1, <2>2 DEF DInv, Decided, Made
  <2>3. CASE /\ \E j \in DOMAIN saves : saves[j].id = id /\ files'[id] = saves[j]
             /\ decisions' = decisions \union decided
    BY <1>5, <2>1, <2>3 DEF Honest, Made
  <2> QED
    BY <1>1, <2>2, <2>3
<1>6. ASSUME "RAISED" \notin failures', up', NEW k \in DOMAIN cards', cards'[k].status = "champion"
      PROVE  Made(cards[k].id)'
  <2>1. "RAISED" \notin failures
    BY <1>1, <1>6
  <2> QED
    BY <1>1, <1>6, <2>1 DEF Honest, Made
<1> QED
  BY <1>2, <1>4, <1>5, <1>6 DEF DInv, Decided

(* The cards in memory, and any one of them saved.                         *)
LEMMA CardsHonest ==
  ASSUME DInv, up, "RAISED" \notin failures
  PROVE  \A k \in DOMAIN cards : cards[k].status = "champion" => Made(cards[k].id)
BY DEF DInv, Decided

LEMMA DInvInit == RegistryInit => DInv
<1> SUFFICES ASSUME RegistryInit
             PROVE  DInv
  OBVIOUS
<1>1. NoFile \notin CardType /\ NoFile.status # "champion"
  BY IdsAssumption DEF NoFile, CardType, None
<1>2. cards \in Seq(CardType) /\ DOMAIN cards = {}
  BY DEF RegistryInit
<1>3. RegistryTypeOK
  BY <1>2 DEF RegistryInit, RegistryTypeOK
<1>4. OwnFiles /\ Decided
  BY <1>1, <1>2 DEF RegistryInit, OwnFiles, Decided
<1> QED
  BY <1>3, <1>4 DEF DInv

LEMMA RegisterInv ==
  ASSUME DInv, NEW id \in Ids, NEW status \in {"draft", "challenger"}, Register(id, status)
  PROVE  DInv'
<1> DEFINE added == [id |-> id, status |-> status]
           saves == <<added>>
           list == Append(cards, added)
<1>1. added \in CardType /\ added.status # "champion"
  BY DEF CardType, Statuses
<1>2. cards \in Seq(CardType) /\ up /\ RegistryTypeOK
  BY DEF DInv, RegistryTypeOK, Register
<1> HIDE DEF added
<1>3. list \in Seq(CardType) /\ saves \in Seq(CardType)
  BY <1>1, <1>2
<1>4. /\ \A k \in DOMAIN list : list[k] = added \/ (k \in DOMAIN cards /\ list[k] = cards[k])
      /\ \A k \in DOMAIN saves : saves[k] = added
  BY <1>2
<1>5. Persist({}, saves) /\ cards' = list
  BY DEF Register, added
<1>6. champion' \in Ids \union {None} /\ orderly' \in BOOLEAN
  BY <1>2 DEF Register, RegistryTypeOK
<1> HIDE DEF saves, list
<1>7. ASSUME "RAISED" \notin failures
      PROVE  Honest(list, {}) /\ Honest(saves, {})
  BY <1>1, <1>2, <1>4, <1>7, CardsHonest DEF Honest, Made
<1> QED
  BY <1>3, <1>5, <1>6, <1>7, MethodInv

LEMMA PromoteInv ==
  ASSUME DInv, NEW id \in Ids, Promote(id)
  PROVE  DInv'
<1> DEFINE list == Crowned(id)
           saves == Changed(list, Card(id), GetChampion)
<1>1. RegistryTypeOK /\ up /\ Card(id) # 0 /\ champion' = id
  BY DEF DInv, Promote
<1>2. Persist({id}, saves) /\ cards' = list
  BY DEF Promote, Decide, Crowned
<1>3. /\ list \in Seq(CardType)
      /\ DOMAIN list = DOMAIN cards
      /\ \A k \in DOMAIN cards :
           list[k] = IF k = GetChampion THEN [id |-> cards[k].id, status |-> "retired"]
                     ELSE IF k = Card(id) THEN [id |-> cards[k].id, status |-> "champion"]
                     ELSE cards[k]
  BY <1>1, CrownedCards
<1> HIDE DEF list
<1>4. /\ saves \in Seq(CardType)
      /\ \A j \in DOMAIN saves : \E k \in DOMAIN list : saves[j] = list[k]
  BY <1>1, <1>3, ChangedCards
<1> HIDE DEF saves
<1>5. ASSUME "RAISED" \notin failures
      PROVE  Honest(list, {id}) /\ Honest(saves, {id})
  <2>1. \A k \in DOMAIN list : list[k].status = "champion" =>
          \/ list[k].id = id
          \/ list[k] = cards[k]
    BY <1>1, <1>3, CardPlace
  <2>2. Honest(list, {id})
    BY <1>1, <1>3, <1>5, <2>1, CardsHonest DEF Honest, Made
  <2> QED
    BY <1>4, <2>2 DEF Honest
<1>6. champion' \in Ids \union {None} /\ orderly' \in BOOLEAN
  BY <1>1 DEF Promote, RegistryTypeOK
<1> QED
  BY <1>2, <1>3, <1>4, <1>5, <1>6, MethodInv

LEMMA DemoteInv ==
  ASSUME DInv, NEW id \in Ids, Demote(id)
  PROVE  DInv'
<1> DEFINE list == Succeeded(id)
           saves == Changed(list, Card(id), GetChampion)
<1>1. RegistryTypeOK /\ Card(id) # 0
  BY DEF DInv, Demote
<1>2. Persist({Demotion}, saves) /\ cards' = list
  BY DEF Demote, Decide, Succeeded, Without
<1>3. list \in Seq(CardType) /\ DOMAIN list = DOMAIN cards
  BY <1>1, SucceededCards
<1>4. champion' \in Ids \union {None}
  <2>1. GetChallenger(Without(id)) \in DOMAIN cards \union {0}
    BY <1>1, SucceededCards
  <2>2. champion' = IF GetChallenger(Without(id)) = 0 THEN champion
                    ELSE cards[GetChallenger(Without(id))].id
    BY DEF Demote, Without
  <2>3. \A k \in DOMAIN cards : cards[k].id \in Ids
    <3>1. \A k \in DOMAIN cards : cards[k] \in CardType
      BY <1>1 DEF RegistryTypeOK
    <3> QED
      BY <3>1 DEF CardType
  <2> QED
    BY <1>1, <2>1, <2>2, <2>3 DEF RegistryTypeOK
<1>5. orderly' \in BOOLEAN
  BY DEF Demote
<1> HIDE DEF list
<1>6. saves \in Seq(CardType)
  BY <1>1, <1>3, ChangedCards
<1> HIDE DEF saves
<1>7. Honest(list, {Demotion}) /\ Honest(saves, {Demotion})
  BY DEF Honest
<1> QED
  BY <1>2, <1>3, <1>4, <1>5, <1>6, <1>7, MethodInv

LEMMA HoldInv ==
  ASSUME DInv, NEW id \in Ids, Hold(id)
  PROVE  DInv'
<1> DEFINE saves == Changed(cards, Card(id), GetChampion)
<1>1. /\ RegistryTypeOK /\ cards \in Seq(CardType) /\ up /\ Card(id) # 0
      /\ champion' \in Ids \union {None} /\ orderly' \in BOOLEAN
  BY DEF DInv, RegistryTypeOK, Hold
<1>2. Persist({}, saves) /\ cards' = cards
  BY DEF Hold, Decide
<1>3. /\ saves \in Seq(CardType)
      /\ \A j \in DOMAIN saves : \E k \in DOMAIN cards : saves[j] = cards[k]
  BY <1>1, ChangedCards
<1> HIDE DEF saves
<1>4. ASSUME "RAISED" \notin failures
      PROVE  Honest(cards, {}) /\ Honest(saves, {})
  BY <1>1, <1>3, <1>4, CardsHonest DEF Honest, Made
<1> QED
  BY <1>1, <1>2, <1>3, <1>4, MethodInv

LEMMA SetShadowDeploymentInv ==
  ASSUME DInv, NEW id \in Ids, SetShadowDeployment(id)
  PROVE  DInv'
<1> DEFINE saves == <<cards[Card(id)]>>
<1>1. /\ RegistryTypeOK /\ cards \in Seq(CardType) /\ up /\ Card(id) # 0
      /\ champion' \in Ids \union {None} /\ orderly' \in BOOLEAN
  BY DEF DInv, RegistryTypeOK, SetShadowDeployment
<1>2. Persist({}, saves) /\ cards' = cards
  BY DEF SetShadowDeployment
<1>3. /\ saves \in Seq(CardType)
      /\ \A j \in DOMAIN saves : \E k \in DOMAIN cards : saves[j] = cards[k]
  BY <1>1, CardPlace
<1> HIDE DEF saves
<1>4. ASSUME "RAISED" \notin failures
      PROVE  Honest(cards, {}) /\ Honest(saves, {})
  BY <1>1, <1>3, <1>4, CardsHonest DEF Honest, Made
<1> QED
  BY <1>1, <1>2, <1>3, <1>4, MethodInv

LEMMA RestartInv ==
  ASSUME DInv, Restart
  PROVE  DInv'
<1>1. PICK order \in SetToSeqs({id \in Ids : files[id] \in CardType}) :
        LET loaded    == [k \in DOMAIN order |-> files[order[k]]]
            champions == {k \in DOMAIN loaded : loaded[k].status = "champion"}
        IN /\ cards' = loaded
           /\ champion' = IF champions = {} THEN None ELSE order[LastOf(champions)]
           /\ up' = TRUE
           /\ UNCHANGED <<files, decisions, orderly, failures>>
  BY DEF Restart
<1> DEFINE loaded    == [k \in DOMAIN order |-> files[order[k]]]
           champions == {k \in DOMAIN loaded : loaded[k].status = "champion"}
<1>2. /\ loaded \in Seq(CardType)
      /\ DOMAIN loaded = DOMAIN order
      /\ \A k \in DOMAIN order : order[k] \in Ids /\ files[order[k]] \in CardType
      /\ champions # {} => LastOf(champions) \in champions
  BY LoadedCards DEF DInv
<1>3. champions \subseteq DOMAIN order
  BY <1>2
<1>4. champion' \in Ids \union {None}
  <2>1. champion' = IF champions = {} THEN None ELSE order[LastOf(champions)]
    BY <1>1
  <2> HIDE DEF champions
  <2> QED
    BY <1>2, <1>3, <2>1
<1>5. cards' = loaded /\ up' = TRUE /\ UNCHANGED <<files, decisions, orderly, failures>>
  BY <1>1
<1>6. \A k \in DOMAIN order : loaded[k] = files[order[k]] /\ loaded[k].id = order[k]
  BY <1>2 DEF DInv, OwnFiles
<1> HIDE DEF loaded, champions
<1>7. RegistryTypeOK' /\ OwnFiles'
  BY <1>2, <1>4, <1>5 DEF DInv, RegistryTypeOK, OwnFiles
<1>8. ASSUME "RAISED" \notin failures'
      PROVE  /\ \A id \in Ids : files'[id].status = "champion" => Made(id)'
             /\ \A k \in DOMAIN cards' : cards'[k].status = "champion" => Made(cards[k].id)'
  BY <1>2, <1>5, <1>6, <1>8 DEF DInv, Decided, Made
<1> QED
  BY <1>7, <1>8 DEF DInv, Decided

LEMMA DInvStep == DInv /\ [RegistryNext]_registryVars => DInv'
<1> SUFFICES ASSUME DInv, [RegistryNext]_registryVars
             PROVE  DInv'
  OBVIOUS
<1>1. CASE Restart
  BY <1>1, RestartInv
<1>2. ASSUME NEW id \in Ids, NEW status \in {"draft", "challenger"}, Register(id, status)
      PROVE  DInv'
  BY <1>2, RegisterInv
<1>3. ASSUME NEW id \in Ids, Promote(id)
      PROVE  DInv'
  BY <1>3, PromoteInv
<1>4. ASSUME NEW id \in Ids, Demote(id)
      PROVE  DInv'
  BY <1>4, DemoteInv
<1>5. ASSUME NEW id \in Ids, Hold(id)
      PROVE  DInv'
  BY <1>5, HoldInv
<1>6. ASSUME NEW id \in Ids, SetShadowDeployment(id)
      PROVE  DInv'
  BY <1>6, SetShadowDeploymentInv
<1>7. CASE UNCHANGED registryVars
  BY <1>7 DEF registryVars, DInv, RegistryTypeOK, OwnFiles, Decided, Made
<1> QED
  BY <1>1, <1>2, <1>3, <1>4, <1>5, <1>6, <1>7 DEF RegistryNext

(* Every reachable state of the registry is well typed.                    *)
THEOREM TypeCorrect == RegistrySpec => []RegistryTypeOK
<1>1. DInv => RegistryTypeOK
  BY DEF DInv
<1> QED
  BY <1>1, DInvInit, DInvStep, PTL DEF RegistrySpec

(* A champion on file was made by a decision on file, whatever write the   *)
(* process died in, for any models and any number of cards.                *)
THEOREM ChampionsDecided == RegistrySpec => []ChampionsAreDecided
<1>1. DInv => ChampionsAreDecided
  BY DEF DInv, Decided, Made, ChampionsAreDecided
<1> QED
  BY <1>1, DInvInit, DInvStep, PTL DEF RegistrySpec
-----------------------------------------------------------------------------
(* One champion.  While the registry is used as intended, ids name cards;  *)
(* while no write has failed but by the death of the process, a process    *)
(* that runs has in memory what is on file; and while no write has failed  *)
(* at all, one card is the champion's.                                     *)

Distinct(list) == \A j, k \in DOMAIN list : list[j].id = list[k].id => j = k

Filed(list) ==
  /\ \A k \in DOMAIN list : files[list[k].id] = list[k]
  /\ \A id \in Ids : files[id] \in CardType => \E k \in DOMAIN list : list[k].id = id

Crown(list, crowned) ==
  /\ crowned # None => \E k \in DOMAIN list : list[k].id = crowned
  /\ \A k \in DOMAIN list : (list[k].status = "champion") = (list[k].id = crowned)

Intended ==
  orderly =>
    /\ Distinct(cards)
    /\ failures \subseteq {"DIED"} /\ up => Filed(cards)
    /\ failures = {} => up /\ Crown(cards, champion)

OInv == DInv /\ Intended

(* How far the writing came when nothing but a death has cut it short.     *)
LEMMA PersistFate ==
  ASSUME NEW saves \in Seq(CardType), NEW decided \in SUBSET (Ids \union {Demotion}),
         Persist(decided, saves), failures' \subseteq {"DIED"}
  PROVE  /\ failures \subseteq {"DIED"}
         /\ \/ files' = FilesAfter(saves) /\ UNCHANGED <<up, failures>>
            \/ /\ ~up' /\ failures' # {}
               /\ \/ files' = files
                  \/ \E n \in 0..Len(saves) - 1 : files' = FilesAfter(SubSeq(saves, 1, n))
<1>1. CASE files' = FilesAfter(saves) /\ UNCHANGED <<up, failures>>
  BY <1>1
<1>2. ASSUME NEW how \in {"DIED", "RAISED"},
             \/ UNCHANGED files
             \/ \E n \in 0..Len(saves) - 1 : files' = FilesAfter(SubSeq(saves, 1, n)),
             up' = (how = "RAISED"),
             failures' = failures \union {how}
      PROVE  /\ failures \subseteq {"DIED"}
             /\ ~up' /\ failures' # {}
  BY <1>2
<1>3. failures' # failures \union {"TORN"}
  OBVIOUS
<1> QED
  BY <1>1, <1>2, <1>3 DEF Persist

(* A method that, while the registry is used as intended, leaves cards in  *)
(* memory that are its writes or what the files say already.               *)
LEMMA MethodIntended ==
  ASSUME OInv, up, NEW list \in Seq(CardType), NEW saves \in Seq(CardType),
         NEW decided \in SUBSET (Ids \union {Demotion}),
         Persist(decided, saves), cards' = list, orderly' => orderly,
         orderly' => Distinct(list),
         orderly' /\ failures \subseteq {"DIED"} =>
           /\ \A k \in DOMAIN list :
                (\E j \in DOMAIN saves : saves[j] = list[k]) \/ files[list[k].id] = list[k]
           /\ \A j \in DOMAIN saves : \E k \in DOMAIN list : saves[j] = list[k]
           /\ \A id \in Ids : files[id] \in CardType => \E k \in DOMAIN list : list[k].id = id,
         orderly' /\ failures = {} => Crown(list, champion')
  PROVE  Intended'
<1>1. ASSUME orderly', failures' \subseteq {"DIED"}, up'
      PROVE  Filed(list)'
  <2>1. failures \subseteq {"DIED"} /\ files' = FilesAfter(saves)
    BY <1>1, PersistFate
  <2>2. \A k \in DOMAIN list : list[k].id \in Ids
    <3>1. \A k \in DOMAIN list : list[k] \in CardType
      OBVIOUS
    <3> QED
      BY <3>1 DEF CardType
  <2>3. \A id \in Ids :
          \/ FilesAfter(saves)[id] = files[id] /\ \A j \in DOMAIN saves : saves[j].id # id
          \/ \E j \in DOMAIN saves : saves[j].id = id /\ FilesAfter(saves)[id] = saves[j]
    BY FilesAfterSaved DEF OInv, DInv
  <2>4. ASSUME NEW k \in DOMAIN list
        PROVE  files'[list[k].id] = list[k]
    <3>1. CASE \A j \in DOMAIN saves : saves[j].id # list[k].id
      BY <1>1, <2>1, <2>2, <2>3, <3>1
    <3>2. CASE \E j \in DOMAIN saves :
                 saves[j].id = list[k].id /\ FilesAfter(saves)[list[k].id] = saves[j]
      <4>1. PICK j \in DOMAIN saves :
              saves[j].id = list[k].id /\ FilesAfter(saves)[list[k].id] = saves[j]
        BY <3>2
      <4>2. PICK m \in DOMAIN list : saves[j] = list[m]
        BY <1>1, <2>1
      <4>3. m = k
        BY <1>1, <4>1, <4>2 DEF Distinct
      <4> QED
        BY <2>1, <4>1, <4>2, <4>3
    <3> QED
      BY <2>2, <2>3, <3>1, <3>2
  <2>5. ASSUME NEW id \in Ids, files'[id] \in CardType
        PROVE  \E k \in DOMAIN list : list[k].id = id
    <3>1. CASE files'[id] = files[id]
      BY <1>1, <2>1, <2>5, <3>1
    <3>2. CASE \E j \in DOMAIN saves : saves[j].id = id
      <4>1. PICK j \in DOMAIN saves : saves[j].id = id
        BY <3>2
      <4> QED
        BY <1>1, <2>1, <4>1
    <3> QED
      BY <2>1, <2>3, <3>1, <3>2
  <2> QED
    BY <2>4, <2>5 DEF Filed
<1>2. ASSUME orderly', failures' = {}
      PROVE  up' /\ Crown(list, champion')
  <2>1. failures = {} /\ up' = up
    BY <1>2, PersistFate
  <2> QED
    BY <1>2, <2>1
<1> QED
  BY <1>1, <1>2 DEF Intended, Distinct, Filed, Crown
(* What the invariant says of a running process used as intended.          *)
LEMMA IntendedCards ==
  ASSUME OInv, orderly
  PROVE  /\ cards \in Seq(CardType) /\ champion \in Ids \union {None} /\ None \notin Ids
         /\ \A k \in DOMAIN cards : cards[k] \in CardType /\ cards[k].id \in Ids
         /\ \A j, k \in DOMAIN cards : cards[j].id = cards[k].id => j = k
         /\ failures \subseteq {"DIED"} /\ up =>
              /\ \A k \in DOMAIN cards : files[cards[k].id] = cards[k]
              /\ \A id \in Ids : files[id] \in CardType => \E k \in DOMAIN cards : cards[k].id = id
         /\ failures = {} =>
              /\ up
              /\ champion # None => GetChampion # 0
              /\ \A k \in DOMAIN cards : (cards[k].status = "champion") = (cards[k].id = champion)
<1>1. RegistryTypeOK /\ cards \in Seq(CardType) /\ champion \in Ids \union {None} /\ None \notin Ids
  BY IdsAssumption DEF OInv, DInv, RegistryTypeOK
<1>2. \A k \in DOMAIN cards : cards[k] \in CardType
  BY <1>1
<1>3. \A k \in DOMAIN cards : cards[k].id \in Ids
  BY <1>2 DEF CardType
<1>4. ASSUME failures = {}, champion # None
      PROVE  GetChampion # 0
  <2>1. champion \in Ids /\ \E k \in DOMAIN cards : cards[k].id = champion
    BY <1>1, <1>4 DEF OInv, Intended, Crown
  <2> QED
    BY <1>1, <1>4, <2>1, CardPlace DEF GetChampion
<1> QED
  BY <1>1, <1>2, <1>3, <1>4 DEF OInv, Intended, Distinct, Filed, Crown

LEMMA OInvInit == RegistryInit => OInv
<1> SUFFICES ASSUME RegistryInit
             PROVE  OInv
  OBVIOUS
<1>1. cards = <<>> /\ DOMAIN cards = {} /\ champion = None /\ up
  BY DEF RegistryInit
<1>2. \A id \in Ids : files[id] \notin CardType
  BY IdsAssumption DEF RegistryInit, NoFile, CardType
<1>3. Intended
  BY <1>1, <1>2 DEF Intended, Distinct, Filed, Crown
<1> QED
  BY <1>3, DInvInit DEF OInv

LEMMA RegisterIntended ==
  ASSUME OInv, NEW id \in Ids, NEW status \in {"draft", "challenger"}, Register(id, status)
  PROVE  Intended'
<1> DEFINE added == [id |-> id, status |-> status]
           saves == <<added>>
           list == Append(cards, added)
<1>1. added \in CardType /\ added.status # "champion" /\ added.id = id
  BY DEF CardType, Statuses
<1>2. cards \in Seq(CardType) /\ up /\ RegistryTypeOK
  BY DEF OInv, DInv, RegistryTypeOK, Register
<1>3. /\ Persist({}, saves) /\ cards' = list /\ champion' = champion
      /\ orderly' => orderly /\ Card(id) = 0
  BY DEF Register
<1> HIDE DEF added
<1>4. /\ list \in Seq(CardType) /\ saves \in Seq(CardType)
      /\ saves[1] = added /\ DOMAIN saves = {1}
      /\ DOMAIN list = DOMAIN cards \union {Len(cards) + 1}
      /\ list[Len(cards) + 1] = added
      /\ \A k \in DOMAIN cards : k # Len(cards) + 1 /\ list[k] = cards[k]
  BY <1>1, <1>2
<1>5. orderly' => \A k \in DOMAIN cards : cards[k].id # id
  BY <1>2, <1>3, CardPlace
<1> HIDE DEF saves, list
<1>6. orderly' => Distinct(list)
  BY <1>1, <1>3, <1>4, <1>5, IntendedCards DEF Distinct
<1>7. ASSUME orderly', failures \subseteq {"DIED"}
      PROVE  /\ \A k \in DOMAIN list :
                  (\E j \in DOMAIN saves : saves[j] = list[k]) \/ files[list[k].id] = list[k]
             /\ \A j \in DOMAIN saves : \E k \in DOMAIN list : saves[j] = list[k]
             /\ \A x \in Ids : files[x] \in CardType => \E k \in DOMAIN list : list[k].id = x
  <2>1. /\ \A k \in DOMAIN cards : files[cards[k].id] = cards[k]
        /\ \A x \in Ids : files[x] \in CardType => \E k \in DOMAIN cards : cards[k].id = x
    BY <1>2, <1>3, <1>7, IntendedCards
  <2>2. \A x \in Ids : files[x] \in CardType => \E k \in DOMAIN list : list[k].id = x
    BY <1>4, <2>1
  <2> QED
    BY <1>4, <2>1, <2>2
<1>8. ASSUME orderly', failures = {}
      PROVE  Crown(list, champion')
  <2>1. /\ champion \in Ids \union {None} /\ None \notin Ids
        /\ champion # None => GetChampion # 0
        /\ \A k \in DOMAIN cards : (cards[k].status = "champion") = (cards[k].id = champion)
    BY <1>3, <1>8, IntendedCards
  <2>2. champion # None => GetChampion \in DOMAIN cards /\ cards[GetChampion].id = champion
    BY <1>2, <2>1, GetChampionPlace
  <2>3. champion # None => GetChampion \in DOMAIN list /\ list[GetChampion].id = champion
    BY <1>4, <2>2
  <2>4. id # champion
    BY <1>5, <1>8, <2>1, <2>2
  <2>5. \A k \in DOMAIN list : (list[k].status = "champion") = (list[k].id = champion)
    BY <1>1, <1>4, <2>1, <2>4
  <2> QED
    BY <1>3, <2>3, <2>5 DEF Crown
<1> QED
  BY <1>2, <1>3, <1>4, <1>6, <1>7, <1>8, MethodIntended

(* What a promotion makes of the cards when it is not of the champion.     *)
LEMMA PromotedCards ==
  ASSUME OInv, NEW id \in Ids, Promote(id), orderly'
  PROVE  LET saves == Changed(Crowned(id), Card(id), GetChampion)
         IN  /\ orderly /\ Card(id) \in DOMAIN cards /\ Card(id) # GetChampion
             /\ cards[Card(id)].id = id
             /\ saves \in Seq(CardType) /\ 1 \in DOMAIN saves
             /\ saves[1] = [id |-> id, status |-> "champion"]
             /\ \A j \in DOMAIN saves : saves[j].id = id => j = 1
<1> DEFINE list == Crowned(id)
           saves == Changed(list, Card(id), GetChampion)
<1>1. RegistryTypeOK /\ orderly /\ Card(id) # 0 /\ Card(id) # GetChampion
  BY DEF OInv, DInv, Promote
<1>2. Card(id) \in DOMAIN cards /\ cards[Card(id)].id = id /\ GetChampion \in DOMAIN cards \union {0}
  BY <1>1, CardPlace, GetChampionPlace
<1>3. /\ list \in Seq(CardType)
      /\ DOMAIN list = DOMAIN cards
      /\ \A k \in DOMAIN cards :
           list[k] = IF k = GetChampion THEN [id |-> cards[k].id, status |-> "retired"]
                     ELSE IF k = Card(id) THEN [id |-> cards[k].id, status |-> "champion"]
                     ELSE cards[k]
  BY <1>1, CrownedCards
<1> HIDE DEF list
<1>4. /\ saves \in Seq(CardType) /\ 1 \in DOMAIN saves /\ saves[1] = list[Card(id)]
      /\ \A j \in DOMAIN saves : j = 1 \/ (GetChampion # 0 /\ saves[j] = list[GetChampion])
  BY <1>1, <1>3, ChangedCards
<1>5. list[Card(id)] = [id |-> id, status |-> "champion"]
  BY <1>1, <1>2, <1>3
<1>6. GetChampion # 0 => list[GetChampion].id # id
  <2>1. GetChampion # 0 => cards[GetChampion].id # id
    BY <1>1, <1>2, IntendedCards
  <2> QED
    BY <1>2, <1>3, <2>1
<1> HIDE DEF saves
<1>7. \A j \in DOMAIN saves : saves[j].id = id => j = 1
  BY <1>4, <1>6
<1> QED
  BY <1>1, <1>2, <1>4, <1>5, <1>7 DEF saves, list

LEMMA PromoteIntended ==
  ASSUME OInv, NEW id \in Ids, Promote(id)
  PROVE  Intended'
<1> DEFINE list == Crowned(id)
           saves == Changed(list, Card(id), GetChampion)
<1>1. /\ RegistryTypeOK /\ up /\ Card(id) # 0 /\ champion' = id
      /\ orderly' => orderly /\ Card(id) # GetChampion
  BY DEF OInv, DInv, Promote
<1>2. Persist({id}, saves) /\ cards' = list
  BY DEF Promote, Decide, Crowned
<1>3. /\ list \in Seq(CardType)
      /\ DOMAIN list = DOMAIN cards
      /\ \A k \in DOMAIN cards :
           list[k] = IF k = GetChampion THEN [id |-> cards[k].id, status |-> "retired"]
                     ELSE IF k = Card(id) THEN [id |-> cards[k].id, status |-> "champion"]
                     ELSE cards[k]
  BY <1>1, CrownedCards
<1>4. \A k \in DOMAIN list : list[k].id = cards[k].id
  BY <1>3
<1>5. Card(id) \in DOMAIN cards /\ cards[Card(id)].id = id
  BY <1>1, CardPlace
<1> HIDE DEF list
<1>6. /\ saves \in Seq(CardType)
      /\ 1 \in DOMAIN saves /\ saves[1] = list[Card(id)]
      /\ \A j \in DOMAIN saves : \E k \in DOMAIN list : saves[j] = list[k]
      /\ GetChampion # 0 => 2 \in DOMAIN saves /\ saves[2] = list[GetChampion]
  BY <1>1, <1>3, ChangedCards
<1> HIDE DEF saves
<1>7. orderly' => Distinct(list)
  BY <1>1, <1>3, <1>4, IntendedCards DEF Distinct
<1>8. ASSUME orderly', failures \subseteq {"DIED"}
      PROVE  /\ \A k \in DOMAIN list :
                  (\E j \in DOMAIN saves : saves[j] = list[k]) \/ files[list[k].id] = list[k]
             /\ \A x \in Ids : files[x] \in CardType => \E k \in DOMAIN list : list[k].id = x
  <2>1. /\ \A k \in DOMAIN cards : k # 0 /\ files[cards[k].id] = cards[k]
        /\ \A x \in Ids : files[x] \in CardType => \E k \in DOMAIN cards : cards[k].id = x
    BY <1>1, <1>8, IntendedCards
  <2>2. ASSUME NEW k \in DOMAIN list
        PROVE  (\E j \in DOMAIN saves : saves[j] = list[k]) \/ files[list[k].id] = list[k]
    <3>1. CASE k = GetChampion
      BY <1>3, <1>6, <2>1, <3>1
    <3>2. CASE k = Card(id)
      BY <1>6, <3>2
    <3>3. CASE k # GetChampion /\ k # Card(id)
      BY <1>3, <2>1, <3>3
    <3> QED
      BY <3>1, <3>2, <3>3
  <2> QED
    BY <1>3, <1>4, <2>1, <2>2
<1>9. ASSUME orderly', failures = {}
      PROVE  Crown(list, id)
  <2>1. /\ champion \in Ids \union {None} /\ None \notin Ids
        /\ champion # None => GetChampion # 0
        /\ \A k \in DOMAIN cards : cards[k].id \in Ids
        /\ \A j, k \in DOMAIN cards : cards[j].id = cards[k].id => j = k
        /\ \A k \in DOMAIN cards : (cards[k].status = "champion") = (cards[k].id = champion)
    BY <1>1, <1>9, IntendedCards
  <2>2. GetChampion # 0 => GetChampion \in DOMAIN cards /\ cards[GetChampion].id = champion
    BY <1>1, GetChampionPlace
  <2>3. ASSUME NEW k \in DOMAIN list
        PROVE  (list[k].status = "champion") = (list[k].id = id)
    <3>1. CASE k = GetChampion
      BY <1>1, <1>3, <1>5, <1>9, <2>1, <3>1
    <3>2. CASE k # GetChampion /\ k = Card(id)
      BY <1>3, <1>5, <3>2
    <3>3. CASE k # GetChampion /\ k # Card(id)
      <4>1. list[k] = cards[k] /\ cards[k].id # id
        BY <1>3, <1>5, <2>1, <3>3
      <4>2. cards[k].id # champion
        BY <1>3, <2>1, <2>2, <3>3
      <4> QED
        BY <1>3, <2>1, <4>1, <4>2
    <3> QED
      BY <3>1, <3>2, <3>3
  <2>4. \E k \in DOMAIN list : list[k].id = id
    BY <1>3, <1>4, <1>5
  <2> QED
    BY <2>3, <2>4 DEF Crown
<1> QED
  BY <1>1, <1>2, <1>3, <1>6, <1>7, <1>8, <1>9, MethodIntended

LEMMA DemoteIntended ==
  ASSUME NEW id \in Ids, Demote(id)
  PROVE  Intended'
BY DEF Demote, Intended

(* A method that changes nothing in memory and saves what is there.        *)
LEMMA SavedIntended ==
  ASSUME OInv, up, NEW saves \in Seq(CardType), Persist({}, saves),
         \A j \in DOMAIN saves : \E k \in DOMAIN cards : saves[j] = cards[k],
         UNCHANGED <<cards, champion, orderly>>
  PROVE  Intended'
<1>1. ASSUME orderly'
      PROVE  /\ Distinct(cards)
             /\ failures \subseteq {"DIED"} =>
                  /\ \A k \in DOMAIN cards : files[cards[k].id] = cards[k]
                  /\ \A x \in Ids : files[x] \in CardType => \E k \in DOMAIN cards : cards[k].id = x
             /\ failures = {} => Crown(cards, champion')
  BY <1>1 DEF OInv, Intended, Distinct, Filed
<1>2. cards \in Seq(CardType)
  BY DEF OInv, DInv, RegistryTypeOK
<1> QED
  BY <1>1, <1>2, MethodIntended

LEMMA HoldSaves ==
  ASSUME OInv, NEW id \in Ids, Hold(id) \/ SetShadowDeployment(id)
  PROVE  \E saves \in Seq(CardType) :
           /\ Persist({}, saves)
           /\ \A j \in DOMAIN saves : \E k \in DOMAIN cards : saves[j] = cards[k]
<1>1. RegistryTypeOK /\ cards \in Seq(CardType) /\ Card(id) # 0 /\ Card(id) \in DOMAIN cards
  BY CardPlace DEF OInv, DInv, RegistryTypeOK, Hold, SetShadowDeployment
<1>2. CASE Hold(id)
  <2> DEFINE saves == Changed(cards, Card(id), GetChampion)
  <2>1. Persist({}, saves)
    BY <1>2 DEF Hold, Decide
  <2>2. saves \in Seq(CardType) /\ \A j \in DOMAIN saves : \E k \in DOMAIN cards : saves[j] = cards[k]
    BY <1>1, ChangedCards
  <2> HIDE DEF saves
  <2> QED
    BY <2>1, <2>2
<1>3. CASE SetShadowDeployment(id)
  <2> DEFINE saves == <<cards[Card(id)]>>
  <2>1. Persist({}, saves)
    BY <1>3 DEF SetShadowDeployment
  <2>2. saves \in Seq(CardType) /\ \A j \in DOMAIN saves : \E k \in DOMAIN cards : saves[j] = cards[k]
    BY <1>1
  <2> HIDE DEF saves
  <2> QED
    BY <2>1, <2>2
<1> QED
  BY <1>2, <1>3

LEMMA HoldIntended ==
  ASSUME OInv, NEW id \in Ids, Hold(id) \/ SetShadowDeployment(id)
  PROVE  Intended'
<1>1. up /\ UNCHANGED <<cards, champion, orderly>>
  BY DEF Hold, Decide, SetShadowDeployment
<1> QED
  BY <1>1, HoldSaves, SavedIntended
(* A restart reads each readable file once.                                *)
LEMMA LoadedOnce ==
  ASSUME NEW order \in SetToSeqs({id \in Ids : files[id] \in CardType})
  PROVE  /\ \A j, k \in DOMAIN order : order[j] = order[k] => j = k
         /\ \A id \in Ids : files[id] \in CardType => \E k \in DOMAIN order : order[k] = id
<1> DEFINE readable == {id \in Ids : files[id] \in CardType}
           n == Cardinality(readable)
<1>1. IsFiniteSet(readable)
  BY IdsAssumption, FS_Subset
<1>2. n \in Nat
  BY <1>1, FS_CardinalityType
<1>3. order \in [1..n -> readable] /\ \A j, k \in 1..n : j # k => order[j] # order[k]
  BY DEF SetToSeqs
<1> HIDE DEF n, readable
<1>4. order \in Injection(1..n, readable)
  BY <1>3 DEF Injection, IsInjective
<1>5. Cardinality(1..n) = n
  BY <1>2, FS_Interval
<1>6. n = Cardinality(readable)
  BY DEF n
<1>7. order \in Surjection(1..n, readable)
  BY <1>1, <1>4, <1>5, <1>6, FS_Injection
<1>8. \A id \in readable : \E k \in DOMAIN order : order[k] = id
  BY <1>7 DEF Surjection
<1>9. DOMAIN order = 1..n
  BY <1>3
<1> QED
  BY <1>3, <1>8, <1>9 DEF readable

LEMMA RestartIntended ==
  ASSUME OInv, Restart
  PROVE  Intended'
<1>1. PICK order \in SetToSeqs({id \in Ids : files[id] \in CardType}) :
        LET loaded    == [k \in DOMAIN order |-> files[order[k]]]
            champions == {k \in DOMAIN loaded : loaded[k].status = "champion"}
        IN /\ cards' = loaded
           /\ champion' = IF champions = {} THEN None ELSE order[LastOf(champions)]
           /\ up' = TRUE
           /\ UNCHANGED <<files, decisions, orderly, failures>>
  BY DEF Restart
<1> DEFINE loaded    == [k \in DOMAIN order |-> files[order[k]]]
           champions == {k \in DOMAIN loaded : loaded[k].status = "champion"}
<1>2. /\ DOMAIN loaded = DOMAIN order
      /\ \A k \in DOMAIN order : order[k] \in Ids /\ files[order[k]] \in CardType
      /\ champions # {} => LastOf(champions) \in champions
  BY LoadedCards DEF OInv, DInv
<1>3. \A k \in DOMAIN order : loaded[k] = files[order[k]] /\ loaded[k].id = order[k]
  BY <1>2 DEF OInv, DInv, OwnFiles
<1>4. /\ cards' = loaded /\ up' /\ UNCHANGED <<files, orderly, failures>>
      /\ champion' = IF champions = {} THEN None ELSE order[LastOf(champions)]
  BY <1>1
<1>5. \A k \in DOMAIN order : k \in champions <=> loaded[k].status = "champion"
  BY <1>2
<1>6. champions # {} => LastOf(champions) \in DOMAIN order
  BY <1>2
<1> HIDE DEF loaded, champions
<1>7. /\ \A j, k \in DOMAIN order : order[j] = order[k] => j = k
      /\ \A id \in Ids : files[id] \in CardType => \E k \in DOMAIN order : order[k] = id
  BY LoadedOnce
<1>8. Distinct(loaded)
  BY <1>2, <1>3, <1>7 DEF Distinct
<1>9. Filed(loaded)
  BY <1>2, <1>3, <1>7 DEF Filed
<1>10. ASSUME orderly, failures = {}
       PROVE  Crown(loaded, champion')
  <2>1. /\ None \notin Ids /\ up
        /\ \A id \in Ids : files[id] \in CardType => \E k \in DOMAIN cards : cards[k].id = id
        /\ \A k \in DOMAIN cards : files[cards[k].id] = cards[k]
        /\ \A k \in DOMAIN cards : (cards[k].status = "champion") = (cards[k].id = champion)
    BY <1>10, IntendedCards
  <2>2. \A k \in DOMAIN order : (loaded[k].status = "champion") => order[k] = champion
    BY <1>2, <1>3, <2>1
  <2>3. CASE champions = {}
    BY <1>2, <1>3, <1>4, <1>5, <2>1, <2>3 DEF Crown
  <2>4. CASE champions # {}
    <3>1. /\ LastOf(champions) \in DOMAIN order
          /\ loaded[LastOf(champions)].status = "champion"
          /\ champion' = order[LastOf(champions)]
      BY <1>2, <1>4, <1>5, <1>6, <2>4
    <3>2. champion' = champion
      BY <2>2, <3>1
    <3>3. ASSUME NEW k \in DOMAIN loaded
          PROVE  (loaded[k].status = "champion") = (loaded[k].id = champion')
      <4>1. loaded[k].status = "champion" => loaded[k].id = champion'
        BY <1>2, <1>3, <2>2, <3>2
      <4>2. loaded[k].id = champion' => k = LastOf(champions)
        BY <1>2, <1>3, <1>7, <3>1
      <4> QED
        BY <3>1, <4>1, <4>2
    <3> QED
      BY <1>2, <1>3, <3>1, <3>3 DEF Crown
  <2> QED
    BY <2>3, <2>4
<1>11. cards' = loaded /\ up' = TRUE /\ orderly' = orderly /\ failures' = failures /\ files' = files
  BY <1>4
<1>12. Distinct(cards)' /\ Filed(cards)'
  BY <1>8, <1>9, <1>11 DEF Distinct, Filed
<1>13. orderly' /\ failures' = {} => Crown(cards, champion)'
  BY <1>10, <1>11 DEF Crown
<1> QED
  BY <1>11, <1>12, <1>13 DEF Intended

LEMMA OInvStep == OInv /\ [RegistryNext]_registryVars => OInv'
<1> SUFFICES ASSUME OInv, [RegistryNext]_registryVars
             PROVE  OInv'
  OBVIOUS
<1>1. DInv'
  BY DInvStep DEF OInv
<1>2. ASSUME Restart
      PROVE  Intended'
  BY <1>2, RestartIntended
<1>3. ASSUME NEW id \in Ids, NEW status \in {"draft", "challenger"}, Register(id, status)
      PROVE  Intended'
  BY <1>3, RegisterIntended
<1>4. ASSUME NEW id \in Ids, Promote(id)
      PROVE  Intended'
  BY <1>4, PromoteIntended
<1>5. ASSUME NEW id \in Ids, Demote(id)
      PROVE  Intended'
  BY <1>5, DemoteIntended
<1>6. ASSUME NEW id \in Ids, Hold(id) \/ SetShadowDeployment(id)
      PROVE  Intended'
  BY <1>6, HoldIntended
<1>7. ASSUME UNCHANGED registryVars
      PROVE  Intended'
  BY <1>7 DEF registryVars, OInv, Intended, Distinct, Filed, Crown
<1>8. Intended'
  BY <1>2, <1>3, <1>4, <1>5, <1>6, <1>7 DEF RegistryNext
<1> QED
  BY <1>1, <1>8 DEF OInv

(* What a method writes when nothing but a death cuts it short: every file *)
(* is as it was or has one of the cards saved, and if any has changed the  *)
(* first of the cards is written, unless another of its id came later.     *)
LEMMA WrittenFiles ==
  ASSUME RegistryTypeOK, NEW saves \in Seq(CardType), NEW decided \in SUBSET (Ids \union {Demotion}),
         Persist(decided, saves), failures' \subseteq {"DIED"}
  PROVE  /\ \A id \in Ids : \/ files'[id] = files[id]
                            \/ \E j \in DOMAIN saves : saves[j].id = id /\ files'[id] = saves[j]
         /\ \/ \A id \in Ids : files'[id] = files[id]
            \/ (\A j \in DOMAIN saves : saves[j].id = saves[1].id => j = 1)
                 => files'[saves[1].id] = saves[1]
<1> DEFINE front(n) == SubSeq(saves, 1, n)
<1>1. ASSUME NEW n \in 0..Len(saves)
      PROVE  /\ \A id \in Ids :
                  \/ FilesAfter(front(n))[id] = files[id]
                  \/ \E j \in DOMAIN saves : saves[j].id = id /\ FilesAfter(front(n))[id] = saves[j]
             /\ \/ \A id \in Ids : FilesAfter(front(n))[id] = files[id]
                \/ (\A j \in DOMAIN saves : saves[j].id = saves[1].id => j = 1)
                     => FilesAfter(front(n))[saves[1].id] = saves[1]
  <2> DEFINE part == front(n)
  <2>1. /\ part \in Seq(CardType) /\ DOMAIN part = 1..n /\ DOMAIN part \subseteq DOMAIN saves
        /\ \A j \in DOMAIN part : part[j] = saves[j]
    OBVIOUS
  <2> HIDE DEF part
  <2>2. \A id \in Ids :
          \/ FilesAfter(part)[id] = files[id] /\ \A j \in DOMAIN part : part[j].id # id
          \/ \E j \in DOMAIN part : part[j].id = id /\ FilesAfter(part)[id] = part[j]
    BY <2>1, FilesAfterSaved
  <2>3. \A id \in Ids :
          \/ FilesAfter(part)[id] = files[id]
          \/ \E j \in DOMAIN saves : saves[j].id = id /\ FilesAfter(part)[id] = saves[j]
    BY <2>1, <2>2
  <2>4. CASE n = 0
    <3>1. DOMAIN part = {}
      BY <2>1, <2>4
    <3>2. \A id \in Ids : FilesAfter(part)[id] = files[id]
      BY <2>2, <3>1
    <3> QED
      BY <2>3, <3>2 DEF part
  <2>5. ASSUME n # 0, \A j \in DOMAIN saves : saves[j].id = saves[1].id => j = 1
        PROVE  FilesAfter(part)[saves[1].id] = saves[1]
    <3>1. 1 \in DOMAIN part /\ part[1] = saves[1] /\ saves[1] \in CardType
      BY <2>1, <2>5
    <3>2. saves[1].id \in Ids
      BY <3>1 DEF CardType
    <3>3. PICK j \in DOMAIN part : part[j].id = saves[1].id /\ FilesAfter(part)[saves[1].id] = part[j]
      BY <2>2, <3>1, <3>2
    <3>4. j = 1
      BY <2>1, <2>5, <3>3
    <3> QED
      BY <3>1, <3>3, <3>4
  <2> QED
    BY <2>3, <2>4, <2>5 DEF part
<1>2. CASE files' = FilesAfter(saves)
  <2>1. front(Len(saves)) = saves /\ Len(saves) \in 0..Len(saves)
    OBVIOUS
  <2> HIDE DEF front
  <2> QED
    BY <1>1, <1>2, <2>1
<1>3. CASE \E n \in 0..Len(saves) - 1 : files' = FilesAfter(front(n))
  <2>1. PICK n \in 0..Len(saves) - 1 : files' = FilesAfter(front(n))
    BY <1>3
  <2>2. n \in 0..Len(saves)
    OBVIOUS
  <2> HIDE DEF front
  <2> QED
    BY <1>1, <2>1, <2>2
<1>4. CASE files' = files
  BY <1>4
<1> QED
  BY <1>2, <1>3, <1>4, PersistFate

(* A champion on file outlives every step of a registry used as intended,  *)
(* the death of its process included.                                      *)
LEMMA ChampionStays ==
  ASSUME OInv, RegistryNext, orderly', failures' \subseteq {"DIED"}, ChampionOnFile
  PROVE  ChampionOnFile'
<1>1. PICK x \in Ids : files[x].status = "champion"
  BY DEF ChampionOnFile
<1>2. files[x] \in CardType
  BY <1>1 DEF OInv, DInv, RegistryTypeOK, NoFile, Unreadable, None
<1>3. CASE Restart
  BY <1>1, <1>3 DEF Restart, ChampionOnFile
<1>4. ASSUME NEW id \in Ids, NEW status \in {"draft", "challenger"}, Register(id, status)
      PROVE  ChampionOnFile'
  <2> DEFINE added == [id |-> id, status |-> status]
             saves == <<added>>
  <2>1. RegistryTypeOK /\ up /\ orderly /\ Card(id) = 0 /\ Persist({}, saves)
    BY <1>4 DEF OInv, DInv, Register
  <2>2. added \in CardType /\ added.id = id
    BY DEF CardType, Statuses
  <2> HIDE DEF added
  <2>3. saves \in Seq(CardType) /\ \A j \in DOMAIN saves : saves[j] = added
    BY <2>2
  <2>4. failures \subseteq {"DIED"}
    BY <2>1, <2>3, PersistFate
  <2>5. x # id
    BY <1>2, <2>1, <2>4, CardPlace, IntendedCards
  <2> HIDE DEF saves
  <2>6. files'[x] = files[x]
    BY <2>1, <2>2, <2>3, <2>5, WrittenFiles
  <2> QED
    BY <1>1, <2>6 DEF ChampionOnFile
<1>5. ASSUME NEW id \in Ids, Promote(id)
      PROVE  ChampionOnFile'
  <2> DEFINE saves == Changed(Crowned(id), Card(id), GetChampion)
  <2>1. RegistryTypeOK /\ Persist({id}, saves)
    BY <1>5 DEF OInv, DInv, Promote, Decide, Crowned
  <2>2. /\ saves \in Seq(CardType) /\ 1 \in DOMAIN saves
        /\ saves[1] = [id |-> id, status |-> "champion"]
        /\ \A j \in DOMAIN saves : saves[j].id = id => j = 1
    BY <1>5, PromotedCards
  <2> HIDE DEF saves
  <2>3. (\A i \in Ids : files'[i] = files[i]) \/ files'[id] = saves[1]
    BY <2>1, <2>2, WrittenFiles
  <2> QED
    BY <1>1, <2>2, <2>3 DEF ChampionOnFile
<1>6. ASSUME NEW id \in Ids, Demote(id)
      PROVE  FALSE
  BY <1>6 DEF Demote
<1>7. ASSUME NEW id \in Ids, Hold(id) \/ SetShadowDeployment(id)
      PROVE  ChampionOnFile'
  <2>1. RegistryTypeOK /\ up /\ orderly
    BY <1>7 DEF OInv, DInv, Hold, SetShadowDeployment
  <2>2. PICK saves \in Seq(CardType) :
          /\ Persist({}, saves)
          /\ \A j \in DOMAIN saves : \E k \in DOMAIN cards : saves[j] = cards[k]
    BY <1>7, HoldSaves
  <2>3. failures \subseteq {"DIED"}
    BY <2>2, PersistFate
  <2>4. \A k \in DOMAIN cards : files[cards[k].id] = cards[k]
    BY <2>1, <2>3, IntendedCards
  <2>5. files'[x] = files[x]
    BY <2>1, <2>2, <2>4, WrittenFiles
  <2> QED
    BY <1>1, <2>5 DEF ChampionOnFile
<1> QED
  BY <1>3, <1>4, <1>5, <1>6, <1>7 DEF RegistryNext

(* Used as intended and with every write made, the registry has one        *)
(* champion, the one decisions are made with, and its files say what is in *)
(* memory, for any models, cards and number of restarts.                   *)
THEOREM TheOneChampion == RegistrySpec => []OneChampion
<1>1. OInv => OneChampion
  BY DEF OInv, Intended, Filed, Crown, OneChampion
<1> QED
  BY <1>1, OInvInit, OInvStep, PTL DEF RegistrySpec

(* Used as intended, a promotion that dies between its writes leaves the   *)
(* files with a champion, wherever it dies.                                *)
THEOREM ChampionSurvives == RegistrySpec => ChampionOutlivesDeath
<1>1. OInv /\ [RegistryNext]_registryVars =>
        [orderly' /\ failures' \subseteq {"DIED"} /\ ChampionOnFile => ChampionOnFile']_registryVars
  BY ChampionStays
<1> QED
  BY <1>1, OInvInit, OInvStep, PTL DEF RegistrySpec, ChampionOutlivesDeath

-----------------------------------------------------------------------------
(* The pipeline.                                                           *)

\* What was stored or refused was seen, and nothing was both.
PipelineInv == PipelineTypeOK /\ store \union refused \subseteq seen_ids /\ RefusedForGood

LEMMA PipelineInitInv == LearningInit => PipelineInv
BY DEF LearningInit, PipelineInit, PipelineInv, PipelineTypeOK, RefusedForGood

LEMMA IngestInv ==
  ASSUME PipelineInv, NEW t \in Observations, Ingest(t)
  PROVE  PipelineInv'
<1> USE DEF PipelineInv, PipelineTypeOK, RefusedForGood
<1>1. PICK faulty \in BOOLEAN :
        /\ seen_ids' = seen_ids \union {t}
        /\ store' = IF Passes(t, faulty) THEN store \union {t} ELSE store
        /\ refused' = IF t \in store \/ Passes(t, faulty) THEN refused ELSE refused \union {t}
        /\ UNCHANGED labelled
  BY DEF Ingest, SeenAfter
<1>2. CASE Passes(t, faulty)
  <2>1. t \notin refused
    BY <1>2 DEF Passes
  <2> QED
    BY <1>1, <1>2, <2>1
<1>3. CASE ~Passes(t, faulty)
  BY <1>1, <1>3
<1> QED
  BY <1>2, <1>3

LEMMA PipelineStep == PipelineInv /\ [LearningNext]_<<registryVars, pipelineVars>> => PipelineInv'
<1> SUFFICES ASSUME PipelineInv, [LearningNext]_<<registryVars, pipelineVars>> PROVE PipelineInv'
  OBVIOUS
<1>1. CASE \E t \in Observations : Ingest(t)
  BY <1>1, IngestInv
<1>2. CASE \E t \in Observations : LabelOutcome(t)
  BY <1>2 DEF LabelOutcome, PipelineInv, PipelineTypeOK, RefusedForGood
<1>3. CASE UNCHANGED pipelineVars
  BY <1>3 DEF pipelineVars, PipelineInv, PipelineTypeOK, RefusedForGood
<1>4. CASE NewProcess
  BY <1>4 DEF NewProcess, PipelineInv, PipelineTypeOK, RefusedForGood
<1> QED
  BY <1>1, <1>2, <1>3, <1>4 DEF LearningNext, Train, Decisions, RegistryUsed

(* An observation refused once stays out of the feature store.             *)
THEOREM RefusedStayOut == LearningSpec => []RefusedForGood
<1>1. PipelineInv => RefusedForGood
  BY DEF PipelineInv
<1> QED
  BY <1>1, PipelineInitInv, PipelineStep, PTL DEF LearningSpec

(* The pipeline uses the registry as the registry is meant to be used: all *)
(* that holds of ModelRegistry holds under it.                             *)
THEOREM PipelineUsesRegistry == LearningSpec => RegistrySpec
<1>1. LearningInit => RegistryInit
  BY DEF LearningInit
<1>2. [LearningNext]_<<registryVars, pipelineVars>> => [RegistryNext]_registryVars
  <2> SUFFICES ASSUME [LearningNext]_<<registryVars, pipelineVars>> PROVE [RegistryNext]_registryVars
    OBVIOUS
  <2>1. CASE \E t \in Observations : Ingest(t) \/ LabelOutcome(t)
    BY <2>1 DEF Ingest, LabelOutcome
  <2>2. CASE Train \/ RegistryUsed
    BY <2>2, TrainedAssumption DEF Train, RegistryUsed, RegistryNext
  <2>3. CASE Decisions
    BY <2>3 DEF Decisions, RegistryNext
  <2>4. CASE NewProcess
    BY <2>4 DEF NewProcess, RegistryNext
  <2>5. CASE UNCHANGED <<registryVars, pipelineVars>>
    BY <2>5
  <2> QED
    BY <2>1, <2>2, <2>3, <2>4, <2>5 DEF LearningNext
<1> QED
  BY <1>1, <1>2, PTL DEF LearningSpec, RegistrySpec

-----------------------------------------------------------------------------
(* WalkForward.                                                            *)

\* What a fit rests on was known on the last day to train.
Behind(fit, last) ==
  /\ \A e \in fit.intercept : e.time <= last
  /\ \A f \in Features : \A e \in fit.learned[f] : e.time <= last

Predicted == {p.example : p \in predictions}

Samples == SumFunction([k \in DOMAIN plan |-> Cardinality(TestExamples(plan[k]))])

WalkTyped ==
  /\ IsFiniteSet(dataset)
  /\ \A e \in dataset : e.time \in Int /\ e.features \subseteq Features
  /\ plan \in Seq([train_end : Int, test_end : Int])
  /\ done \in 0..Len(plan)
  /\ DOMAIN model.learned = Features
  /\ Predicted \subseteq dataset

\* What is still to be predicted is later than what the model knows.
StillAhead ==
  forward =>
    /\ \A j, k \in DOMAIN plan : j < k => plan[j].train_end <= plan[k].train_end
    /\ \A k \in DOMAIN plan : done < k => Behind(model, plan[k].train_end)

TestedSoFar ==
  \A k \in DOMAIN plan :
    k <= done /\ TrainExamples(plan[k]) # {} => TestExamples(plan[k]) \subseteq Predicted

CardOfThePlan ==
  card # NoCard => done = Len(plan) /\ card.samples = Samples

PassedACard ==
  verdict = "PASSED" => card # NoCard /\ card.samples >= MinSamples

WalkInv ==
  WalkTyped /\ StillAhead /\ TestedSoFar /\ CardOfThePlan /\ PassedACard /\ HeldOut

LEMMA BuildersType ==
  /\ BuildersSplits \in Seq([train_end : Int, test_end : Int])
  /\ \A k \in DOMAIN BuildersSplits :
       /\ k \in Nat
       /\ BuildersSplits[k].train_end = TrainingWindow + (k - 1) * Step
       /\ BuildersSplits[k].test_end = TrainingWindow + (k - 1) * Step + TestWindow
<1> DEFINE room == DataEnd - TrainingWindow - TestWindow
           splits == IF room < 0 THEN 0 ELSE room \div Step + 1
           split(k) == [train_end |-> TrainingWindow + (k - 1) * Step,
                        test_end |-> TrainingWindow + (k - 1) * Step + TestWindow]
<1>1. BuildersSplits = [k \in 1..splits |-> split(k)]
  BY DEF BuildersSplits
<1>2. splits \in Nat
  <2>1. room \in Int /\ Step \in Nat \ {0}
    BY SplitsAssumption
  <2> HIDE DEF room
  <2> QED
    BY <2>1
<1> HIDE DEF splits
<1>3. \A k \in 1..splits : split(k) \in [train_end : Int, test_end : Int]
  <2> SUFFICES ASSUME NEW k \in 1..splits
               PROVE  split(k) \in [train_end : Int, test_end : Int]
    OBVIOUS
  <2>1. TrainingWindow + (k - 1) * Step \in Int /\ TrainingWindow + (k - 1) * Step + TestWindow \in Int
    BY SplitsAssumption, <1>2
  <2> QED
    BY <2>1
<1> HIDE DEF split
<1>4. BuildersSplits \in Seq([train_end : Int, test_end : Int])
  BY <1>1, <1>2, <1>3
<1>5. \A k \in DOMAIN BuildersSplits : k \in Nat /\ BuildersSplits[k] = split(k)
  BY <1>1, <1>2
<1>6. \A k : /\ split(k).train_end = TrainingWindow + (k - 1) * Step
             /\ split(k).test_end = TrainingWindow + (k - 1) * Step + TestWindow
  BY DEF split
<1> QED
  BY <1>4, <1>5, <1>6

LEMMA WalkStarts == WalkInit => WalkInv
<1> SUFFICES ASSUME WalkInit PROVE WalkInv
  OBVIOUS
<1>1. /\ dataset = {} /\ plan = <<>> /\ done = 0 /\ predictions = {} /\ card = NoCard
      /\ verdict = "NONE" /\ model = Untrained
  BY DEF WalkInit
<1>2. Predicted = {} /\ DOMAIN plan = {} /\ Len(plan) = 0
  BY <1>1 DEF Predicted
<1>3. WalkTyped
  BY <1>1, <1>2, FS_EmptySet DEF WalkTyped, Untrained
<1> QED
  BY <1>1, <1>2, <1>3 DEF WalkInv, StillAhead, TestedSoFar, CardOfThePlan, PassedACard, HeldOut

LEMMA NewModelKeeps == WalkInv /\ NewModel => WalkInv'
<1> SUFFICES ASSUME WalkInv, NewModel PROVE WalkInv'
  OBVIOUS
<1>1. /\ UNCHANGED <<dataset, plan, done, predictions, forward>> /\ done = Len(plan)
      /\ model' = Untrained /\ card' = NoCard /\ verdict' = "NONE"
  BY DEF NewModel
<1>2. WalkTyped'
  BY <1>1 DEF WalkInv, WalkTyped, Untrained, Predicted
<1>3. StillAhead'
  <2>1. \A k \in DOMAIN plan : ~(done < k)
    BY <1>1 DEF WalkInv, WalkTyped
  <2> QED
    BY <2>1, <1>1 DEF WalkInv, StillAhead
<1>4. TestedSoFar' /\ HeldOut'
  BY <1>1 DEF WalkInv, TestedSoFar, HeldOut, Predicted, TrainExamples, TestExamples
<1> QED
  BY <1>1, <1>2, <1>3, <1>4 DEF WalkInv, CardOfThePlan, PassedACard

LEMMA BeginKeeps ==
  ASSUME WalkInv, NEW examples \in Datasets, NEW splits \in CallersSplits \union {BuildersSplits},
         Begin(examples, splits)
  PROVE  WalkInv'
<1>1. /\ dataset' = examples /\ plan' = splits /\ done' = 0 /\ predictions' = {}
      /\ card' = NoCard /\ verdict' = "NONE" /\ model' = model
      /\ forward' => /\ model = Untrained
                     /\ \A j, k \in DOMAIN splits : j < k => splits[j].train_end <= splits[k].train_end
  BY DEF Begin
<1>2. splits \in Seq([train_end : Int, test_end : Int])
  BY SplitsAssumption, BuildersType
<1>3. Predicted' = {}
  BY <1>1 DEF Predicted
<1>4. /\ IsFiniteSet(examples)
      /\ \A e \in examples : e.time \in Int /\ e.features \subseteq Features
  BY DatasetsAssumption DEF Features
<1>5. WalkTyped'
  <2>1. 0 \in 0..Len(splits)
    BY <1>2
  <2> QED
    BY <1>1, <1>2, <1>3, <1>4, <2>1 DEF WalkInv, WalkTyped
<1>6. StillAhead'
  BY <1>1 DEF StillAhead, Behind, Untrained
<1>7. TestedSoFar'
  <2>1. \A k \in DOMAIN splits : ~(k <= 0)
    BY <1>2
  <2> QED
    BY <1>1, <2>1 DEF TestedSoFar
<1> QED
  BY <1>1, <1>5, <1>6, <1>7 DEF WalkInv, CardOfThePlan, PassedACard, HeldOut

\* A fit is behind a day when the model was, and its examples are.
LEMMA FittedBehind ==
  ASSUME NEW examples, examples # {}, NEW last, Behind(model, last),
         \A e \in examples : e.time <= last
  PROVE  /\ Behind(Fitted(examples), last)
         /\ \A e : e.features \subseteq Features =>
              \A x \in Rests(Fitted(examples), e) : x.time <= last
<1>1. /\ Fitted(examples).intercept = examples
      /\ \A f \in Features : Fitted(examples).learned[f] \in {examples, model.learned[f]}
  BY DEF Fitted
<1>2. Behind(Fitted(examples), last)
  BY <1>1 DEF Behind
<1>3. \A e : e.features \subseteq Features =>
         \A x \in Rests(Fitted(examples), e) : x.time <= last
  BY <1>2 DEF Rests, Behind
<1> QED
  BY <1>2, <1>3

LEMMA DaysOfSplits ==
  ASSUME NEW splits \in Seq([train_end : Int, test_end : Int])
  PROVE  \A k \in DOMAIN splits : splits[k].train_end \in Int
<1> DEFINE pairs == [train_end : Int, test_end : Int]
<1>1. splits \in Seq(pairs) /\ \A pair \in pairs : pair.train_end \in Int
  OBVIOUS
<1> HIDE DEF pairs
<1> QED
  BY <1>1

LEMMA SplitKeeps == WalkInv /\ Split => WalkInv'
<1> SUFFICES ASSUME WalkInv, Split PROVE WalkInv'
  OBVIOUS
<1> DEFINE split == plan[done + 1]
           fit == Fitted(TrainExamples(split))
           fresh == {[example |-> e, cutoff |-> split.train_end, rests |-> Rests(fit, e)] :
                       e \in TestExamples(split)}
<1>1. /\ done < Len(plan) /\ done' = done + 1
      /\ UNCHANGED <<dataset, plan, card, verdict, forward>>
  BY DEF Split
<1>2. /\ done \in Nat /\ done + 1 \in DOMAIN plan /\ done' \in 0..Len(plan')
      /\ DOMAIN plan' = DOMAIN plan /\ DOMAIN plan = 1..Len(plan)
  BY <1>1 DEF WalkInv, WalkTyped
<1>3. /\ \A s : TrainExamples(s)' = TrainExamples(s)
      /\ \A s : TestExamples(s)' = TestExamples(s)
  BY <1>1 DEF TrainExamples, TestExamples
<1>4. card = NoCard
  BY <1>1 DEF WalkInv, WalkTyped, CardOfThePlan
<1>8. \A k \in DOMAIN plan : plan[k].train_end \in Int
  <2>1. plan \in Seq([train_end : Int, test_end : Int])
    BY DEF WalkInv, WalkTyped
  <2> QED
    BY <2>1, DaysOfSplits
<1>5. CardOfThePlan' /\ PassedACard'
  BY <1>1, <1>4 DEF WalkInv, CardOfThePlan, PassedACard
<1>6. CASE TrainExamples(split) = {} \/ TestExamples(split) = {}
  <2>1. UNCHANGED <<model, predictions>>
    BY <1>6 DEF Split
  <2>2. Predicted' = Predicted
    BY <2>1 DEF Predicted
  <2>3. WalkTyped'
    BY <1>1, <1>2, <2>1, <2>2 DEF WalkInv, WalkTyped
  <2>4. StillAhead'
    BY <1>1, <1>2, <2>1 DEF WalkInv, StillAhead
  <2>5. TestedSoFar'
    <3> SUFFICES ASSUME NEW k \in DOMAIN plan, k <= done + 1, TrainExamples(plan[k]) # {}
                 PROVE  TestExamples(plan[k]) \subseteq Predicted
      BY <1>1, <1>3, <2>2 DEF TestedSoFar
    <3>1. CASE k = done + 1
      BY <3>1, <1>6
    <3>2. CASE k # done + 1
      <4>1. k <= done
        BY <3>2, <1>2
      <4> QED
        BY <4>1 DEF WalkInv, TestedSoFar
    <3> QED
      BY <3>1, <3>2
  <2>6. HeldOut'
    BY <1>1, <2>1 DEF WalkInv, HeldOut
  <2> QED
    BY <1>5, <2>3, <2>4, <2>5, <2>6 DEF WalkInv
<1>7. CASE TrainExamples(split) # {} /\ TestExamples(split) # {}
  <2>1. model' = fit /\ predictions' = predictions \union fresh
    BY <1>7 DEF Split
  <2>2. Predicted' = Predicted \union TestExamples(split)
    <3> DEFINE guess(e) == [example |-> e, cutoff |-> split.train_end, rests |-> Rests(fit, e)]
    <3>1. \A e : guess(e).example = e
      OBVIOUS
    <3>2. fresh = {guess(e) : e \in TestExamples(split)}
      OBVIOUS
    <3> HIDE DEF guess, fresh
    <3>3. {p.example : p \in fresh} = TestExamples(split)
      BY <3>1, <3>2
    <3>4. Predicted' = {p.example : p \in predictions \union fresh}
      BY <2>1 DEF Predicted
    <3> QED
      BY <3>3, <3>4 DEF Predicted
  <2>3. WalkTyped'
    <3>1. DOMAIN fit.learned = Features
      BY <1>7 DEF Fitted
    <3>2. TestExamples(split) \subseteq dataset
      BY DEF TestExamples
    <3> HIDE DEF fit, split
    <3> QED
      BY <1>1, <1>2, <2>1, <2>2, <3>1, <3>2 DEF WalkInv, WalkTyped
  <2>4. ASSUME forward, NEW k \in DOMAIN plan, done < k
        PROVE  /\ Behind(fit, plan[k].train_end)
               /\ k = done + 1 =>
                    \A e \in dataset : \A x \in Rests(fit, e) : x.time <= plan[k].train_end
    <3>1. split.train_end <= plan[k].train_end
      <4>1. k = done + 1 \/ done + 1 < k
        <5>1. k \in Nat /\ done < k /\ done \in Nat
          BY <2>4, <1>2
        <5> HIDE DEF split
        <5> QED
          BY <5>1
      <4>2. split.train_end \in Int
        BY <1>2, <1>8
      <4>3. \A j, i \in DOMAIN plan : j < i => plan[j].train_end <= plan[i].train_end
        BY <2>4 DEF WalkInv, StillAhead
      <4>4. CASE k = done + 1
        BY <4>4, <4>2
      <4>5. CASE done + 1 < k
        BY <4>5, <4>3, <1>2
      <4> HIDE DEF split
      <4> QED
        BY <4>1, <4>4, <4>5, Zenon
    <3>2. split.train_end \in Int /\ plan[k].train_end \in Int
      BY <1>2, <1>8
    <3>3. \A e \in TrainExamples(split) : e.time <= split.train_end /\ e.time \in Int
      BY DEF TrainExamples, WalkInv, WalkTyped
    <3>4. \A e \in TrainExamples(split) : e.time <= plan[k].train_end
      <4> HIDE DEF split
      <4> QED
        BY <3>1, <3>2, <3>3
    <3>5. Behind(model, plan[k].train_end)
      BY <2>4 DEF WalkInv, StillAhead
    <3>6. \A e \in dataset : e.features \subseteq Features
      BY DEF WalkInv, WalkTyped
    <3> HIDE DEF split
    <3>7. /\ Behind(fit, plan[k].train_end)
          /\ \A e : e.features \subseteq Features =>
               \A x \in Rests(fit, e) : x.time <= plan[k].train_end
      BY <1>7, <3>4, <3>5, FittedBehind
    <3> HIDE DEF fit
    <3> QED
      BY <3>6, <3>7
  <2>5. StillAhead'
    <3> SUFFICES ASSUME forward
                 PROVE  /\ \A j, k \in DOMAIN plan : j < k => plan[j].train_end <= plan[k].train_end
                        /\ \A k \in DOMAIN plan : done + 1 < k => Behind(fit, plan[k].train_end)
      BY <1>1, <2>1 DEF StillAhead, Behind
    <3>1. \A j, k \in DOMAIN plan : j < k => plan[j].train_end <= plan[k].train_end
      BY DEF WalkInv, StillAhead
    <3>2. ASSUME NEW k \in DOMAIN plan, done + 1 < k PROVE Behind(fit, plan[k].train_end)
      <4>1. done < k
        BY <3>2, <1>2
      <4> QED
        BY <4>1, <2>4
    <3> QED
      BY <3>1, <3>2
  <2>6. TestedSoFar'
    <3> SUFFICES ASSUME NEW k \in DOMAIN plan, k <= done + 1, TrainExamples(plan[k]) # {}
                 PROVE  TestExamples(plan[k]) \subseteq Predicted \union TestExamples(split)
      BY <1>1, <1>3, <2>2 DEF TestedSoFar
    <3>1. CASE k = done + 1
      BY <3>1
    <3>2. CASE k # done + 1
      <4>1. k <= done
        BY <3>2, <1>2
      <4> QED
        BY <4>1 DEF WalkInv, TestedSoFar
    <3> QED
      BY <3>1, <3>2
  <2>7. HeldOut'
    <3> SUFFICES ASSUME forward, NEW p \in predictions \union fresh
                 PROVE  p.cutoff < p.example.time /\ \A x \in p.rests : x.time <= p.cutoff
      BY <1>1, <2>1 DEF HeldOut
    <3>1. CASE p \in predictions
      BY <3>1 DEF WalkInv, HeldOut
    <3>2. CASE p \in fresh
      <4>1. PICK e \in TestExamples(split) :
              p = [example |-> e, cutoff |-> split.train_end, rests |-> Rests(fit, e)]
        BY <3>2
      <4>2. e \in dataset /\ done < done + 1
        BY <1>2 DEF TestExamples
      <4>3. \A y \in Rests(fit, e) : y.time <= plan[done + 1].train_end
        BY <4>2, <1>2, <2>4
      <4>4. split.train_end < e.time
        BY DEF TestExamples
      <4> HIDE DEF fit
      <4> QED
        BY <4>1, <4>3, <4>4
    <3> QED
      BY <3>1, <3>2
  <2> QED
    BY <1>5, <2>3, <2>5, <2>6, <2>7 DEF WalkInv
<1> QED
  BY <1>6, <1>7

LEMMA FinishKeeps == WalkInv /\ Finish => WalkInv'
<1> SUFFICES ASSUME WalkInv, Finish PROVE WalkInv'
  OBVIOUS
<1>1. /\ UNCHANGED <<dataset, plan, done, predictions, verdict, forward>>
      /\ done = Len(plan) /\ card = NoCard /\ model' = Fitted(dataset)
      /\ card'.samples = Samples
  BY DEF Finish, Samples
<1>2. WalkTyped'
  <2>1. DOMAIN Fitted(dataset).learned = Features
    BY DEF Fitted, WalkInv, WalkTyped
  <2> QED
    BY <1>1, <2>1 DEF WalkInv, WalkTyped, Predicted
<1>3. StillAhead'
  <2>1. \A k \in DOMAIN plan : ~(done < k)
    BY <1>1 DEF WalkInv, WalkTyped
  <2> QED
    BY <2>1, <1>1 DEF WalkInv, StillAhead
<1>4. TestedSoFar' /\ HeldOut'
  BY <1>1 DEF WalkInv, TestedSoFar, HeldOut, Predicted, TrainExamples, TestExamples
<1>5. Samples' = Samples
  BY <1>1 DEF Samples, TestExamples
<1>6. CardOfThePlan'
  BY <1>1, <1>5 DEF CardOfThePlan
<1>7. PassedACard'
  BY <1>1 DEF WalkInv, PassedACard
<1> QED
  BY <1>2, <1>3, <1>4, <1>6, <1>7 DEF WalkInv

LEMMA EvaluateKeeps == WalkInv /\ card # NoCard /\ Evaluate => WalkInv'
<1> SUFFICES ASSUME WalkInv, card # NoCard, Evaluate PROVE WalkInv'
  OBVIOUS
<1>1. UNCHANGED <<model, dataset, plan, done, predictions, card, forward>>
  BY DEF Evaluate
<1>2. verdict' = "PASSED" => PerformanceGate
  BY DEF Evaluate
<1>3. PassedACard'
  BY <1>1, <1>2 DEF PassedACard, PerformanceGate
<1>4. Samples' = Samples
  BY <1>1 DEF Samples, TestExamples
<1>5. WalkTyped' /\ StillAhead' /\ CardOfThePlan'
  BY <1>1, <1>4 DEF WalkInv, WalkTyped, Predicted, StillAhead, Behind, CardOfThePlan
<1>6. TestedSoFar' /\ HeldOut'
  BY <1>1 DEF WalkInv, TestedSoFar, HeldOut, Predicted, TrainExamples, TestExamples
<1> QED
  BY <1>3, <1>5, <1>6 DEF WalkInv

LEMMA WalkSteps == WalkInv /\ [WalkNext]_walkVars => WalkInv'
<1> SUFFICES ASSUME WalkInv, [WalkNext]_walkVars PROVE WalkInv'
  OBVIOUS
<1>1. ASSUME NEW examples \in Datasets, NEW splits \in CallersSplits \union {BuildersSplits},
             Begin(examples, splits)
      PROVE  WalkInv'
  BY <1>1, BeginKeeps
<1>2. CASE UNCHANGED walkVars
  <2>1. UNCHANGED <<model, dataset, plan, done, predictions, card, verdict, forward>>
    BY <1>2 DEF walkVars
  <2>2. Samples' = Samples
    BY <2>1 DEF Samples, TestExamples
  <2>3. WalkTyped' /\ StillAhead' /\ CardOfThePlan' /\ PassedACard'
    BY <2>1, <2>2 DEF WalkInv, WalkTyped, Predicted, StillAhead, Behind, CardOfThePlan, PassedACard
  <2>4. TestedSoFar' /\ HeldOut'
    BY <2>1 DEF WalkInv, TestedSoFar, HeldOut, Predicted, TrainExamples, TestExamples
  <2> QED
    BY <2>3, <2>4 DEF WalkInv
<1> QED
  BY <1>1, <1>2, NewModelKeeps, SplitKeeps, FinishKeeps, EvaluateKeeps DEF WalkNext

-----------------------------------------------------------------------------
(* A day is in few windows.                                                *)

LEMMA FewWindows ==
  ASSUME NEW n \in Nat, NEW t \in Int
  PROVE  /\ Overlap \in Nat
         /\ Cardinality({k \in 1..n : /\ TrainingWindow + (k - 1) * Step < t
                                      /\ t <= TrainingWindow + (k - 1) * Step + TestWindow})
              <= Overlap
<1> DEFINE windows == {k \in 1..n : /\ TrainingWindow + (k - 1) * Step < t
                                    /\ t <= TrainingWindow + (k - 1) * Step + TestWindow}
           m == (TestWindow + Step - 1) \div Step
<1>1. Step \in Nat \ {0} /\ TestWindow \in Nat /\ TrainingWindow \in Nat
  BY SplitsAssumption
<1>2. Overlap = m
  BY DEF Overlap
<1>3. m \in Nat /\ TestWindow <= m * Step
  <2> DEFINE d == TestWindow + Step - 1
  <2>1. d \in Nat
    BY <1>1
  <2> HIDE DEF d
  <2>2. d \div Step \in Nat /\ d < (d \div Step) * Step + Step
    BY <1>1, <2>1
  <2>3. m = d \div Step
    BY DEF d
  <2> DEFINE q == d \div Step
             w == q * Step
  <2>4. q \in Nat /\ w \in Int /\ d < w + Step
    BY <2>2, <1>1
  <2> HIDE DEF q, w
  <2>5. TestWindow <= w
    BY <1>1, <2>4 DEF d
  <2> QED
    BY <2>3, <2>4, <2>5 DEF q, w
<1> HIDE DEF m
<1>4. windows \subseteq Int /\ IsFiniteSet(windows)
  <2>1. IsFiniteSet(1..n) /\ windows \subseteq 1..n
    BY FS_Interval
  <2>2. IsFiniteSet(windows)
    <3> HIDE DEF windows
    <3> QED
      BY <2>1, FS_Subset
  <2> QED
    BY <2>1, <2>2
<1>5. CASE windows = {}
  <2>1. Cardinality(windows) = 0
    BY <1>5, FS_EmptySet
  <2> QED
    BY <1>2, <1>3, <2>1
<1>6. CASE windows # {}
  <2> DEFINE low == Min(windows)
  <2>1. low \in windows /\ \A k \in windows : low <= k
    <3> HIDE DEF windows
    <3> QED
      BY <1>4, <1>6, LeastOfFinite
  <2> HIDE DEF low
  <2>2. /\ low \in Int
        /\ TrainingWindow + (low - 1) * Step < t /\ t <= TrainingWindow + (low - 1) * Step + TestWindow
    BY <2>1
  <2>3. ASSUME NEW k \in windows PROVE k \in low..(low + m - 1)
    <3>1. k \in Int /\ low <= k /\ TrainingWindow + (k - 1) * Step < t
      BY <2>1
    <3> DEFINE a == (low - 1) * Step
               b == (k - 1) * Step
    <3>2. a \in Int /\ b \in Int
      BY <1>1, <2>2, <3>1
    <3>3. TrainingWindow + b < t /\ t <= TrainingWindow + a + TestWindow
      BY <2>2, <3>1
    <3>4. b - a < TestWindow
      <4> HIDE DEF a, b
      <4> QED
        BY <3>2, <3>3, <1>1
    <3>5. b - a = (k - low) * Step
      BY <1>1, <2>2, <3>1
    <3> DEFINE gap == k - low
    <3>6. gap * Step < m * Step
      <4>1. b - a \in Int /\ m * Step \in Int
        BY <3>2, <1>1, <1>3
      <4> QED
        BY <3>4, <3>5, <1>3, <1>1, <4>1
    <3>7. gap < m
      <4>1. gap \in Int
        BY <2>2, <3>1
      <4> HIDE DEF gap
      <4>2. m <= gap => m * Step <= gap * Step
        BY <4>1, <1>1, <1>3
      <4>3. m * Step \in Int /\ gap * Step \in Int
        BY <4>1, <1>1, <1>3
      <4> QED
        BY <4>1, <4>2, <4>3, <3>6, <1>3
    <3> QED
      BY <3>1, <3>7, <2>2, <1>3
  <2>4. IsFiniteSet(low..(low + m - 1)) /\ Cardinality(low..(low + m - 1)) <= m
    <3>1. low + m - 1 \in Int
      BY <2>2, <1>3
    <3>2. /\ IsFiniteSet(low..(low + m - 1))
          /\ Cardinality(low..(low + m - 1)) =
               IF low > low + m - 1 THEN 0 ELSE (low + m - 1) - low + 1
      BY <2>2, <3>1, FS_Interval
    <3> QED
      BY <3>2, <2>2, <1>3
  <2>5. windows \subseteq low..(low + m - 1)
    BY <2>3
  <2> HIDE DEF windows
  <2>6. Cardinality(windows) <= Cardinality(low..(low + m - 1))
    BY <2>4, <2>5, FS_Subset
  <2>7. Cardinality(windows) \in Nat /\ Cardinality(low..(low + m - 1)) \in Nat
    BY <1>4, <2>4, FS_CardinalityType
  <2> DEFINE c == Cardinality(windows)
             d == Cardinality(low..(low + m - 1))
  <2>8. c <= d /\ d <= m /\ c \in Nat /\ d \in Nat
    BY <2>4, <2>6, <2>7
  <2> HIDE DEF c, d
  <2>9. c <= Overlap
    BY <2>8, <1>2, <1>3
  <2> QED
    BY <2>9, <1>2, <1>3 DEF c, windows
<1> QED
  BY <1>2, <1>3, <1>5, <1>6

LEMMA OverlapType == Overlap \in Nat
<1>1. 0 \in Nat /\ 0 \in Int
  OBVIOUS
<1> QED
  BY <1>1, FewWindows

(* The samples of the builder's splits are at most so many per example.    *)
LEMMA SamplesOfPredicted ==
  ASSUME WalkInv, plan = BuildersSplits, done = Len(plan),
         \A k \in DOMAIN plan : TrainExamples(plan[k]) # {}
  PROVE  Samples <= Overlap * Cardinality(Predicted)
<1> DEFINE part == [k \in DOMAIN plan |-> TestExamples(plan[k])]
           n == Len(plan)
<1>1. n \in Nat /\ DOMAIN plan = 1..n /\ IsFiniteSet(DOMAIN plan)
  <2>1. n \in Nat /\ DOMAIN plan = 1..n
    BY DEF WalkInv, WalkTyped
  <2>2. IsFiniteSet(1..n)
    <3> HIDE DEF n
    <3> QED
      BY <2>1, FS_Interval
  <2> QED
    BY <2>1, <2>2
<1>2. IsFiniteSet(Predicted)
  BY FS_Subset DEF WalkInv, WalkTyped
<1>3. \A k \in DOMAIN plan : part[k] \subseteq Predicted
  BY <1>1 DEF WalkInv, TestedSoFar
<1>0. \A k \in DOMAIN plan : part[k] = TestExamples(plan[k])
  OBVIOUS
<1>10. [k \in DOMAIN plan |-> Cardinality(part[k])]
        = [k \in DOMAIN plan |-> Cardinality(TestExamples(plan[k]))]
  OBVIOUS
<1> HIDE DEF part
<1>4. ASSUME NEW x \in Predicted PROVE Cardinality({k \in DOMAIN plan : x \in part[k]}) <= Overlap
  <2> DEFINE having == {k \in DOMAIN plan : x \in part[k]}
             windows == {k \in 1..n : /\ TrainingWindow + (k - 1) * Step < x.time
                                      /\ x.time <= TrainingWindow + (k - 1) * Step + TestWindow}
  <2>1. x.time \in Int
    BY DEF WalkInv, WalkTyped
  <2>2. Cardinality(windows) <= Overlap
    <3> HIDE DEF n
    <3> QED
      BY <1>1, <2>1, FewWindows
  <2>3. \A k \in DOMAIN plan : /\ plan[k].train_end = TrainingWindow + (k - 1) * Step
                              /\ plan[k].test_end = TrainingWindow + (k - 1) * Step + TestWindow
    BY BuildersType
  <2>4. \A k \in having : k \in windows
    BY <2>3, <1>0, <1>1 DEF TestExamples
  <2>5. \A k \in windows : k \in having
    <3> SUFFICES ASSUME NEW k \in windows PROVE k \in having
      OBVIOUS
    <3>1. x \in dataset
      BY DEF WalkInv, WalkTyped
    <3> QED
      BY <3>1, <2>3, <1>0, <1>1 DEF TestExamples
  <2>6. having = windows
    BY <2>4, <2>5
  <2> HIDE DEF having, windows
  <2>7. Cardinality(having) <= Overlap
    BY <2>2, <2>6
  <2> QED
    BY <2>7, Zenon DEF having
<1>5. Overlap \in Nat
  BY OverlapType
<1> DEFINE sizes == [k \in DOMAIN plan |-> Cardinality(part[k])]
<1>6. SumFunctionOnSet(sizes, DOMAIN plan) <= Overlap * Cardinality(Predicted)
  <2> QED
    BY <1>1, <1>2, <1>3, <1>4, <1>5, SumOfOverlaps
<1>7. sizes = [k \in DOMAIN plan |-> Cardinality(TestExamples(plan[k]))]
  BY <1>10
<1>8. Samples = SumFunctionOnSet(sizes, DOMAIN plan)
  BY <1>7 DEF Samples, SumFunction
<1> QED
  BY <1>6, <1>8

LEMMA WalkIsOutOfSample == WalkInv => OutOfSample
<1> SUFFICES ASSUME WalkInv, verdict = "PASSED", plan = BuildersSplits,
                    \A k \in DOMAIN plan : TrainExamples(plan[k]) # {}
             PROVE  Overlap * Cardinality(Predicted) >= MinSamples
  BY DEF OutOfSample, PassedOnEvidence, Predicted, WalkInv
<1>1. done = Len(plan) /\ card.samples = Samples /\ card.samples >= MinSamples
  BY DEF WalkInv, PassedACard, CardOfThePlan
<1>2. Samples <= Overlap * Cardinality(Predicted)
  BY <1>1, SamplesOfPredicted
<1>3. Samples \in Int /\ MinSamples \in Int /\ Overlap * Cardinality(Predicted) \in Int
  <2>1. IsFiniteSet(Predicted)
    BY FS_Subset DEF WalkInv, WalkTyped
  <2>2. Cardinality(Predicted) \in Nat
    BY <2>1, FS_CardinalityType
  <2>7. Overlap \in Nat
    BY OverlapType
  <2> DEFINE sizes == [k \in DOMAIN plan |-> Cardinality(TestExamples(plan[k]))]
  <2>3. \A k \in DOMAIN plan : sizes[k] \in Int
    <3>1. \A k \in DOMAIN plan : IsFiniteSet(TestExamples(plan[k]))
      BY FS_Subset DEF TestExamples, WalkInv, WalkTyped
    <3> QED
      BY <3>1, FS_CardinalityType
  <2>4. IsFiniteSet(DOMAIN plan)
    <3>1. plan \in Seq([train_end : Int, test_end : Int])
      BY DEF WalkInv, WalkTyped
    <3>2. Len(plan) \in Nat /\ DOMAIN plan = 1..Len(plan)
      BY <3>1
    <3> QED
      BY <3>2, FS_Interval
  <2>5. Samples = SumFunctionOnSet(sizes, DOMAIN plan)
    BY DEF Samples, SumFunction
  <2> HIDE DEF sizes
  <2>6. Samples \in Int
    BY <2>3, <2>4, <2>5, SumIsInt
  <2> QED
    BY <2>2, <2>6, <2>7, SplitsAssumption
<1> QED
  BY <1>1, <1>2, <1>3

(* Validation is out of sample by the days of the observations, for        *)
(* whatever data, windows, splits and metrics there are: a prediction of a *)
(* model that was new rests on earlier observations only, and the samples  *)
(* a card passes by are its different examples, few times over.  (It says  *)
(* nothing of when their labels were realised: NoLookahead fails.)         *)
THEOREM ValidatedOutOfSample == WalkSpec => []OutOfSample
<1> QED
  BY WalkStarts, WalkSteps, WalkIsOutOfSample, PTL DEF WalkSpec

-----------------------------------------------------------------------------
(* Retrieval.                                                              *)

(* BestFirst has the places of the first ranks, in their order.            *)
LEMMA BestFirstRanks ==
  ASSUME NEW places, NEW score, IsScored(places, score)
  PROVE  \E len \in Nat :
           /\ len <= TopK /\ len <= Cardinality(places)
           /\ len = TopK \/ len = Cardinality(places)
           /\ BestFirst(places, score) \in [1..len -> places]
           /\ \A m \in 1..len : /\ BestFirst(places, score)[m] \in places
                                /\ Rank(places, score, BestFirst(places, score)[m]) = m - 1
<1> DEFINE n == Cardinality(places)
           len == Min({TopK, n})
<1>1. n \in Nat /\ TopK \in Nat
  BY FS_CardinalityType, AnalogsAssumption DEF IsScored
<1> HIDE DEF n
<1>2. len \in {TopK, n} /\ len <= TopK /\ len <= n
  BY <1>1, MaxOfTwo
<1>3. BestFirst(places, score) =
        [m \in 1..len |-> CHOOSE k \in places : Rank(places, score, k) = m - 1]
  BY DEF BestFirst, Rank, Before, n
<1> HIDE DEF len
<1>4. len \in Nat
  BY <1>1, <1>2
<1>5. ASSUME NEW m \in 1..len
      PROVE  /\ BestFirst(places, score)[m] \in places
             /\ Rank(places, score, BestFirst(places, score)[m]) = m - 1
  <2>1. m - 1 \in 0..(n - 1)
    BY <1>1, <1>2, <1>4
  <2>2. \E k \in places : Rank(places, score, k) = m - 1
    BY <2>1, OneOfEachRank DEF n
  <2>3. BestFirst(places, score)[m] = CHOOSE k \in places : Rank(places, score, k) = m - 1
    BY <1>3
  <2> QED
    BY <2>2, <2>3
<1>6. BestFirst(places, score) \in [1..len -> places]
  BY <1>3, <1>5
<1> QED
  BY <1>2, <1>4, <1>5, <1>6 DEF n

(* What BestFirst leaves out is behind a full list, and behind all of it;  *)
(* the first is as good as any.                                            *)
LEMMA BestAreFirst ==
  ASSUME NEW places, NEW score, IsScored(places, score)
  PROVE  /\ Len(BestFirst(places, score)) \in Nat
         /\ DOMAIN BestFirst(places, score) = 1..Len(BestFirst(places, score))
         /\ \A m \in DOMAIN BestFirst(places, score) : BestFirst(places, score)[m] \in places
         /\ \A k \in places \ Range(BestFirst(places, score)) :
              /\ Len(BestFirst(places, score)) = TopK
              /\ \A j \in Range(BestFirst(places, score)) : score[k] <= score[j]
         /\ BestFirst(places, score) # <<>> =>
              /\ 1 \in DOMAIN BestFirst(places, score)
              /\ \A k \in Range(BestFirst(places, score)) :
                   score[k] <= score[BestFirst(places, score)[1]]
<1> DEFINE best == BestFirst(places, score)
           rank(k) == Rank(places, score, k)
<1>1. PICK len \in Nat :
        /\ len <= TopK /\ len <= Cardinality(places)
        /\ len = TopK \/ len = Cardinality(places)
        /\ best \in [1..len -> places]
        /\ \A m \in 1..len : best[m] \in places /\ rank(best[m]) = m - 1
  BY BestFirstRanks
<1>2. \A k \in places : rank(k) \in 0..(Cardinality(places) - 1) /\ k \in Int /\ score[k] \in Int
  BY RankType DEF IsScored
<1>3. \A j, k \in places : rank(j) = rank(k) => j = k
  BY OneOfEachRank
<1>4. Cardinality(places) \in Nat /\ TopK \in Nat
  BY FS_CardinalityType, AnalogsAssumption DEF IsScored
<1>5. ASSUME NEW j \in places, NEW k \in places, rank(j) < rank(k)
      PROVE  score[k] <= score[j]
  <2>1. j # k
    BY <1>2, <1>5
  <2>2. ~(k \in Before(places, score, j))
    <3> SUFFICES ASSUME k \in Before(places, score, j) PROVE FALSE
      OBVIOUS
    <3>1. rank(k) < rank(j)
      BY LowerRank
    <3> QED
      BY <3>1, <1>2, <1>5
  <2>3. j \in Before(places, score, k)
    BY <2>1, <2>2, OneOrTheOther
  <2> QED
    BY <2>3, <1>2 DEF Before
<1> HIDE DEF rank
<1> HIDE DEF best
<1>7. Len(best) = len /\ best \in Seq(places)
  <2>1. best \in Seq(places)
    BY <1>1
  <2>2. DOMAIN best = 1..Len(best) /\ Len(best) \in Nat
    BY <2>1
  <2> QED
    BY <1>1, <2>1, <2>2
<1>8. Range(best) = {best[m] : m \in 1..len}
  BY <1>1 DEF Range
<1>9. ASSUME NEW k \in places \ Range(best)
      PROVE  /\ len = TopK
             /\ \A j \in Range(best) : score[k] <= score[j]
  <2>1. len <= rank(k)
    <3> SUFFICES ASSUME rank(k) < len PROVE FALSE
      BY <1>2
    <3>1. rank(k) + 1 \in 1..len /\ rank(k) \in Int
      BY <1>2
    <3>2. best[rank(k) + 1] \in places /\ rank(best[rank(k) + 1]) = rank(k) + 1 - 1
      BY <1>1, <3>1
    <3>3. rank(k) + 1 - 1 = rank(k)
      BY <3>1
    <3>4. best[rank(k) + 1] = k
      BY <1>3, <3>2, <3>3
    <3> QED
      BY <3>1, <3>4, <1>8
  <2>2. len = TopK
    <3>1. rank(k) \in 0..(Cardinality(places) - 1)
      BY <1>2
    <3> QED
      BY <1>1, <1>4, <2>1, <3>1
  <2>3. ASSUME NEW j \in Range(best) PROVE score[k] <= score[j]
    <3>1. PICK m \in 1..len : j = best[m]
      BY <1>8
    <3>2. j \in places /\ rank(j) = m - 1
      BY <1>1, <3>1
    <3>3. rank(j) < rank(k)
      BY <1>2, <2>1, <3>2
    <3> QED
      BY <1>5, <3>2, <3>3
  <2> QED
    BY <2>2, <2>3
<1>10. ASSUME best # <<>>
       PROVE  /\ 1 \in DOMAIN best
              /\ \A k \in Range(best) : score[k] <= score[best[1]]
  <2>1. 1 \in 1..len
    <3>1. len # 0
      <4> SUFFICES ASSUME len = 0 PROVE FALSE
        OBVIOUS
      <4>1. best \in Seq(places)
        BY <1>7
      <4> QED
        BY <4>1, <1>7, <1>10
    <3> QED
      BY <3>1
  <2>2. best[1] \in places /\ rank(best[1]) = 0
    BY <1>1, <2>1
  <2>3. ASSUME NEW k \in Range(best) PROVE score[k] <= score[best[1]]
    <3>1. k \in places
      BY <1>1, <1>8
    <3>2. CASE k = best[1]
      BY <3>2, <3>1, <1>2
    <3>3. CASE k # best[1]
      <4>1. rank(k) # 0 /\ rank(k) \in Nat
        BY <3>1, <3>3, <2>2, <1>2, <1>3
      <4>2. rank(best[1]) < rank(k)
        BY <4>1, <2>2
      <4> QED
        BY <4>2, <2>2, <3>1, <1>5
    <3> QED
      BY <3>2, <3>3
  <2> QED
    BY <1>1, <2>1, <2>3
<1> QED
  BY <1>1, <1>7, <1>9, <1>10 DEF best
-----------------------------------------------------------------------------
(* Similarity.                                                             *)

Kinds == {"event_type", "region", "commodity", "supply_impact", "shipping_impact",
          "policy_mechanism", "market_regime", "volatility_regime", "macro_backdrop"}

LEMMA KindsAreWeighed ==
  /\ DOMAIN component_weights = Kinds /\ IsFiniteSet(Kinds)
  /\ \A c \in Kinds : component_weights[c] \in Nat
<1>1. DOMAIN component_weights = Kinds
  BY DEF component_weights, Kinds
<1>2. \A c \in Kinds : component_weights[c] \in Nat
  BY DEF component_weights, Kinds
<1>3. IsFiniteSet(Kinds)
  <2>1. /\ IsFiniteSet({"event_type", "region"}) /\ IsFiniteSet({"commodity", "supply_impact"})
        /\ IsFiniteSet({"shipping_impact", "policy_mechanism"})
        /\ IsFiniteSet({"market_regime", "volatility_regime"}) /\ IsFiniteSet({"macro_backdrop"})
    BY PairIsFinite, FS_Singleton
  <2>2. IsFiniteSet({"event_type", "region"} \union {"commodity", "supply_impact"})
    BY <2>1, FS_Union
  <2>3. IsFiniteSet({"shipping_impact", "policy_mechanism"} \union {"market_regime", "volatility_regime"})
    BY <2>1, FS_Union
  <2>4. IsFiniteSet(({"event_type", "region"} \union {"commodity", "supply_impact"})
         \union ({"shipping_impact", "policy_mechanism"} \union {"market_regime", "volatility_regime"}))
    BY <2>2, <2>3, FS_Union
  <2>5. IsFiniteSet((({"event_type", "region"} \union {"commodity", "supply_impact"})
         \union ({"shipping_impact", "policy_mechanism"} \union {"market_regime", "volatility_regime"}))
         \union {"macro_backdrop"})
    BY <2>1, <2>4, FS_Union
  <2>6. Kinds = (({"event_type", "region"} \union {"commodity", "supply_impact"})
         \union ({"shipping_impact", "policy_mechanism"} \union {"market_regime", "volatility_regime"}))
         \union {"macro_backdrop"}
    BY DEF Kinds
  <2> QED
    BY <2>5, <2>6
<1> QED
  BY <1>1, <1>2, <1>3

LEMMA ComponentType ==
  ASSUME NEW current, NEW historical, NEW c \in Kinds
  PROVE  Component(current, historical, c) \in 0..10
<1>1. ScalarPartial(current[c], historical[c]) \in 0..10
  BY DEF ScalarPartial
<1>2. c \notin Scalars => Partial[c] \in 0..10
  BY DEF Scalars, Partial, Kinds
<1> QED
  BY <1>1, <1>2 DEF Component

Parts(current, historical) ==
  [c \in Kinds |-> component_weights[c] * Component(current, historical, c)]

LEMMA PartsType ==
  ASSUME NEW current, NEW historical
  PROVE  /\ Similarity(current, historical) = SumFunctionOnSet(Parts(current, historical), Kinds)
         /\ \A c \in Kinds : /\ Parts(current, historical)[c] \in Int
                              /\ Parts(current, historical)[c] <= 10 * component_weights[c]
<1> DEFINE parts == Parts(current, historical)
<1>1. Similarity(current, historical) = SumFunction(parts)
  BY KindsAreWeighed DEF Similarity, Parts
<1>2. SumFunction(parts) = SumFunctionOnSet(parts, Kinds)
  BY DEF SumFunction, Parts
<1>3. ASSUME NEW c \in Kinds
      PROVE  parts[c] \in Int /\ parts[c] <= 10 * component_weights[c]
  <2> DEFINE w == component_weights[c]
             p == Component(current, historical, c)
  <2>1. w \in Nat /\ p \in 0..10 /\ parts[c] = w * p
    BY KindsAreWeighed, ComponentType DEF Parts
  <2> HIDE DEF w, p, parts
  <2>2. w * p \in Int /\ w * p <= 10 * w
    BY <2>1
  <2> QED
    BY <2>1, <2>2 DEF w
<1> QED
  BY <1>1, <1>2, <1>3

LEMMA SimilarityType ==
  ASSUME NEW current, NEW historical
  PROVE  Similarity(current, historical) \in Int
BY PartsType, KindsAreWeighed, SumIsInt

LEMMA OneMoreKind ==
  ASSUME NEW S, IsFiniteSet(S), NEW y, y \notin S,
         NEW most, \A c \in S \union {y} : most[c] \in Int
  PROVE  /\ IsFiniteSet(S \union {y})
         /\ SumFunctionOnSet(most, S \union {y}) = most[y] + SumFunctionOnSet(most, S)
BY SumOfOneMore, FS_AddElement

(* What everything but the type of an event can add up to.                 *)
LEMMA AllButTheType ==
  SumFunctionOnSet([c \in Kinds |-> 10 * component_weights[c]], Kinds \ {"event_type"}) = 700
<1> DEFINE most == [c \in Kinds |-> 10 * component_weights[c]]
           S0 == {}
           S1 == {"region"}
           S2 == {"region", "commodity"}
           S3 == {"region", "commodity", "supply_impact"}
           S4 == {"region", "commodity", "supply_impact", "shipping_impact"}
           S5 == {"region", "commodity", "supply_impact", "shipping_impact", "policy_mechanism"}
           S6 == {"region", "commodity", "supply_impact", "shipping_impact", "policy_mechanism", "market_regime"}
           S7 == {"region", "commodity", "supply_impact", "shipping_impact", "policy_mechanism", "market_regime", "volatility_regime"}
           S8 == {"region", "commodity", "supply_impact", "shipping_impact", "policy_mechanism", "market_regime", "volatility_regime", "macro_backdrop"}
<1>1. \A c \in Kinds : most[c] \in Int
  BY KindsAreWeighed
<1>2. /\ most["region"] = 100 /\ most["commodity"] = 100 /\ most["supply_impact"] = 150
      /\ most["shipping_impact"] = 100 /\ most["policy_mechanism"] = 100
      /\ most["market_regime"] = 50 /\ most["volatility_regime"] = 50 /\ most["macro_backdrop"] = 50
  BY DEF component_weights, Kinds
<1>3. IsFiniteSet(S0) /\ SumFunctionOnSet(most, S0) = 0
  BY FS_EmptySet, SumOfNone
<1> HIDE DEF most, S0, S1, S2, S3, S4, S5, S6, S7, S8
<1>4. IsFiniteSet(S1) /\ SumFunctionOnSet(most, S1) = 100
  <2>1. "region" \notin S0 /\ \A c \in S0 \union {"region"} : most[c] \in Int
    BY <1>1 DEF Kinds, S0
  <2>2. /\ IsFiniteSet(S0 \union {"region"})
        /\ SumFunctionOnSet(most, S0 \union {"region"}) = most["region"] + SumFunctionOnSet(most, S0)
    BY <2>1, <1>3, OneMoreKind, ZenonT(60)
  <2>3. S1 = S0 \union {"region"}
    BY DEF S0, S1
  <2> QED
    BY <2>2, <2>3, <1>2, <1>3
<1>5. IsFiniteSet(S2) /\ SumFunctionOnSet(most, S2) = 200
  <2>1. "commodity" \notin S1 /\ \A c \in S1 \union {"commodity"} : most[c] \in Int
    BY <1>1 DEF Kinds, S1
  <2>2. /\ IsFiniteSet(S1 \union {"commodity"})
        /\ SumFunctionOnSet(most, S1 \union {"commodity"}) = most["commodity"] + SumFunctionOnSet(most, S1)
    BY <2>1, <1>4, OneMoreKind, ZenonT(60)
  <2>3. S2 = S1 \union {"commodity"}
    BY DEF S1, S2
  <2> QED
    BY <2>2, <2>3, <1>2, <1>4
<1>6. IsFiniteSet(S3) /\ SumFunctionOnSet(most, S3) = 350
  <2>1. "supply_impact" \notin S2 /\ \A c \in S2 \union {"supply_impact"} : most[c] \in Int
    BY <1>1 DEF Kinds, S2
  <2>2. /\ IsFiniteSet(S2 \union {"supply_impact"})
        /\ SumFunctionOnSet(most, S2 \union {"supply_impact"}) = most["supply_impact"] + SumFunctionOnSet(most, S2)
    BY <2>1, <1>5, OneMoreKind, ZenonT(60)
  <2>3. S3 = S2 \union {"supply_impact"}
    BY DEF S2, S3
  <2> QED
    BY <2>2, <2>3, <1>2, <1>5
<1>7. IsFiniteSet(S4) /\ SumFunctionOnSet(most, S4) = 450
  <2>1. "shipping_impact" \notin S3 /\ \A c \in S3 \union {"shipping_impact"} : most[c] \in Int
    BY <1>1 DEF Kinds, S3
  <2>2. /\ IsFiniteSet(S3 \union {"shipping_impact"})
        /\ SumFunctionOnSet(most, S3 \union {"shipping_impact"}) = most["shipping_impact"] + SumFunctionOnSet(most, S3)
    BY <2>1, <1>6, OneMoreKind, ZenonT(60)
  <2>3. S4 = S3 \union {"shipping_impact"}
    BY DEF S3, S4
  <2> QED
    BY <2>2, <2>3, <1>2, <1>6
<1>8. IsFiniteSet(S5) /\ SumFunctionOnSet(most, S5) = 550
  <2>1. "policy_mechanism" \notin S4 /\ \A c \in S4 \union {"policy_mechanism"} : most[c] \in Int
    BY <1>1 DEF Kinds, S4
  <2>2. /\ IsFiniteSet(S4 \union {"policy_mechanism"})
        /\ SumFunctionOnSet(most, S4 \union {"policy_mechanism"}) = most["policy_mechanism"] + SumFunctionOnSet(most, S4)
    BY <2>1, <1>7, OneMoreKind, ZenonT(60)
  <2>3. S5 = S4 \union {"policy_mechanism"}
    BY DEF S4, S5
  <2> QED
    BY <2>2, <2>3, <1>2, <1>7
<1>9. IsFiniteSet(S6) /\ SumFunctionOnSet(most, S6) = 600
  <2>1. "market_regime" \notin S5 /\ \A c \in S5 \union {"market_regime"} : most[c] \in Int
    BY <1>1 DEF Kinds, S5
  <2>2. /\ IsFiniteSet(S5 \union {"market_regime"})
        /\ SumFunctionOnSet(most, S5 \union {"market_regime"}) = most["market_regime"] + SumFunctionOnSet(most, S5)
    BY <2>1, <1>8, OneMoreKind, ZenonT(60)
  <2>3. S6 = S5 \union {"market_regime"}
    BY DEF S5, S6
  <2> QED
    BY <2>2, <2>3, <1>2, <1>8
<1>10. IsFiniteSet(S7) /\ SumFunctionOnSet(most, S7) = 650
  <2>1. "volatility_regime" \notin S6 /\ \A c \in S6 \union {"volatility_regime"} : most[c] \in Int
    BY <1>1 DEF Kinds, S6
  <2>2. /\ IsFiniteSet(S6 \union {"volatility_regime"})
        /\ SumFunctionOnSet(most, S6 \union {"volatility_regime"}) = most["volatility_regime"] + SumFunctionOnSet(most, S6)
    BY <2>1, <1>9, OneMoreKind, ZenonT(60)
  <2>3. S7 = S6 \union {"volatility_regime"}
    BY DEF S6, S7
  <2> QED
    BY <2>2, <2>3, <1>2, <1>9
<1>11. IsFiniteSet(S8) /\ SumFunctionOnSet(most, S8) = 700
  <2>1. "macro_backdrop" \notin S7 /\ \A c \in S7 \union {"macro_backdrop"} : most[c] \in Int
    BY <1>1 DEF Kinds, S7
  <2>2. /\ IsFiniteSet(S7 \union {"macro_backdrop"})
        /\ SumFunctionOnSet(most, S7 \union {"macro_backdrop"}) = most["macro_backdrop"] + SumFunctionOnSet(most, S7)
    BY <2>1, <1>10, OneMoreKind, ZenonT(60)
  <2>3. S8 = S7 \union {"macro_backdrop"}
    BY DEF S7, S8
  <2> QED
    BY <2>2, <2>3, <1>2, <1>10
<1>12. S8 = Kinds \ {"event_type"}
  BY DEF Kinds, S8
<1> QED
  BY <1>11, <1>12 DEF most

(* Events of different types are alike to seven tenths at the most.        *)
LEMMA OtherTypes ==
  ASSUME NEW current, NEW historical, current.event_type # historical.event_type
  PROVE  Similarity(current, historical) <= 700
<1> DEFINE parts == Parts(current, historical)
           most == [c \in Kinds |-> 10 * component_weights[c]]
           others == Kinds \ {"event_type"}
<1>1. /\ Similarity(current, historical) = SumFunctionOnSet(parts, Kinds)
      /\ \A c \in Kinds : parts[c] \in Int /\ parts[c] <= 10 * component_weights[c]
  BY PartsType
<1>2. IsFiniteSet(Kinds) /\ IsFiniteSet(others) /\ "event_type" \in Kinds
  BY KindsAreWeighed, FS_RemoveElement DEF Kinds
<1>3. parts["event_type"] = 0
  <2>1. "event_type" \notin Scalars /\ Partial["event_type"] = 0
    BY DEF Scalars, Partial
  <2>2. Component(current, historical, "event_type") = 0
    BY <2>1 DEF Component
  <2>3. component_weights["event_type"] \in Nat
    BY <1>2, KindsAreWeighed
  <2> QED
    BY <1>2, <2>2, <2>3 DEF Parts
<1>4. \A c \in Kinds : most[c] \in Int /\ most[c] = 10 * component_weights[c]
  BY KindsAreWeighed
<1>5. SumFunctionOnSet(most, others) = 700
  BY AllButTheType
<1> HIDE DEF parts, most
<1>6. SumFunctionOnSet(parts, Kinds) = parts["event_type"] + SumFunctionOnSet(parts, others)
  BY <1>1, <1>2, SumLessOne
<1>7. 1 * SumFunctionOnSet(parts, others) <= 1 * SumFunctionOnSet(most, others)
  <2>1. \A c \in others : /\ parts[c] \in Int /\ most[c] \in Int
                          /\ 1 * parts[c] <= 1 * most[c]
    BY <1>1, <1>4
  <2> HIDE DEF others
  <2> QED
    BY <1>2, <2>1, SumsCompare
<1>8. SumFunctionOnSet(parts, others) \in Int
  BY <1>1, <1>2, SumIsInt
<1> QED
  BY <1>1, <1>3, <1>5, <1>6, <1>7, <1>8

-----------------------------------------------------------------------------
(* Answers.                                                                *)

(* What the answers rest on: the lookup is of the events registered, as    *)
(* long as none was corrected; the matches are of events known when the    *)
(* question came, and there is one when the confidence is high.            *)
LookupStands ==
  ~corrected => \A k \in DOMAIN events :
                  events[k].id \in DOMAIN lookup /\ lookup[events[k].id] = events[k]

MatchesAreKnown ==
  Asked => /\ context.known \in 0..Len(events)
           /\ DOMAIN context.matches = 1..Len(context.matches)
           /\ \A m \in DOMAIN context.matches : context.matches[m] \in 1..context.known
           /\ context.confidence = "high" => 1 \in DOMAIN context.matches

AnswersInv ==
  /\ events \in Seq(Events) /\ corrected \in BOOLEAN
  /\ LookupStands
  /\ MatchesAreKnown
  /\ Grounded

(* What was said of the events known then, stays true as others come.      *)
LEMMA AnswersStand ==
  ASSUME AnswersInv, NEW event \in Events, RegisterEvent(event)
  PROVE  AnswersInv'
<1> DEFINE len == Len(events)
<1>1. /\ events \in Seq(Events) /\ len \in Nat /\ DOMAIN events = 1..len
      /\ events' = Append(events, event) /\ events' \in Seq(Events)
      /\ UNCHANGED context /\ UNCHANGED advice /\ corrected \in BOOLEAN
  BY DEF AnswersInv, RegisterEvent
<1>2. /\ Len(events') = len + 1 /\ DOMAIN events' = 1..(len + 1)
      /\ events'[len + 1] = event /\ \A k \in 1..len : events'[k] = events[k]
  BY <1>1
<1>3. corrected' \in BOOLEAN /\ (~corrected' => ~corrected /\ event.id \notin DOMAIN lookup)
  BY <1>1 DEF RegisterEvent
<1>4. LookupStands'
  <2> SUFFICES ASSUME ~corrected', NEW k \in DOMAIN events'
               PROVE  events'[k].id \in DOMAIN lookup' /\ lookup'[events'[k].id] = events'[k]
    BY DEF LookupStands
  <2>1. lookup' = [id \in DOMAIN lookup \union {event.id} |->
                     IF id = event.id THEN event ELSE lookup[id]]
    BY DEF RegisterEvent
  <2>2. CASE k = len + 1
    BY <1>2, <2>1, <2>2
  <2>3. CASE k # len + 1
    <3>1. k \in 1..len /\ events'[k] = events[k]
      BY <1>1, <1>2, <2>3
    <3>2. events[k].id \in DOMAIN lookup /\ lookup[events[k].id] = events[k]
      BY <1>1, <1>3, <3>1 DEF AnswersInv, LookupStands
    <3>3. events[k].id # event.id
      BY <1>3, <3>2
    <3> QED
      BY <2>1, <3>1, <3>2, <3>3
  <2> QED
    BY <2>2, <2>3
<1>5. /\ Asked' => Asked
      /\ Asked => /\ context.known \in 0..len
                  /\ DOMAIN context.matches = 1..Len(context.matches)
                  /\ \A m \in DOMAIN context.matches : context.matches[m] \in 1..context.known
                  /\ context.confidence = "high" => 1 \in DOMAIN context.matches
  BY <1>1 DEF AnswersInv, MatchesAreKnown, Asked
<1>6. MatchesAreKnown'
  BY <1>1, <1>2, <1>5 DEF MatchesAreKnown
<1>7. Asked => /\ \A k \in 1..context.known : events'[k] = events[k]
               /\ \A m \in DOMAIN context.matches :
                    events'[context.matches[m]] = events[context.matches[m]]
  BY <1>1, <1>2, <1>5
<1>8. NothingNearer'
  <2> SUFFICES ASSUME Asked, NEW k \in (1..context.known) \ Range(context.matches),
                      Similarity(context.setup, events'[k].fingerprint) >= MinSimilarity
               PROVE  /\ Len(context.matches) = TopK
                      /\ \A m \in Range(context.matches) :
                           Similarity(context.setup, events'[k].fingerprint)
                             <= Similarity(context.setup, events'[m].fingerprint)
    BY <1>1, <1>5 DEF NothingNearer, Similar
  <2>1. Similar(context.setup, k) >= MinSimilarity
    BY <1>7 DEF Similar
  <2>2. /\ Len(context.matches) = TopK
        /\ \A m \in Range(context.matches) :
             Similar(context.setup, k) <= Similar(context.setup, m)
    BY <2>1 DEF AnswersInv, Grounded, NothingNearer
  <2>3. \A m \in Range(context.matches) : events'[m] = events[m]
    BY <1>7 DEF Range
  <2> QED
    BY <1>7, <2>2, <2>3 DEF Similar
<1>9. HighIsOfItsType'
  BY <1>1, <1>5, <1>7 DEF HighIsOfItsType, AnswersInv, Grounded
<1>10. OutcomesAreOfTheMatches'
  <2> SUFFICES ASSUME Asked, ~corrected
               PROVE  context.outcomes =
                        Known([m \in DOMAIN context.matches |-> events'[context.matches[m]]], "outcome")
    BY <1>1, <1>3, <1>5 DEF OutcomesAreOfTheMatches
  <2>1. [m \in DOMAIN context.matches |-> events'[context.matches[m]]]
          = [m \in DOMAIN context.matches |-> events[context.matches[m]]]
    BY <1>7
  <2> QED
    BY <2>1 DEF AnswersInv, Grounded, OutcomesAreOfTheMatches
<1>11. AdviceIsEarned'
  BY <1>1 DEF AnswersInv, Grounded, AdviceIsEarned
<1> QED
  BY <1>1, <1>3, <1>4, <1>6, <1>8, <1>9, <1>10, <1>11 DEF AnswersInv, Grounded

(* The matches of a question are the best of the events near enough.       *)
LEMMA MatchesAreBest ==
  ASSUME events \in Seq(Events), NEW setup
  PROVE  /\ Len(EventMatches(setup)) \in Nat
         /\ DOMAIN EventMatches(setup) = 1..Len(EventMatches(setup))
         /\ \A m \in DOMAIN EventMatches(setup) : EventMatches(setup)[m] \in 1..Len(events)
         /\ \A k \in (1..Len(events)) \ Range(EventMatches(setup)) :
              Similar(setup, k) >= MinSimilarity =>
                /\ Len(EventMatches(setup)) = TopK
                /\ \A j \in Range(EventMatches(setup)) : Similar(setup, k) <= Similar(setup, j)
         /\ EventMatches(setup) # <<>> =>
              /\ 1 \in DOMAIN EventMatches(setup)
              /\ \A k \in Range(EventMatches(setup)) :
                   Similar(setup, k) <= Similar(setup, EventMatches(setup)[1])
<1> DEFINE places == {k \in DOMAIN events : Similar(setup, k) >= MinSimilarity}
           score == [k \in DOMAIN events |-> Similar(setup, k)]
           best == BestFirst(places, score)
<1>1. Len(events) \in Nat /\ DOMAIN events = 1..Len(events)
  OBVIOUS
<1>2. \A k \in DOMAIN events : score[k] = Similar(setup, k) /\ score[k] \in Int /\ k \in Int
  BY <1>1, SimilarityType DEF Similar
<1>3. IsScored(places, score)
  <2>1. IsFiniteSet(1..Len(events))
    BY <1>1, FS_Interval
  <2>2. IsFiniteSet(places)
    BY <1>1, <2>1, FS_Subset
  <2> QED
    BY <1>2, <2>2 DEF IsScored
<1>4. EventMatches(setup) = best
  BY DEF EventMatches
<1>5. /\ places \subseteq 1..Len(events)
      /\ \A k \in 1..Len(events) : Similar(setup, k) >= MinSimilarity => k \in places
      /\ \A k \in 1..Len(events) : score[k] = Similar(setup, k)
  BY <1>1, <1>2
<1> HIDE DEF places, score
<1>6. /\ Len(best) \in Nat /\ DOMAIN best = 1..Len(best)
      /\ \A m \in DOMAIN best : best[m] \in places
      /\ \A k \in places \ Range(best) :
           Len(best) = TopK /\ \A j \in Range(best) : score[k] <= score[j]
      /\ best # <<>> =>
           1 \in DOMAIN best /\ \A k \in Range(best) : score[k] <= score[best[1]]
  BY <1>3, BestAreFirst
<1> HIDE DEF best
<1>7. \A k \in Range(best) : k \in 1..Len(events)
  BY <1>5, <1>6 DEF Range
<1>8. ASSUME NEW k \in (1..Len(events)) \ Range(best), Similar(setup, k) >= MinSimilarity
      PROVE  Len(best) = TopK /\ \A j \in Range(best) : Similar(setup, k) <= Similar(setup, j)
  <2>1. k \in places \ Range(best) /\ score[k] = Similar(setup, k)
    BY <1>5, <1>8
  <2> QED
    BY <2>1, <1>5, <1>6, <1>7
<1>9. ASSUME best # <<>>
      PROVE  1 \in DOMAIN best /\ \A k \in Range(best) : Similar(setup, k) <= Similar(setup, best[1])
  <2>1. 1 \in DOMAIN best /\ best[1] \in 1..Len(events)
    BY <1>5, <1>6, <1>9
  <2> QED
    BY <2>1, <1>5, <1>6, <1>7, <1>9
<1>10. \A m \in DOMAIN best : best[m] \in 1..Len(events)
  BY <1>5, <1>6
<1> QED
  BY <1>4, <1>6, <1>8, <1>9, <1>10

(* A question is answered by what the records say.                         *)
LEMMA QuestionsAreAnswered ==
  ASSUME AnswersInv, NEW setup, NEW type, Ask(setup, type)
  PROVE  AnswersInv'
<1> DEFINE matches == EventMatches(setup)
           matched == [m \in DOMAIN matches |-> lookup[events[matches[m]].id]]
           near == {Similar(setup, matches[m]) : m \in DOMAIN matches}
           confidence == IF matches = <<>> THEN "no_analog" ELSE Quality(Max(near))
<1>1. /\ events \in Seq(Events) /\ corrected \in BOOLEAN /\ Len(events) \in Nat
      /\ UNCHANGED events /\ UNCHANGED lookup /\ UNCHANGED advice /\ UNCHANGED corrected
  BY DEF AnswersInv, Ask
<1>2. /\ context'.setup = setup /\ context'.known = Len(events)
      /\ context'.matches = matches /\ context'.confidence = confidence
      /\ context'.outcomes = Known(matched, "outcome")
  BY DEF Ask
<1>3. /\ Len(matches) \in Nat /\ DOMAIN matches = 1..Len(matches)
      /\ \A m \in DOMAIN matches : matches[m] \in 1..Len(events)
      /\ \A k \in (1..Len(events)) \ Range(matches) :
           Similar(setup, k) >= MinSimilarity =>
             /\ Len(matches) = TopK
             /\ \A j \in Range(matches) : Similar(setup, k) <= Similar(setup, j)
      /\ matches # <<>> =>
           /\ 1 \in DOMAIN matches
           /\ \A k \in Range(matches) : Similar(setup, k) <= Similar(setup, matches[1])
  BY <1>1, MatchesAreBest
<1> HIDE DEF matches
<1>4. confidence = "high" => matches # <<>> /\ Max(near) >= 800
  BY DEF Quality
<1>5. Asked'
  BY <1>2 DEF Asked, Quality
<1> HIDE DEF confidence
<1>6. MatchesAreKnown'
  BY <1>1, <1>2, <1>3, <1>4 DEF MatchesAreKnown
<1>7. NothingNearer'
  BY <1>1, <1>2, <1>3 DEF NothingNearer, Similar
<1>8. HighIsOfItsType'
  <2> SUFFICES ASSUME confidence = "high"
               PROVE  events[matches[1]].fingerprint.event_type = setup.event_type
    BY <1>1, <1>2 DEF HighIsOfItsType
  <2>1. /\ matches # <<>> /\ Max(near) >= 800 /\ 1 \in DOMAIN matches
        /\ \A k \in Range(matches) : Similar(setup, k) <= Similar(setup, matches[1])
    BY <1>3, <1>4
  <2>2. \A m \in DOMAIN matches : Similar(setup, matches[m]) \in Int
    BY SimilarityType DEF Similar
  <2>3. near \in SUBSET Int /\ near # {}
    BY <2>1, <2>2
  <2>4. IsFiniteSet(near)
    <3> DEFINE to == [m \in DOMAIN matches |-> Similar(setup, matches[m])]
    <3>1. IsFiniteSet(DOMAIN matches)
      BY <1>3, FS_Interval
    <3>2. IsFiniteSet({to[m] : m \in DOMAIN matches})
      <4> HIDE DEF to
      <4> QED
        BY <3>1, ImageIsFinite
    <3>3. {to[m] : m \in DOMAIN matches} = near
      OBVIOUS
    <3> QED
      BY <3>2, <3>3
  <2>5. Max(near) \in near
    <3> HIDE DEF near
    <3> QED
      BY <2>3, <2>4, GreatestOfFinite
  <2>6. PICK m \in DOMAIN matches : Max(near) = Similar(setup, matches[m])
    BY <2>5
  <2>7. Similar(setup, matches[m]) <= Similar(setup, matches[1])
    BY <2>1 DEF Range
  <2>8. Similar(setup, matches[1]) >= 800 /\ Similar(setup, matches[1]) \in Int
    <3> HIDE DEF near
    <3> QED
      BY <2>1, <2>2, <2>6, <2>7
  <2>9. ~(Similar(setup, matches[1]) <= 700)
    BY <2>8
  <2> QED
    BY <2>9, OtherTypes DEF Similar
<1>9. OutcomesAreOfTheMatches'
  <2> SUFFICES ASSUME ~corrected
               PROVE  matched = [m \in DOMAIN matches |-> events[matches[m]]]
    BY <1>1, <1>2 DEF OutcomesAreOfTheMatches
  <2>1. \A m \in DOMAIN matches : lookup[events[matches[m]].id] = events[matches[m]]
    BY <1>1, <1>3 DEF AnswersInv, LookupStands
  <2> QED
    BY <2>1
<1>10. AdviceIsEarned' /\ LookupStands'
  BY <1>1 DEF AnswersInv, Grounded, AdviceIsEarned, LookupStands
<1> QED
  BY <1>1, <1>6, <1>7, <1>8, <1>9, <1>10 DEF AnswersInv, Grounded

(* Sizes go up only as they may.                                           *)
LEMMA SizesAreEarned ==
  ASSUME NEW r \in ReturnCards, NEW d \in DrawdownCards, NEW base \in Allocations, Score(r, d, base)
  PROVE  AdviceIsEarned'
<1> DEFINE return == ReturnPrediction(r).prediction
           drawdown == DrawdownPrediction(d).prediction
           suggested == CASE drawdown > 15 \/ return < 5  -> (base * 8) \div 10
                          [] return > 12 /\ drawdown < 10 -> (base * 12) \div 10
                          [] OTHER                        -> base
           least == Min({suggested, 500})
           size == Max({100, least})
           bar == Max({base, 100})
<1>1. /\ advice'.size = size /\ advice'.base = base /\ advice'.of = {r, d}
  BY DEF Score, SuggestedSize
<1>2. base \in Int /\ r.sharpe \in Int /\ d.drawdown \in Int
  BY AnalogsAssumption
<1>3. /\ return \in Int /\ drawdown \in Int
      /\ return > 12 => r.champion /\ r.sharpe > 12
      /\ drawdown < 10 => d = Nobody \/ (d.drawdown # 0 /\ d.drawdown < 10)
  BY <1>2 DEF ReturnPrediction, DrawdownPrediction
<1> HIDE DEF return, drawdown
<1>4. /\ suggested \in Int
      /\ suggested > base /\ suggested > 100 => return > 12 /\ drawdown < 10
  <2>1. CASE drawdown > 15 \/ return < 5
    BY <1>2, <1>3, <2>1
  <2>2. CASE return > 12 /\ drawdown < 10
    <3>1. ~(drawdown > 15 \/ return < 5)
      BY <1>3, <2>2
    <3>2. suggested = (base * 12) \div 10
      BY <2>2, <3>1
    <3>3. (base * 12) \div 10 \in Int
      BY <1>2
    <3> QED
      BY <2>2, <3>2, <3>3
  <2>3. CASE ~(drawdown > 15 \/ return < 5) /\ ~(return > 12 /\ drawdown < 10)
    <3>1. suggested = base
      BY <2>3
    <3> QED
      BY <1>2, <3>1
  <2> QED
    BY <2>1, <2>2, <2>3
<1> HIDE DEF suggested
<1>5. least \in {suggested, 500} /\ least <= suggested /\ least <= 500
  BY <1>4, MaxOfTwo
<1>6. least \in Int
  BY <1>4, <1>5
<1> HIDE DEF least
<1>7. size \in {100, least} /\ 100 <= size
  BY <1>6, MaxOfTwo
<1>8. bar \in {base, 100} /\ base <= bar /\ 100 <= bar
  BY <1>2, MaxOfTwo
<1> HIDE DEF size, bar
<1>9. size \in 100..500
  BY <1>5, <1>6, <1>7
<1>10. size > bar => return > 12 /\ drawdown < 10
  BY <1>2, <1>4, <1>5, <1>6, <1>7, <1>8
<1>11. size > bar => /\ \E of \in {r, d} : of.champion /\ of.sharpe > 12
                     /\ \E of \in {r, d} : of = Nobody \/ (of.drawdown # 0 /\ of.drawdown < 10)
  BY <1>3, <1>10
<1> QED
  BY <1>1, <1>9, <1>11 DEF AdviceIsEarned, bar

(* For every history of events, every question and every score, an answer  *)
(* is of the nearest events, its confidence is high only for one of the    *)
(* same type, its outcomes are those of its matches, and no advice goes    *)
(* above what was asked for that the models do not support (learning/      *)
(* analogs.py, learning/integration.py).                                   *)
THEOREM AnswersAreGrounded == AnalogsSpec => []Grounded
<1>1. AnalogsInit => AnswersInv
  <2> SUFFICES ASSUME AnalogsInit PROVE AnswersInv
    OBVIOUS
  <2>1. events = <<>> /\ context = NoContext /\ advice = NoAdvice /\ corrected = FALSE
    BY DEF AnalogsInit
  <2>2. ~Asked
    BY <2>1 DEF Asked, NoContext
  <2>3. events \in Seq(Events) /\ DOMAIN events = {}
    BY <2>1
  <2> QED
    BY <2>1, <2>2, <2>3 DEF AnswersInv, LookupStands, MatchesAreKnown, Grounded, NothingNearer,
         HighIsOfItsType, OutcomesAreOfTheMatches, AdviceIsEarned
<1>2. AnswersInv /\ [AnalogsNext]_analogVars => AnswersInv'
  <2> SUFFICES ASSUME AnswersInv, [AnalogsNext]_analogVars PROVE AnswersInv'
    OBVIOUS
  <2>1. ASSUME NEW event \in Events, RegisterEvent(event) PROVE AnswersInv'
    BY <2>1, AnswersStand
  <2>2. ASSUME NEW trade \in Trades, RegisterTrade(trade) PROVE AnswersInv'
    BY <2>2 DEF RegisterTrade, AnswersInv, LookupStands, MatchesAreKnown, Grounded, NothingNearer,
         HighIsOfItsType, OutcomesAreOfTheMatches, AdviceIsEarned, Asked, Similar
  <2>3. ASSUME NEW setup \in Setups, NEW type \in {trade.type : trade \in Trades}, Ask(setup, type)
        PROVE  AnswersInv'
    BY <2>3, QuestionsAreAnswered
  <2>4. ASSUME NEW r \in ReturnCards, NEW d \in DrawdownCards, NEW base \in Allocations,
               Score(r, d, base)
        PROVE  AnswersInv'
    <3>1. AdviceIsEarned'
      BY <2>4, SizesAreEarned
    <3> QED
      BY <2>4, <3>1 DEF Score, AnswersInv, LookupStands, MatchesAreKnown, Grounded, NothingNearer,
           HighIsOfItsType, OutcomesAreOfTheMatches, Asked, Similar
  <2>5. CASE UNCHANGED analogVars
    BY <2>5 DEF analogVars, AnswersInv, LookupStands, MatchesAreKnown, Grounded, NothingNearer,
         HighIsOfItsType, OutcomesAreOfTheMatches, AdviceIsEarned, Asked, Similar
  <2> QED
    BY <2>1, <2>2, <2>3, <2>4, <2>5 DEF AnalogsNext
<1>3. AnswersInv => Grounded
  BY DEF AnswersInv
<1> QED
  BY <1>1, <1>2, <1>3, PTL DEF AnalogsSpec
=============================================================================
