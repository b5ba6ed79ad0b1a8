--------------------------- MODULE ModelRegistry ---------------------------
(***************************************************************************)
(* The model registry: learning/registry.py, for one model type, with the  *)
(* cards that the learning orchestrator registers in it.                   *)
(*                                                                         *)
(* A method changes the cards in memory and then writes a file per changed *)
(* card.  One thread calls the methods, so a method is one action, with    *)
(* how far its writing came: a write may raise or the process may die,     *)
(* before a file is touched or when it has been truncated.  A restart      *)
(* reads the files.                                                        *)
(*                                                                         *)
(* Abstractions: a card is its id and status.  All versions are "1.0", so  *)
(* an id names a file, and a model trained again has the id it had before. *)
(***************************************************************************)
EXTENDS FiniteSets, Integers, SequencesExt

CONSTANTS
  Ids,       \* model ids
  MaxCards   \* bound: how many cards are registered

None == "NONE"
Demotion == "DEMOTION"

ASSUME IdsAssumption == IsFiniteSet(Ids) /\ None \notin Ids /\ Demotion \notin Ids

VARIABLES
  cards,      \* models[model_type]: the cards in memory, in order
  champion,   \* champions[model_type]: an id
  files,      \* [Ids -> what the card file of the id holds]
  decisions,  \* what the decisions on file were: whom they promoted, or a demotion
  up,         \* the process runs
  orderly,    \* history: no demotion, no id registered twice, no champion promoted
  failures    \* history: how writes have failed; bound: in one way only

registryVars == <<cards, champion, files, decisions, up, orderly, failures>>

NoFile == [id |-> None, status |-> None]
Unreadable == [id |-> None, status |-> "UNREADABLE"]

Statuses == {"draft", "challenger", "champion", "retired"}
CardType == [id : Ids, status : Statuses]

RegistryTypeOK ==
  /\ cards \in Seq(CardType)
  /\ champion \in Ids \union {None}
  /\ files \in [Ids -> CardType \union {NoFile, Unreadable}]
  /\ decisions \subseteq Ids \union {Demotion}
  /\ up \in BOOLEAN
  /\ orderly \in BOOLEAN
  /\ failures \subseteq {"DIED", "TORN", "RAISED"}

RegistryInit ==
  /\ cards = <<>>
  /\ champion = None
  /\ files = [id \in Ids |-> NoFile]
  /\ decisions = {}
  /\ up = TRUE
  /\ orderly = TRUE
  /\ failures = {}

-----------------------------------------------------------------------------
(* Places in the list of cards; 0 is none.                                 *)

FirstOf(places) ==
  IF places = {} THEN 0 ELSE CHOOSE k \in places : \A j \in places : k <= j

LastOf(places) == CHOOSE k \in places : \A j \in places : j <= k

Card(id) == FirstOf({k \in DOMAIN cards : cards[k].id = id})

GetChampion == IF champion = None THEN 0 ELSE Card(champion)

GetChallenger(list) == FirstOf({k \in DOMAIN list : list[k].status = "challenger"})

Put(list, k, status) == [list EXCEPT ![k] = [id |-> @.id, status |-> status]]

-----------------------------------------------------------------------------
(* Files.                                                                  *)

FilesAfter(saved) ==
  [id \in Ids |->
     LET own == {j \in DOMAIN saved : saved[j].id = id}
     IN IF own = {} THEN files[id] ELSE saved[LastOf(own)]]

\* Mutation: the cards are written before the decision.
PersistDecisionLast(decided, saves) ==
  \/ /\ files' = FilesAfter(saves)
     /\ decisions' = decisions \union decided
     /\ UNCHANGED <<up, failures>>
  \/ \E how \in {"DIED", "RAISED"} :
       /\ failures \subseteq {how}
       /\ \E n \in 0..Len(saves) : files' = FilesAfter(SubSeq(saves, 1, n))
       /\ up' = (how = "RAISED")
       /\ failures' = failures \union {how}
       /\ UNCHANGED decisions

\* Writes a decision, if there is one, and then the cards, one after the other.
Persist(decided, saves) ==
  \/ /\ files' = FilesAfter(saves)
     /\ decisions' = decisions \union decided
     /\ UNCHANGED <<up, failures>>
  \/ \E how \in {"DIED", "RAISED"} :
       /\ failures \subseteq {how}
       /\ \/ decided # {} /\ UNCHANGED <<files, decisions>>
          \/ /\ decisions' = decisions \union decided
             /\ \E n \in 0..Len(saves) - 1 : files' = FilesAfter(SubSeq(saves, 1, n))
       /\ up' = (how = "RAISED")
       /\ failures' = failures \union {how}
  \/ /\ decisions' = decisions \union decided
     /\ \E n \in DOMAIN saves :
          files' = [FilesAfter(SubSeq(saves, 1, n - 1)) EXCEPT ![saves[n].id] = Unreadable]
     /\ failures \subseteq {"TORN"}
     /\ up' \in BOOLEAN
     /\ failures' = failures \union {"TORN"}

-----------------------------------------------------------------------------
(* Methods.                                                                *)

Register(id, status) ==
  /\ up
  /\ Len(cards) < MaxCards
  /\ cards' = Append(cards, [id |-> id, status |-> status])
  /\ Persist({}, <<[id |-> id, status |-> status]>>)
  /\ orderly' = (orderly /\ Card(id) = 0)
  /\ UNCHANGED champion

\* Mutation: the retired champion's card is not saved.
ChangedCandidate(list, candidate, current) == <<list[candidate]>>

\* Mutation: the retired champion's card is saved first.
ChangedChampionFirst(list, candidate, current) ==
  IF current = 0 THEN <<list[candidate]>> ELSE <<list[current], list[candidate]>>

\* What a decision saves: the candidate and, if there was one, the champion.
Changed(list, candidate, current) ==
  IF current = 0 THEN <<list[candidate]>> ELSE <<list[candidate], list[current]>>

Decide(id, decided, list) ==
  /\ cards' = list
  /\ Persist(decided, Changed(list, Card(id), GetChampion))

\* The order matters when the candidate is the champion: it ends retired.
Promote(id) ==
  LET crowned == Put(cards, Card(id), "champion")
  IN /\ up
     /\ Card(id) # 0
     /\ Decide(id, {id},
               IF GetChampion = 0 THEN crowned ELSE Put(crowned, GetChampion, "retired"))
     /\ champion' = id
     /\ orderly' = (orderly /\ Card(id) # GetChampion)

\* Whatever was demoted, a challenger becomes champion; its card is not saved.
Demote(id) ==
  LET without    == IF champion = id THEN Put(cards, Card(id), "retired") ELSE cards
      challenger == GetChallenger(without)
  IN /\ up
     /\ Card(id) # 0
     /\ Decide(id, {Demotion},
               IF challenger = 0 THEN without ELSE Put(without, challenger, "champion"))
     /\ champion' = IF challenger = 0 THEN champion ELSE cards[challenger].id
     /\ orderly' = FALSE

Hold(id) ==
  /\ up
  /\ Card(id) # 0
  /\ Decide(id, {}, cards)
  /\ UNCHANGED <<champion, orderly>>

SetShadowDeployment(id) ==
  /\ up
  /\ Card(id) # 0
  /\ Persist({}, <<cards[Card(id)]>>)
  /\ UNCHANGED <<cards, champion, orderly>>

\* _load_all: the readable files in any order; the last champion read stays.
Restart ==
  \E order \in SetToSeqs({id \in Ids : files[id] \in CardType}) :
    LET loaded    == [k \in DOMAIN order |-> files[order[k]]]
        champions == {k \in DOMAIN loaded : loaded[k].status = "champion"}
    IN /\ cards' = loaded
       /\ champion' = IF champions = {} THEN None ELSE order[LastOf(champions)]
       /\ up' = TRUE
       /\ UNCHANGED <<files, decisions, orderly, failures>>

RegistryNext ==
  \/ Restart
  \/ \E id \in Ids :
       \/ \E status \in {"draft", "challenger"} : Register(id, status)
       \/ Promote(id)
       \/ Demote(id)
       \/ Hold(id)
       \/ SetShadowDeployment(id)

RegistrySpec == RegistryInit /\ [][RegistryNext]_registryVars

-----------------------------------------------------------------------------
(* Properties.                                                             *)

(* Used as intended and with every write made, promotions, retirements and *)
(* restarts leave one champion, the one decisions are made with, and the   *)
(* files say what memory says (registry.py:83, :134).                      *)
OneChampion ==
  orderly /\ failures = {} =>
    \A k \in DOMAIN cards :
      /\ files[cards[k].id] = cards[k]
      /\ (cards[k].status = "champion") = (cards[k].id = champion)

(* The audit trail (registry.py:10): a card on file is a champion only     *)
(* after a decision on file that made it one, wherever the process died.   *)
ChampionsAreDecided ==
  "RAISED" \notin failures =>
    \A id \in Ids : files[id].status = "champion" =>
      id \in decisions \/ Demotion \in decisions

(* Used as intended, a promotion that dies between its writes never leaves *)
(* the files without a champion: the new one is saved before the old one   *)
(* is retired (registry.py:135).                                           *)
ChampionOnFile == \E id \in Ids : files[id].status = "champion"

ChampionOutlivesDeath ==
  [][orderly' /\ failures' \subseteq {"DIED"} /\ ChampionOnFile => ChampionOnFile']_registryVars

(* "Only champion models affect decisions" (registry.py:12): get_champion, *)
(* which predictions are made with, never returns a model that is none.    *)
OnlyChampionsServe ==
  GetChampion # 0 => cards[GetChampion].status = "champion"
=============================================================================
