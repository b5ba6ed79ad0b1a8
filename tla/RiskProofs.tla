----------------------------- MODULE RiskProofs -----------------------------
(* Machine-checked proofs about KillSwitch, for any signors, roles and     *)
(* verifier, any threshold, and writes of the state file that may fail;    *)
(* about the Governor that trips it, for any portfolios it audits; and of  *)
(* what is held, about Exposure and Sizing, for any tranches, ranks,       *)
(* limits, scores and budgets.                                             *)
EXTENDS Governor, Exposure, Sizing, Sums

-----------------------------------------------------------------------------
(* Operators of the model.                                                 *)

LEMMA SavedIsNoMark ==
  ASSUME NEW st \in SwitchStates, NEW n, NEW s
  PROVE  Saved(st, n, s) \notin {NoFile, Unreadable}
<1>1. st # "NO_FILE" /\ st # "UNREADABLE"
  BY DEF SwitchStates
<1>2. /\ Saved(st, n, s).state = st
      /\ NoFile.state = "NO_FILE" /\ Unreadable.state = "UNREADABLE"
  BY DEF Saved, NoFile, Unreadable
<1> QED
  BY <1>1, <1>2

LEMMA NoSignaturesIsEmpty ==
  /\ NoSignatures \in Signatures
  /\ \A r \in AuthorizedRoles : NoSignatures[r] = Nobody
  /\ SignedRoles(NoSignatures) = {}
BY DEF NoSignatures, Signatures, SignedRoles

LEMMA SignedOne ==
  ASSUME NEW s \in Signatures, NEW r \in AuthorizedRoles, NEW p \in Signors
  PROVE  /\ [s EXCEPT ![r] = p] \in Signatures
         /\ SignedRoles([s EXCEPT ![r] = p]) = SignedRoles(s) \union {r}
BY NobodyAssumption DEF Signatures, SignedRoles

\* Two signatures are those of two roles.
LEMMA SecondRole ==
  ASSUME NEW S, NEW r, r \notin S, Cardinality(S \union {r}) >= 2
  PROVE  \E t \in S : t # r
<1>1. CASE S = {}
  <2>1. S \union {r} = {r}
    BY <1>1
  <2>2. Cardinality({r}) = 1
    BY FS_Singleton
  <2> QED
    BY <2>1, <2>2
<1>2. CASE S # {}
  BY <1>2
<1> QED
  BY <1>1, <1>2

(* What a new process starts from.                                         *)
LEMMA RestartType ==
  ASSUME TypeOK, Restart
  PROVE  state' \in SwitchStates /\ rejections' \in Nat /\ sigs' \in Signatures
<1>1. CASE disk \in {NoFile, Unreadable}
  <2>1. /\ state' \in {"ARMED_NOMINAL", "TRIPPED_AUTO"}
        /\ rejections' = 0 /\ sigs' = NoSignatures
    BY <1>1 DEF Restart
  <2> QED
    BY <2>1, NoSignaturesIsEmpty DEF SwitchStates
<1>2. CASE disk \notin {NoFile, Unreadable}
  <2>1. disk \in SavedType
    BY <1>2 DEF TypeOK
  <2>2. state' = disk.state /\ rejections' = disk.rejections /\ sigs' = disk.sigs
    BY <1>2 DEF Restart
  <2> QED
    BY <2>1, <2>2 DEF SavedType
<1> QED
  BY <1>1, <1>2

-----------------------------------------------------------------------------
(* Type correctness.                                                       *)

LEMMA InitType == Init => TypeOK
<1> SUFFICES ASSUME Init PROVE TypeOK
  OBVIOUS
<1>1. state \in SwitchStates
  BY DEF Init, SwitchStates
<1>2. sigs \in Signatures
  BY NoSignaturesIsEmpty DEF Init
<1>3. disk \in SavedType \union {NoFile, Unreadable}
  BY DEF Init
<1> QED
  BY <1>1, <1>2, <1>3 DEF Init, TypeOK

LEMMA PersistType ==
  ASSUME TypeOK, state' \in SwitchStates, rejections' \in Nat, sigs' \in Signatures,
         Persists \/ PersistFails
  PROVE  disk' \in SavedType \union {NoFile, Unreadable}
BY DEF TypeOK, Persists, PersistFails, Saved, SavedType

LEMMA EngageType ==
  ASSUME TypeOK, NEW st \in {"TRIPPED_AUTO", "ENGAGED_MANUAL"}, NEW n \in Nat,
         Engage(st, n), streak' \in Nat, UNCHANGED reliable
  PROVE  TypeOK'
<1>1. state' \in SwitchStates /\ rejections' \in Nat /\ sigs' \in Signatures
  BY NoSignaturesIsEmpty DEF Engage, SwitchStates
<1>2. disk' \in SavedType \union {NoFile, Unreadable}
  BY <1>1, PersistType DEF Engage
<1> QED
  BY <1>1, <1>2 DEF Engage, TypeOK

LEMMA RejectionType ==
  ASSUME TypeOK, RecordOrderRejection, UNCHANGED reliable
  PROVE  TypeOK'
<1>1. streak' \in Nat /\ rejections + 1 \in Nat
  BY DEF RecordOrderRejection, TypeOK
<1> QED
  BY <1>1, EngageType DEF RecordOrderRejection, TypeOK

LEMMA SubmitType ==
  ASSUME TypeOK, NEW p \in Signors, NEW r \in Roles, SubmitResetAuthorization(p, r),
         UNCHANGED reliable
  PROVE  TypeOK'
<1>1. Disengage \/ AwaitSecond(p, r)
  BY DEF SubmitResetAuthorization
<1>2. r \in AuthorizedRoles
  BY DEF SubmitResetAuthorization
<1>3. /\ state' \in SwitchStates /\ rejections' \in Nat /\ sigs' \in Signatures
      /\ streak' \in Nat
  BY <1>1, <1>2, NoSignaturesIsEmpty, SignedOne DEF Disengage, AwaitSecond,
     SwitchStates, TypeOK
<1>4. disk' \in SavedType \union {NoFile, Unreadable}
  BY <1>3, PersistType DEF SubmitResetAuthorization
<1>5. signed' \subseteq (Signors \X AuthorizedRoles) /\ tripLost' \in BOOLEAN
  BY <1>2 DEF SubmitResetAuthorization, TypeOK
<1> QED
  BY <1>3, <1>4, <1>5 DEF TypeOK

LEMMA TypeStep == TypeOK /\ [Next]_vars => TypeOK'
<1> SUFFICES ASSUME TypeOK, [Next]_vars PROVE TypeOK'
  OBVIOUS
<1>0. UNCHANGED reliable
  BY DEF Next, vars
<1>1. CASE Trip
  BY <1>0, <1>1, EngageType DEF Trip, TypeOK
<1>2. CASE RecordOrderSuccess
  BY <1>0, <1>2 DEF RecordOrderSuccess, TypeOK
<1>3. CASE RecordOrderRejection
  BY <1>0, <1>3, RejectionType
<1>4. CASE \E p \in Signors, r \in Roles : SubmitResetAuthorization(p, r)
  BY <1>0, <1>4, SubmitType
<1>5. CASE Restart
  BY <1>0, <1>5, RestartType DEF Restart, TypeOK
<1>6. CASE FileDamaged
  BY <1>0, <1>6 DEF FileDamaged, TypeOK
<1>7. CASE UNCHANGED vars
  BY <1>7 DEF vars, TypeOK
<1> QED
  BY <1>1, <1>2, <1>3, <1>4, <1>5, <1>6, <1>7 DEF Next, Operation

(* Every reachable state of every instance is well-typed.                  *)
THEOREM TypeCorrect == Spec => []TypeOK
BY InitType, TypeStep, PTL DEF Spec

-----------------------------------------------------------------------------
(* The halt survives.  Unless the latest trip is not in the file, the      *)
(* signatures of memory and of the file were all given since the trip, and *)
(* a halt in memory is a halt in the file - also one left behind by a      *)
(* release whose write was lost, which a restart brings back.              *)

GivenSince(s) == \A r \in AuthorizedRoles : s[r] # Nobody => <<s[r], r>> \in signed

FileInv ==
  ~tripLost =>
    /\ GivenSince(sigs)
    /\ disk \notin {NoFile, Unreadable} => GivenSince(disk.sigs)
    /\ Locked => /\ disk # NoFile
                 /\ disk # Unreadable => is_locked(disk.state)

LEMMA FileInvImplies == FileInv => HaltIsOnFile
BY DEF FileInv, GivenSince, HaltIsOnFile

LEMMA FileInit == Init => FileInv
BY NoSignaturesIsEmpty DEF Init, FileInv, GivenSince, Locked, is_locked

LEMMA EngageFile ==
  ASSUME TypeOK, TypeOK', NEW st \in {"TRIPPED_AUTO", "ENGAGED_MANUAL"}, NEW n,
         Engage(st, n)
  PROVE  FileInv'
<1>1. CASE tripLost'
  BY <1>1 DEF FileInv
<1>2. CASE ~tripLost'
  <2>1. /\ disk' = Saved(st, n, NoSignatures)
        /\ sigs' = NoSignatures /\ state' = st
    BY <1>2 DEF Engage, Persists
  <2>2. disk' \notin {NoFile, Unreadable}
    BY <2>1, SavedIsNoMark DEF SwitchStates
  <2>3. disk'.state = st /\ disk'.sigs = NoSignatures
    BY <2>1 DEF Saved
  <2> QED
    BY <2>1, <2>2, <2>3, NoSignaturesIsEmpty DEF FileInv, GivenSince, is_locked
<1> QED
  BY <1>1, <1>2

LEMMA SubmitFile ==
  ASSUME TypeOK, TypeOK', FileInv, NEW p \in Signors, NEW r \in Roles,
         SubmitResetAuthorization(p, r)
  PROVE  FileInv'
<1> SUFFICES ASSUME ~tripLost PROVE FileInv'
  BY DEF SubmitResetAuthorization, FileInv
<1>0. /\ r \in AuthorizedRoles /\ signed' = signed \union {<<p, r>>}
      /\ sigs \in Signatures /\ tripLost' = FALSE
  BY DEF SubmitResetAuthorization, TypeOK
<1>1. GivenSince(sigs) /\ (disk \notin {NoFile, Unreadable} => GivenSince(disk.sigs))
  BY DEF FileInv
<1>2. GivenSince(sigs)'
  <2>1. CASE Disengage
    BY <2>1, NoSignaturesIsEmpty DEF Disengage, GivenSince
  <2>2. CASE AwaitSecond(p, r)
    BY <1>0, <1>1, <2>2 DEF AwaitSecond, GivenSince, Signatures
  <2> QED
    BY <2>1, <2>2 DEF SubmitResetAuthorization
<1>3. CASE Persists
  <2>1. disk' = Saved(state', rejections', sigs') /\ state' \in SwitchStates
    BY <1>3 DEF Persists, TypeOK
  <2>2. disk' \notin {NoFile, Unreadable}
    BY <2>1, SavedIsNoMark
  <2>3. disk'.state = state' /\ disk'.sigs = sigs'
    BY <2>1 DEF Saved
  <2> QED
    BY <1>2, <2>2, <2>3 DEF FileInv, GivenSince, Locked
<1>4. CASE PersistFails
  <2>1. disk' = disk
    BY <1>4 DEF PersistFails
  <2>2. disk' \notin {NoFile, Unreadable} => GivenSince(disk.sigs)'
    BY <1>0, <1>1, <2>1 DEF GivenSince
  <2>3. Locked
    BY DEF SubmitResetAuthorization
  <2> QED
    BY <1>2, <2>1, <2>2, <2>3 DEF FileInv, Locked
<1> QED
  BY <1>3, <1>4 DEF SubmitResetAuthorization

LEMMA RestartFile ==
  ASSUME TypeOK, FileInv, Restart
  PROVE  FileInv'
<1> SUFFICES ASSUME ~tripLost PROVE FileInv'
  BY DEF Restart, FileInv
<1>1. disk' = disk /\ tripLost' = FALSE
  BY DEF Restart, TypeOK
<1>2. CASE disk = NoFile
  BY <1>1, <1>2, NoSignaturesIsEmpty DEF Restart, FileInv, GivenSince, Locked, is_locked
<1>3. CASE disk = Unreadable /\ disk # NoFile
  BY <1>1, <1>3, NoSignaturesIsEmpty DEF Restart, FileInv, GivenSince
<1>4. CASE disk \notin {NoFile, Unreadable}
  <2>1. state' = disk.state /\ sigs' = disk.sigs /\ signed' = signed
    BY <1>4 DEF Restart
  <2> QED
    BY <1>1, <1>4, <2>1 DEF FileInv, GivenSince, Locked
<1> QED
  BY <1>2, <1>3, <1>4

LEMMA FileStep == TypeOK /\ FileInv /\ [Next]_vars => FileInv'
<1> SUFFICES ASSUME TypeOK, FileInv, [Next]_vars PROVE FileInv'
  OBVIOUS
<1>0. TypeOK'
  BY TypeStep
<1>1. CASE Trip
  BY <1>0, <1>1, EngageFile DEF Trip
<1>2. CASE RecordOrderSuccess \/ UNCHANGED vars
  BY <1>2 DEF RecordOrderSuccess, vars, FileInv, GivenSince, Locked
<1>3. CASE RecordOrderRejection
  BY <1>0, <1>3, EngageFile DEF RecordOrderRejection, FileInv, GivenSince, Locked
<1>4. CASE \E p \in Signors, r \in Roles : SubmitResetAuthorization(p, r)
  BY <1>0, <1>4, SubmitFile
<1>5. CASE Restart
  BY <1>5, RestartFile
<1>6. CASE FileDamaged
  <2>1. Unreadable # NoFile
    BY DEF Unreadable, NoFile
  <2> QED
    BY <1>6, <2>1 DEF FileDamaged, FileInv, GivenSince, Locked
<1> QED
  BY <1>1, <1>2, <1>3, <1>4, <1>5, <1>6 DEF Next, Operation

LEMMA FileAlways == Spec => [](TypeOK /\ FileInv)
<1>1. Init => TypeOK /\ FileInv
  BY InitType, FileInit
<1>2. (TypeOK /\ FileInv) /\ [Next]_vars => (TypeOK /\ FileInv)'
  BY TypeStep, FileStep
<1> QED
  BY <1>1, <1>2, PTL DEF Spec

(* A restart at any moment comes back halted, unless the trip was lost.    *)
THEOREM HaltSurvives == Spec => []HaltIsOnFile
BY FileAlways, FileInvImplies, PTL

(* A step that ends a halt is the second role's signature.                 *)
LEMMA ReleaseStep ==
  ASSUME TypeOK, FileInv, [Next]_vars, Locked, ~Locked', ~tripLost
  PROVE  \E s, t \in signed' : s[2] # t[2]
<1>1. \E p \in Signors, r \in Roles :
        SubmitResetAuthorization(p, r) /\ Disengage
  <2>1. ~Trip /\ ~RecordOrderSuccess /\ ~RecordOrderRejection
        /\ ~FileDamaged /\ ~UNCHANGED vars
    BY DEF Trip, Engage, RecordOrderSuccess, RecordOrderRejection,
       FileDamaged, vars, Locked, is_locked
  <2>2. ~Restart
    BY DEF Restart, FileInv, Locked, is_locked
  <2>3. PICK p \in Signors, r \in Roles : SubmitResetAuthorization(p, r)
    BY <2>1, <2>2 DEF Next, Operation
  <2>4. ~AwaitSecond(p, r)
    BY DEF AwaitSecond, Locked, is_locked
  <2> QED
    BY <2>3, <2>4 DEF SubmitResetAuthorization
<1>2. PICK p \in Signors, r \in Roles :
        SubmitResetAuthorization(p, r) /\ Disengage
  BY <1>1
<1>3. Cardinality(SignedRoles(sigs) \union {r}) >= 2
  <2>1. ~AwaitSecond(p, r)
    BY DEF AwaitSecond, Locked, is_locked
  <2> QED
    BY <1>2, <2>1 DEF SubmitResetAuthorization
<1>4. r \notin SignedRoles(sigs)
  BY <1>2 DEF SubmitResetAuthorization, SignedRoles
<1>5. PICK t \in SignedRoles(sigs) : t # r
  BY <1>3, <1>4, SecondRole
<1>6. <<sigs[t], t>> \in signed
  BY <1>5 DEF FileInv, GivenSince, SignedRoles
<1>7. <<sigs[t], t>> \in signed' /\ <<p, r>> \in signed'
  BY <1>2, <1>6 DEF SubmitResetAuthorization
<1> QED
  BY <1>5, <1>7

(* Trading resumes only on two different roles' signatures since the trip. *)
THEOREM TwoRolesAreNeeded == Spec => TwoRolesRelease
<1>1. TypeOK /\ FileInv /\ [Next]_vars =>
        [Locked /\ ~Locked' /\ ~tripLost => \E s, t \in signed' : s[2] # t[2]]_vars
  BY ReleaseStep
<1> QED
  BY <1>1, FileAlways, PTL DEF Spec, TwoRolesRelease

-----------------------------------------------------------------------------
(* A run of rejections trips.  While trading is not halted, the tally in   *)
(* memory is below the threshold and never behind what this process has    *)
(* seen: only an accepted order, a release or a restart lowers it, and     *)
(* each starts the run afresh.  The file never holds more than a threshold *)
(* of an unhalted process, so that no restart goes over it unnoticed.      *)
RunInv ==
  /\ ~Locked => streak <= rejections /\ rejections < Threshold
  /\ disk \notin {NoFile, Unreadable} =>
       is_locked(disk.state) \/ disk.rejections < Threshold

LEMMA RunInvImplies == TypeOK /\ RunInv => RejectionRunTrips
BY ThresholdAssumption DEF TypeOK, RunInv, RejectionRunTrips

LEMMA RunInit == Init => RunInv
BY ThresholdAssumption DEF Init, RunInv

\* Whatever is written keeps the second conjunct when the first holds.
LEMMA PersistRun ==
  ASSUME RunInv, TypeOK',
         ~Locked' => streak' <= rejections' /\ rejections' < Threshold,
         Persists \/ UNCHANGED disk
  PROVE  RunInv'
<1>1. CASE Persists
  <2>1. disk' \notin {NoFile, Unreadable}
    BY <1>1, SavedIsNoMark DEF Persists, TypeOK
  <2>2. disk'.state = state' /\ disk'.rejections = rejections'
    BY <1>1 DEF Persists, Saved
  <2> QED
    BY <2>1, <2>2 DEF RunInv, Locked
<1>2. CASE UNCHANGED disk
  BY <1>2 DEF RunInv
<1> QED
  BY <1>1, <1>2

LEMMA RunStep == TypeOK /\ RunInv /\ [Next]_vars => RunInv'
<1> SUFFICES ASSUME TypeOK, RunInv, [Next]_vars PROVE RunInv'
  OBVIOUS
<1>0. TypeOK' /\ Threshold \in Nat \ {0}
  BY TypeStep, ThresholdAssumption
<1>1. ASSUME NEW st \in {"TRIPPED_AUTO", "ENGAGED_MANUAL"}, NEW n, Engage(st, n)
      PROVE  RunInv'
  <2>1. Locked' /\ (Persists \/ UNCHANGED disk)
    BY <1>1 DEF Engage, PersistFails, Locked, is_locked
  <2> QED
    BY <1>0, <2>1, PersistRun
<1>2. CASE Trip
  BY <1>1, <1>2 DEF Trip
<1>3. CASE RecordOrderSuccess
  BY <1>0, <1>3 DEF RecordOrderSuccess, RunInv, Locked
<1>4. CASE RecordOrderRejection
  <2>1. CASE rejections + 1 >= Threshold
    BY <1>1, <1>4, <2>1 DEF RecordOrderRejection
  <2>2. CASE ~(rejections + 1 >= Threshold)
    <3>1. /\ ~Locked /\ streak' <= streak + 1
          /\ rejections' = rejections + 1 /\ UNCHANGED <<state, disk>>
      BY <1>4, <2>2 DEF RecordOrderRejection, TypeOK
    <3>2. streak' <= rejections' /\ rejections' < Threshold
      BY <1>0, <2>2, <3>1 DEF RunInv, TypeOK
    <3> QED
      BY <1>0, <3>1, <3>2, PersistRun
  <2> QED
    BY <2>1, <2>2
<1>5. ASSUME NEW p \in Signors, NEW r \in Roles, SubmitResetAuthorization(p, r)
      PROVE  RunInv'
  <2>1. Persists \/ UNCHANGED disk
    BY <1>5 DEF SubmitResetAuthorization, PersistFails
  <2>2. ~Locked' => streak' <= rejections' /\ rejections' < Threshold
    BY <1>0, <1>5 DEF SubmitResetAuthorization, Disengage, AwaitSecond, Locked, is_locked
  <2> QED
    BY <1>0, <2>1, <2>2, PersistRun
<1>6. CASE Restart
  <2>1. streak' = 0 /\ UNCHANGED disk
    BY <1>6 DEF Restart
  <2>2. ~Locked' => rejections' < Threshold
    BY <1>0, <1>6 DEF Restart, RunInv, Locked, is_locked
  <2>3. rejections' \in Nat
    BY <1>0 DEF TypeOK
  <2> QED
    BY <1>0, <2>1, <2>2, <2>3, PersistRun
<1>7. CASE FileDamaged \/ UNCHANGED vars
  BY <1>7 DEF FileDamaged, vars, RunInv, Locked
<1> QED
  BY <1>2, <1>3, <1>4, <1>5, <1>6, <1>7 DEF Next, Operation

(* A process that has seen the threshold of rejections in a row is halted. *)
THEOREM RejectionsTrip == Spec => []RejectionRunTrips
<1>1. Init => TypeOK /\ RunInv
  BY InitType, RunInit
<1>2. (TypeOK /\ RunInv) /\ [Next]_vars => (TypeOK /\ RunInv)'
  BY TypeStep, RunStep
<1> QED
  BY <1>1, <1>2, RunInvImplies, PTL DEF Spec

-----------------------------------------------------------------------------
(* On a reliable disk, memory and file agree on the halt and on the        *)
(* signatures, so that a restart changes neither.                          *)

Agrees ==
  /\ disk = NoFile => ~Locked /\ sigs = NoSignatures
  /\ disk \notin {NoFile, Unreadable} =>
       (is_locked(disk.state) <=> Locked) /\ disk.sigs = sigs

LEMMA PersistsAgrees ==
  ASSUME state' \in SwitchStates, Persists
  PROVE  Agrees'
<1>1. disk' \notin {NoFile, Unreadable}
  BY SavedIsNoMark DEF Persists
<1>2. disk'.state = state' /\ disk'.sigs = sigs'
  BY DEF Persists, Saved
<1> QED
  BY <1>1, <1>2 DEF Agrees, Locked

\* The latch's copy of FiniteSets counts as this module's.
LEMMA SameCardinality ==
  ASSUME NEW S
  PROVE  Latch!Cardinality(S) = Cardinality(S)
BY DEF Cardinality, Latch!Cardinality

(* Each step on a reliable disk is one of the latch, or changes nothing.   *)
LEMMA ReliableStep ==
  ASSUME reliable = TRUE, TypeOK, Agrees, [Next]_vars
  PROVE  Agrees' /\ [Latch!Next]_<<LatchHalted, LatchSignatures>>
<1>0. TypeOK' /\ ~PersistFails /\ reliable' = TRUE
  BY TypeStep DEF PersistFails, Next, vars
<1>m. /\ LatchHalted <=> Locked
      /\ LatchHalted' <=> Locked'
      /\ LatchSignatures = SignedRoles(sigs)
      /\ LatchSignatures' = SignedRoles(sigs)'
  BY <1>0 DEF LatchHalted, LatchSignatures
<1>u. ASSUME Locked' = Locked, sigs' = sigs
      PROVE  UNCHANGED <<LatchHalted, LatchSignatures>>
  BY <1>0, <1>u DEF LatchHalted, LatchSignatures, SignedRoles
<1>1. ASSUME NEW st \in {"TRIPPED_AUTO", "ENGAGED_MANUAL"}, NEW n, Engage(st, n)
      PROVE  Agrees' /\ Latch!Trip
  <2>1. Agrees'
    BY <1>0, <1>1, PersistsAgrees DEF Engage, TypeOK
  <2>2. Locked' = TRUE /\ SignedRoles(sigs)' = {}
    BY <1>1, NoSignaturesIsEmpty DEF Engage, Locked, is_locked, SignedRoles
  <2> QED
    BY <1>m, <2>1, <2>2 DEF Latch!Trip
<1>2. CASE Trip
  BY <1>1, <1>2 DEF Trip, Latch!Next
<1>3. CASE RecordOrderRejection
  <2>1. CASE UNCHANGED <<state, sigs, disk>>
    BY <1>u, <2>1 DEF Agrees, Locked
  <2>2. CASE Engage("TRIPPED_AUTO", rejections + 1)
    BY <1>1, <2>2 DEF Latch!Next
  <2> QED
    BY <1>3, <2>1, <2>2 DEF RecordOrderRejection
<1>4. CASE RecordOrderSuccess \/ UNCHANGED vars
  BY <1>4, <1>u DEF RecordOrderSuccess, vars, Agrees, Locked
<1>5. ASSUME NEW p \in Signors, NEW r \in Roles, SubmitResetAuthorization(p, r)
      PROVE  Agrees' /\ Latch!Sign(r) /\ r \in AuthorizedRoles
  <2>1. Agrees'
    BY <1>0, <1>5, PersistsAgrees DEF SubmitResetAuthorization, TypeOK
  <2>2. Locked /\ r \in AuthorizedRoles /\ r \notin SignedRoles(sigs) /\ sigs \in Signatures
    BY <1>5 DEF SubmitResetAuthorization, SignedRoles, TypeOK
  <2>3. CASE Cardinality(SignedRoles(sigs) \union {r}) >= 2
    <3>1. Locked' = FALSE /\ SignedRoles(sigs)' = {}
      BY <1>5, <2>3, NoSignaturesIsEmpty DEF SubmitResetAuthorization, Disengage,
         Locked, is_locked, SignedRoles
    <3> QED
      BY <1>m, <2>1, <2>2, <2>3, <3>1, SameCardinality DEF Latch!Sign
  <2>4. CASE ~(Cardinality(SignedRoles(sigs) \union {r}) >= 2)
    <3>1. AwaitSecond(p, r)
      BY <1>5, <2>4 DEF SubmitResetAuthorization
    <3>2. Locked' = TRUE
      BY <3>1 DEF AwaitSecond, Locked, is_locked
    <3>3. SignedRoles(sigs)' = SignedRoles(sigs) \union {r}
      BY <2>2, <3>1, SignedOne DEF AwaitSecond, SignedRoles
    <3> QED
      BY <1>m, <2>1, <2>2, <2>4, <3>2, <3>3, SameCardinality DEF Latch!Sign
  <2> QED
    BY <2>3, <2>4
<1>6. CASE Restart
  <2>1. CASE disk = Unreadable
    <3>1. Unreadable # NoFile
      BY DEF Unreadable, NoFile
    <3>2. Locked' = TRUE /\ SignedRoles(sigs)' = {} /\ disk' = Unreadable
      BY <1>6, <2>1, <3>1, NoSignaturesIsEmpty DEF Restart, Locked, is_locked, SignedRoles
    <3> QED
      BY <1>m, <3>1, <3>2 DEF Agrees, Latch!Next, Latch!Trip
  <2>2. CASE disk # Unreadable
    <3>1. Locked' = Locked /\ sigs' = sigs /\ disk' = disk
      BY <1>6, <2>2 DEF Restart, Agrees, Locked, is_locked
    <3> QED
      BY <1>u, <3>1 DEF Agrees
  <2> QED
    BY <2>1, <2>2
<1>7. CASE FileDamaged
  <2>1. Unreadable # NoFile
    BY DEF Unreadable, NoFile
  <2> QED
    BY <1>u, <1>7, <2>1 DEF FileDamaged, Agrees, Locked
<1> QED
  BY <1>2, <1>3, <1>4, <1>5, <1>6, <1>7 DEF Next, Operation, Latch!Next

\* On an unreliable one the latch stays as it is.
LEMMA LatchStep ==
  ASSUME TypeOK, reliable => Agrees, [Next]_vars
  PROVE  (reliable => Agrees)' /\ [Latch!Next]_<<LatchHalted, LatchSignatures>>
<1>1. CASE reliable
  BY <1>1, ReliableStep DEF TypeOK
<1>2. CASE ~reliable
  <2>1. ~reliable'
    BY <1>2 DEF Next, vars
  <2> QED
    BY <1>2, <2>1 DEF LatchHalted, LatchSignatures
<1> QED
  BY <1>1, <1>2

(* The kill switch implements the latch: when the state file can be        *)
(* written, no restart, rejection tally or file shows through.             *)
THEOREM SwitchIsALatch == Spec => ImplementsLatch
<1>1. Init => TypeOK /\ (reliable => Agrees)
  BY InitType DEF Init, Agrees, Locked, is_locked
<1>2. Init => Latch!Init
  BY NoSignaturesIsEmpty DEF Init, Latch!Init, LatchHalted, LatchSignatures, Locked, is_locked
<1>3. (TypeOK /\ (reliable => Agrees)) /\ [Next]_vars
        => /\ (TypeOK /\ (reliable => Agrees))'
           /\ [Latch!Next]_<<LatchHalted, LatchSignatures>>
  BY TypeStep, LatchStep
<1> QED
  BY <1>1, <1>2, <1>3, PTL DEF Spec, ImplementsLatch, Latch!Spec

-----------------------------------------------------------------------------
(* An audit trips the switch as anybody may, or leaves it alone.           *)

LEMMA AuditStep ==
  ASSUME Audit
  PROVE  /\ [Next]_vars
         /\ \/ /\ Locked' /\ signed' = {} /\ open' = ~tripLost'
               /\ verdict' # "PASSED"
            \/ /\ UNCHANGED <<vars, open>>
               /\ verdict' = "PASSED" => ~Locked
<1>1. PICK p \in Portfolios :
        /\ IF Trips(p)
           THEN Engage("TRIPPED_AUTO", rejections)
           ELSE UNCHANGED <<state, rejections, sigs, disk, signed, tripLost>>
        /\ UNCHANGED <<reliable, streak, configured>>
        /\ \/ verdict' = "NONE"
           \/ verdict' = IF Breaches(p) \/ Locked THEN "REFUSED" ELSE "PASSED"
        /\ open' = IF Breaches(p) THEN ~tripLost' ELSE open
  BY DEF Audit
<1>2. CASE Breaches(p)
  <2>1. Engage("TRIPPED_AUTO", rejections)
    BY <1>1, <1>2 DEF Trips
  <2>2. Locked' /\ signed' = {}
    BY <2>1 DEF Engage, Locked, is_locked
  <2>3. Next
    BY <1>1, <2>1 DEF Next, Operation, Trip
  <2> QED
    BY <1>1, <1>2, <2>2, <2>3
<1>3. CASE ~Breaches(p)
  <2>1. UNCHANGED <<vars, open>>
    BY <1>1, <1>3 DEF Trips, vars
  <2>2. verdict' = "PASSED" => ~Locked
    BY <1>1, <1>3
  <2> QED
    BY <2>1, <2>2
<1> QED
  BY <1>2, <1>3

LEMMA GovernorMoves == [GovernorNext]_governorVars => [Next]_vars
BY AuditStep DEF GovernorNext, SwitchMoves, governorVars

(* The governor uses the switch as anybody may: all that holds of the      *)
(* switch - that halts survive, that two roles end them, that it is a      *)
(* latch - holds of the switch under it.                                   *)
THEOREM GovernorUsesSwitch == GovernorSpec => Spec
<1>1. GovernorInit => Init
  BY DEF GovernorInit
<1> QED
  BY <1>1, GovernorMoves, PTL DEF GovernorSpec, Spec

-----------------------------------------------------------------------------
(* An open breach halts: its trip is on file, and the roles that signed    *)
(* since are not two, so that neither a restart nor a signature has ended  *)
(* the halt.  An audit that passes therefore finds no open breach, and     *)
(* none opens without a verdict of its own.                                *)
OpenInv ==
  /\ open \in BOOLEAN
  /\ open => Locked /\ ~tripLost /\ ~\E s, t \in signed : s[2] # t[2]
  /\ verdict = "PASSED" => ~open

LEMMA OpenInit == GovernorInit => OpenInv
BY DEF GovernorInit, OpenInv

LEMMA AuditOpen ==
  ASSUME OpenInv, Audit, tripLost' \in BOOLEAN
  PROVE  OpenInv'
<1>1. CASE /\ Locked' /\ signed' = {} /\ open' = ~tripLost'
           /\ verdict' # "PASSED"
  BY <1>1 DEF OpenInv
<1>2. CASE UNCHANGED <<vars, open>> /\ (verdict' = "PASSED" => ~Locked)
  BY <1>2 DEF OpenInv, vars, Locked
<1> QED
  BY <1>1, <1>2, AuditStep

LEMMA OpenStep ==
  ASSUME TypeOK, FileInv, OpenInv, [GovernorNext]_governorVars
  PROVE  OpenInv'
<1>1. TypeOK'
  BY TypeStep, GovernorMoves
<1>2. CASE Audit
  BY <1>1, <1>2, AuditOpen DEF TypeOK
<1>3. CASE SwitchMoves
  <2>1. [Next]_vars /\ verdict' = verdict
    BY <1>3 DEF SwitchMoves
  <2>2. open' => open /\ ~tripLost' /\ ~\E s, t \in signed' : s[2] # t[2]
    BY <1>3 DEF SwitchMoves
  <2>3. open' => Locked'
    BY <2>1, <2>2, ReleaseStep DEF OpenInv
  <2>4. open' \in BOOLEAN
    BY <1>3 DEF SwitchMoves
  <2> QED
    BY <2>1, <2>2, <2>3, <2>4 DEF OpenInv
<1>4. CASE UNCHANGED governorVars
  BY <1>4 DEF governorVars, vars, OpenInv, Locked
<1> QED
  BY <1>2, <1>3, <1>4 DEF GovernorNext

(* After a breach no audit passes until two roles have signed.             *)
THEOREM BreachesBlock == GovernorSpec => []BreachBlocksAudits
<1>1. GovernorInit => TypeOK /\ FileInv /\ OpenInv
  BY InitType, FileInit, OpenInit DEF GovernorInit
<1>2. (TypeOK /\ FileInv /\ OpenInv) /\ [GovernorNext]_governorVars
        => (TypeOK /\ FileInv /\ OpenInv)'
  BY GovernorMoves, TypeStep, FileStep, OpenStep
<1>3. OpenInv => BreachBlocksAudits
  BY DEF OpenInv, BreachBlocksAudits
<1> QED
  BY <1>1, <1>2, <1>3, PTL DEF GovernorSpec

-----------------------------------------------------------------------------
(* The tranche book.                                                       *)

Tranches == [rank : Ranks, since : Nat, size : Nat \ {0}]

\* A sleeve enters at most once in a period.
IsBook(b) ==
  /\ b \in SUBSET Tranches
  /\ IsFiniteSet(b)
  /\ \A t, u \in b : t.since = u.since => t = u

Sizes(b) == [t \in b |-> t.size]

LEMMA PartOfBook ==
  ASSUME NEW b, IsBook(b), NEW U \in SUBSET b PROVE IsBook(U)
BY FS_Subset DEF IsBook

LEMMA LeverageIsNat ==
  ASSUME NEW b, IsBook(b) PROVE current_leverage(b) \in Nat
<1>1. IsFiniteSet(b) /\ \A t \in b : Sizes(b)[t] \in Nat
  BY DEF IsBook, Tranches, Sizes
<1>2. SumFunctionOnSet(Sizes(b), b) \in Nat
  BY <1>1, SumIsNat
<1> QED
  BY <1>2 DEF current_leverage, SumFunction, Sizes

(* The leverage of a part of a book.                                       *)
LEMMA LeverageOfPart ==
  ASSUME NEW b, IsBook(b), NEW U \in SUBSET b
  PROVE  /\ current_leverage(U) = SumFunctionOnSet(Sizes(b), U)
         /\ current_leverage(U) <= current_leverage(b)
<1>1. IsFiniteSet(U) /\ IsFiniteSet(b)
  BY FS_Subset DEF IsBook
<1>2. /\ \A t \in U : Sizes(U)[t] \in Int /\ Sizes(b)[t] = Sizes(U)[t]
      /\ \A t \in b : Sizes(b)[t] \in Nat
  BY DEF IsBook, Tranches, Sizes
<1>3. SumFunctionOnSet(Sizes(U), U) = SumFunctionOnSet(Sizes(b), U)
  BY <1>1, <1>2, SumOfTheSame
<1>4. SumFunctionOnSet(Sizes(b), U) <= SumFunctionOnSet(Sizes(b), b)
  BY <1>1, <1>2, SumOfFewer
<1>5. /\ current_leverage(U) = SumFunctionOnSet(Sizes(U), U)
      /\ current_leverage(b) = SumFunctionOnSet(Sizes(b), b)
  BY DEF current_leverage, SumFunction, Sizes
<1> QED
  BY <1>3, <1>4, <1>5

LEMMA LeverageOfOneMore ==
  ASSUME NEW b, IsBook(b), NEW U \in SUBSET b, NEW t \in b \ U
  PROVE  current_leverage(U \union {t}) = t.size + current_leverage(U)
<1>1. IsFiniteSet(U) /\ t \notin U /\ \A u \in U \union {t} : Sizes(b)[u] \in Int
  BY FS_Subset DEF IsBook, Tranches, Sizes
<1>2. SumFunctionOnSet(Sizes(b), U \union {t}) = Sizes(b)[t] + SumFunctionOnSet(Sizes(b), U)
  BY <1>1, SumOfOneMore
<1>3. U \union {t} \in SUBSET b /\ Sizes(b)[t] = t.size
  BY DEF Sizes
<1> QED
  BY <1>2, <1>3, LeverageOfPart

LEMMA LeverageOfNone == current_leverage({}) = 0
BY SumOfNone DEF current_leverage, SumFunction

(* Tranches of a book are in a total order of risk.                        *)
LEMMA RiskIsAnOrder ==
  ASSUME NEW b, IsBook(b)
  PROVE  /\ \A t \in b : ~Riskier(t, t)
         /\ \A t, u \in b : t = u \/ Riskier(t, u) \/ Riskier(u, t)
         /\ \A t, u, v \in b : Riskier(t, u) /\ Riskier(u, v) => Riskier(t, v)
         /\ \A t, u \in b : Riskier(t, u) => ~Riskier(u, t)
<1>1. \A t \in b : t.rank \in Int /\ t.since \in Int
  BY DEF IsBook, Tranches, Ranks
<1> QED
  BY <1>1 DEF IsBook, Riskier

(* Some tranche is the least risky of any of them.                         *)
LEMMA LeastRisky ==
  ASSUME NEW b, IsBook(b), NEW U \in SUBSET b, U # {}
  PROVE  \E t \in U : \A u \in U : u = t \/ Riskier(u, t)
<1> DEFINE good == {T \in SUBSET U : T = {} \/ \E t \in T : \A u \in T : u = t \/ Riskier(u, t)}
<1>1. IsFiniteSet(U)
  BY FS_Subset DEF IsBook
<1>2. {} \in good
  OBVIOUS
<1>3. ASSUME NEW T \in SUBSET U, NEW x \in U \ T, T \in good
      PROVE  T \union {x} \in good
  <2>1. CASE T = {}
    BY <2>1
  <2>2. CASE T # {}
    <3>1. PICK t \in T : \A u \in T : u = t \/ Riskier(u, t)
      BY <1>3, <2>2
    <3>2. t \in b /\ x \in b /\ t # x
      OBVIOUS
    <3>3. CASE Riskier(x, t)
      BY <3>1, <3>3
    <3>4. CASE Riskier(t, x)
      <4>1. \A u \in T \union {x} : u = x \/ Riskier(u, x)
        BY <3>1, <3>2, <3>4, RiskIsAnOrder
      <4> QED BY <4>1
    <3> QED
      BY <3>2, <3>3, <3>4, RiskIsAnOrder
  <2> QED
    BY <2>1, <2>2
<1>4. U \in good
  <2> HIDE DEF good
  <2> QED BY <1>1, <1>2, <1>3, OneByOne
<1> QED
  BY <1>4

-----------------------------------------------------------------------------
(* reduce_leverage.                                                        *)

Beyond(amount, ahead) == IF amount > ahead THEN amount - ahead ELSE 0

Ahead(b, t) == {u \in b : Riskier(u, t)}

KeptOf(b, amount) == [t \in b |-> Kept(b, t, amount)]

LEMMA KeptType ==
  ASSUME NEW b, IsBook(b), NEW amount \in Nat, NEW t \in b
  PROVE  /\ Kept(b, t, amount) \in Nat
         /\ current_leverage(Ahead(b, t)) \in Nat
         /\ Kept(b, t, amount) <= t.size
         /\ amount <= current_leverage(Ahead(b, t)) => Kept(b, t, amount) = t.size
         /\ amount >= current_leverage(Ahead(b, t)) + t.size => Kept(b, t, amount) = 0
         /\ Kept(b, t, amount) = t.size - Least(t.size, Beyond(amount, current_leverage(Ahead(b, t))))
<1>1. Ahead(b, t) \in SUBSET b /\ t.size \in Nat \ {0}
  BY DEF Ahead, IsBook, Tranches
<1>2. current_leverage(Ahead(b, t)) \in Nat
  BY <1>1, PartOfBook, LeverageIsNat
<1>3. Kept(b, t, amount) = t.size - Least(t.size, Beyond(amount, current_leverage(Ahead(b, t))))
  BY DEF Kept, Ahead, Beyond
<1> QED
  BY <1>1, <1>2, <1>3 DEF Least, Beyond

(* Of the riskiest tranches, however many, the amount is gone first.       *)
LEMMA KeptOfTheRiskiest ==
  ASSUME NEW b, IsBook(b), NEW amount \in Nat, NEW U \in SUBSET b,
         \A t \in U, u \in b : Riskier(u, t) => u \in U
  PROVE  SumFunctionOnSet(KeptOf(b, amount), U) = Beyond(current_leverage(U), amount)
<1> DEFINE top(T) == \A t \in T, u \in b : Riskier(u, t) => u \in T
           kept(T) == SumFunctionOnSet(KeptOf(b, amount), T)
           good == {n \in Nat : \A T \in SUBSET b : top(T) /\ Cardinality(T) = n =>
                                  kept(T) = Beyond(current_leverage(T), amount)}
<1>1. \A T \in SUBSET b : IsFiniteSet(T) /\ Cardinality(T) \in Nat /\ current_leverage(T) \in Nat
  BY FS_Subset, FS_CardinalityType, PartOfBook, LeverageIsNat DEF IsBook
<1>2. \A t \in b : KeptOf(b, amount)[t] = Kept(b, t, amount) /\ Kept(b, t, amount) \in Nat
  BY KeptType DEF KeptOf
<1>3. 0 \in good
  <2> SUFFICES ASSUME NEW T \in SUBSET b, Cardinality(T) = 0
               PROVE  kept(T) = Beyond(current_leverage(T), amount)
    OBVIOUS
  <2>1. T = {}
    BY <1>1, FS_EmptySet
  <2> QED
    BY <2>1, SumOfNone, LeverageOfNone DEF Beyond
<1>4. ASSUME NEW n \in Nat, n \in good PROVE n + 1 \in good
  <2> SUFFICES ASSUME NEW T \in SUBSET b, top(T), Cardinality(T) = n + 1
               PROVE  kept(T) = Beyond(current_leverage(T), amount)
    OBVIOUS
  <2>1. T # {}
    <3>1. Cardinality(T) # 0
      OBVIOUS
    <3> QED BY <3>1, FS_EmptySet
  <2>2. PICK t \in T : \A u \in T : u = t \/ Riskier(u, t)
    BY <2>1, LeastRisky
  <2> DEFINE less == T \ {t}
  <2>3. less = Ahead(b, t)
    BY <2>2, RiskIsAnOrder DEF Ahead
  <2>4. top(less)
    <3> SUFFICES ASSUME NEW v \in less, NEW u \in b, Riskier(u, v) PROVE u \in less
      OBVIOUS
    <3>1. Riskier(v, t) /\ u \in T
      BY <2>2
    <3>2. u # t
      BY <3>1, RiskIsAnOrder
    <3> QED BY <3>1, <3>2
  <2>5. Cardinality(less) = n
    <3>1. Cardinality(less) = Cardinality(T) - 1
      BY <1>1, FS_RemoveElement
    <3> QED BY <3>1
  <2>6. kept(less) = Beyond(current_leverage(less), amount)
    BY <1>4, <2>4, <2>5
  <2>7. less \in SUBSET b /\ t \in b \ less /\ less \union {t} = T
    OBVIOUS
  <2>8. current_leverage(T) = t.size + current_leverage(less)
    <3> HIDE DEF less
    <3> QED BY <2>7, LeverageOfOneMore
  <2>9. kept(T) = Kept(b, t, amount) + kept(less)
    <3>1. IsFiniteSet(less) /\ t \notin less /\ \A u \in less \union {t} : KeptOf(b, amount)[u] \in Int
      BY <1>1, <1>2
    <3>2. SumFunctionOnSet(KeptOf(b, amount), less \union {t})
            = KeptOf(b, amount)[t] + SumFunctionOnSet(KeptOf(b, amount), less)
      <4> HIDE DEF less
      <4> QED BY <3>1, SumOfOneMore
    <3> QED
      <4> HIDE DEF less
      <4> QED BY <1>2, <2>7, <3>2
  <2> DEFINE ahead == current_leverage(less)
  <2>10. Kept(b, t, amount) = t.size - Least(t.size, Beyond(amount, ahead))
    <3> HIDE DEF less, top, kept, good
    <3>1. Kept(b, t, amount)
            = t.size - Least(t.size, Beyond(amount, current_leverage(Ahead(b, t))))
      BY KeptType
    <3> QED BY <2>3, <3>1
  <2>11. ahead \in Nat /\ t.size \in Nat
    BY <1>1, <2>7 DEF IsBook, Tranches
  <2>12. Kept(b, t, amount) + Beyond(ahead, amount) = Beyond(t.size + ahead, amount)
    <3> HIDE DEF ahead
    <3> QED BY <2>10, <2>11 DEF Least, Beyond
  <2> QED
    BY <2>6, <2>8, <2>9, <2>12
<1>5. Nat \subseteq good
  <2> HIDE DEF good
  <2> QED BY <1>3, <1>4, CountingUp
<1> QED
  BY <1>1, <1>5

Remains(t, size) == [t EXCEPT !.size = size]

(* What is left is a book, and the amount is gone from it.                 *)
LEMMA WhatIsLeft ==
  ASSUME NEW b, IsBook(b), NEW amount \in Nat
  PROVE  /\ IsBook(Reduced(b, amount))
         /\ current_leverage(Reduced(b, amount)) = Beyond(current_leverage(b), amount)
<1> DEFINE f == KeptOf(b, amount)
           to == [t \in b |-> [t EXCEPT !.size = Kept(b, t, amount)]]
           left == {to[t] : t \in {u \in b : f[u] > 0}}
<1>1. \A t \in b : f[t] = Kept(b, t, amount) /\ f[t] \in Nat
  BY KeptType DEF KeptOf
<1>2. Reduced(b, amount) = left
  BY <1>1 DEF Reduced
<1>3. \A t \in b : f[t] > 0 =>
        /\ to[t] \in Tranches
        /\ to[t].size = f[t] /\ to[t].since = t.since /\ to[t].rank = t.rank
  BY <1>1 DEF IsBook, Tranches
<1>4. left \in SUBSET Tranches
  BY <1>3
<1>5. \A x, y \in left : x.since = y.since => x = y
  BY <1>3 DEF IsBook
<1>6. \A x, y \in b : f[x] > 0 /\ f[y] > 0 /\ to[x] = to[y] => x = y
  <2> SUFFICES ASSUME NEW x \in b, NEW y \in b, f[x] > 0, f[y] > 0, to[x] = to[y]
               PROVE  x = y
    OBVIOUS
  <2> HIDE DEF to, f
  <2>1. x.since = y.since
    BY <1>3
  <2> QED
    BY <2>1 DEF IsBook
<1>7. \A x \in b : f[x] > 0 => Sizes(left)[to[x]] = f[x]
  <2> SUFFICES ASSUME NEW x \in b, f[x] > 0 PROVE Sizes(left)[to[x]] = f[x]
    OBVIOUS
  <2>1. to[x] \in left
    OBVIOUS
  <2>2. Sizes(left)[to[x]] = to[x].size
    <3> HIDE DEF left, to
    <3> QED BY <2>1 DEF Sizes
  <2> QED
    BY <1>3, <2>2
<1>8. IsFiniteSet(left) /\ SumFunctionOnSet(Sizes(left), left) = SumFunctionOnSet(f, b)
  <2>1. IsFiniteSet(b) /\ \A x \in b : f[x] \in Nat
    BY <1>1 DEF IsBook
  <2> DEFINE e == Sizes(left)
  <2>2. \A x \in b : f[x] > 0 => e[to[x]] = f[x]
    BY <1>7
  <2> HIDE DEF f, to, e
  <2>3. IsFiniteSet({to[x] : x \in {y \in b : f[y] > 0}})
          /\ SumFunctionOnSet(e, {to[x] : x \in {y \in b : f[y] > 0}}) = SumFunctionOnSet(f, b)
    BY <1>6, <2>1, <2>2, SumOfTheCarried
  <2> QED
    BY <2>3 DEF e
<1>9. SumFunctionOnSet(f, b) = Beyond(current_leverage(b), amount)
  BY KeptOfTheRiskiest
<1>10. current_leverage(left) = SumFunctionOnSet(Sizes(left), left)
  <2> HIDE DEF left
  <2> QED BY DEF current_leverage, SumFunction, Sizes
<1> HIDE DEF left, f
<1> QED
  BY <1>2, <1>4, <1>5, <1>8, <1>9, <1>10 DEF IsBook

-----------------------------------------------------------------------------
(* The invariant: books are books, dated by the periods in which their     *)
(* sleeves were stepped.                                                   *)

HarvestCaps == [at : Int, rank : Int, flow : Int]

ExposureTyped ==
  /\ \A s \in Sleeves : IsBook(books[s])
  /\ books = [s \in Sleeves |-> books[s]]
  /\ caps \in [Sleeves -> HarvestCaps]
  /\ turn \in 1..Len(SleeveOrder) + 1
  /\ period \in Nat
  /\ blocked \in SUBSET Sleeves
  /\ returned \in BOOLEAN

Dated ==
  \A k \in DOMAIN SleeveOrder : \A t \in books[SleeveOrder[k]] :
    t.since < period \/ (k < turn /\ t.since = period)

ExposureInv == ExposureTyped /\ Dated /\ HarvestStands /\ GrossIsBounded

(* What a sleeve's step finds.                                             *)
LEMMA SteppingTyped ==
  ASSUME ExposureTyped, turn <= Len(SleeveOrder)
  PROVE  /\ Stepping \in Sleeves /\ turn \in DOMAIN SleeveOrder
         /\ \A k \in DOMAIN SleeveOrder : SleeveOrder[k] = Stepping => k = turn
<1>1. turn \in DOMAIN SleeveOrder
  BY MandatesAssumption DEF ExposureTyped
<1> QED
  BY <1>1, MandatesAssumption DEF Stepping, Sleeves

LEMMA ApprovedType ==
  ASSUME NEW s \in Sleeves, NEW in \in Evidence[s], ~Unusable(s, in)
  PROVE  Approved(s, in) \in Int /\ Approved(s, in) <= MaxLeverage[s]
<1>1. in.rank \in Ranks /\ in.flow \in Int /\ in.limit \in Nat /\ MaxLeverage[s] \in Nat
  BY EvidenceAssumption, MandatesAssumption
<1>2. Floor[in.rank] \in Int /\ Ceiling[in.rank] \in Int /\ Policy[in.rank] \in Int
  BY <1>1 DEF Floor, Ceiling, Policy, Ranks
<1>3. StagedTarget(in) \in Int
  BY <1>2 DEF StagedTarget
<1>4. BandedTarget(in) \in Int
  <2>1. (in.flow * (Ceiling[in.rank] - Floor[in.rank])) \div 100 \in Int
    BY <1>1, <1>2
  <2> QED
    BY <1>2, <2>1 DEF BandedTarget, Least, RequestedCap
<1>5. Target(s, in) \in Int
  BY <1>3, <1>4 DEF Target
<1> QED
  BY <1>1, <1>5 DEF Approved, Least

(* A step enters at most what the ceilings allow.                          *)
LEMMA EnteredBook ==
  ASSUME ExposureTyped, Dated, turn <= Len(SleeveOrder),
         NEW in \in Evidence[Stepping], ~Unusable(Stepping, in)
  PROVE  /\ IsBook(Entered(Stepping, in))
         /\ books[Stepping] \subseteq Entered(Stepping, in)
         /\ \A t \in Entered(Stepping, in) : t.since <= period
         /\ \/ current_leverage(Entered(Stepping, in)) = current_leverage(books[Stepping])
            \/ current_leverage(Entered(Stepping, in)) = EffectiveCeiling(Stepping, in)
<1> DEFINE s == Stepping
           highest == EffectiveCeiling(s, in)
           before == current_leverage(books[s])
           new == [rank |-> in.rank, since |-> period, size |-> highest - before]
<1>1. s \in Sleeves /\ turn \in DOMAIN SleeveOrder /\ SleeveOrder[turn] = s
  BY SteppingTyped DEF Stepping
<1>2. IsBook(books[s]) /\ before \in Nat
  BY <1>1, LeverageIsNat DEF ExposureTyped
<1>3. period \in Nat /\ turn \in Int /\ \A t \in books[s] : t.since \in Nat /\ t.since < period
  <2>1. period \in Nat /\ turn \in Int
    BY DEF ExposureTyped
  <2>2. \A t \in books[SleeveOrder[turn]] : t.since < period \/ (turn < turn /\ t.since = period)
    BY <1>1 DEF Dated
  <2>3. \A t \in books[s] : t.since \in Nat
    BY <1>2 DEF IsBook, Tranches
  <2> QED
    BY <1>1, <2>1, <2>2, <2>3
<1>4. highest \in Int
  <2>1. Approved(s, in) \in Int
    BY <1>1, ApprovedType
  <2>2. Standing(s, in) \in HarvestCaps
    BY <1>1 DEF Standing, ExposureTyped, NoCap, HarvestCaps
  <2> QED
    BY <2>1, <2>2 DEF EffectiveCeiling, Least, HarvestCaps
<1>5. CASE ~(highest > before)
  <2>1. Entered(s, in) = books[s]
    BY <1>5 DEF Entered
  <2>2. \A t \in books[s] : t.since <= period
    <3> HIDE DEF s
    <3> QED BY <1>3
  <2> QED
    BY <1>2, <2>1, <2>2
<1>6. CASE highest > before
  <2>1. Entered(s, in) = books[s] \union {new}
    BY <1>6 DEF Entered
  <2>2. new \in Tranches /\ new.since = period /\ new.size = highest - before
    BY <1>1, <1>2, <1>4, <1>6, EvidenceAssumption DEF Tranches, ExposureTyped
  <2>3. new \notin books[s]
    <3> HIDE DEF new, s
    <3> QED BY <1>3, <2>2
  <2>4. IsFiniteSet(books[s] \union {new})
    <3> HIDE DEF new
    <3> QED BY <1>2, FS_AddElement DEF IsBook
  <2>5. \A t \in books[s] : t.since # period /\ t.since <= period
    <3> HIDE DEF s
    <3> QED BY <1>3
  <2>6. IsBook(books[s] \union {new})
    <3> HIDE DEF new, s
    <3> QED BY <1>2, <2>2, <2>4, <2>5 DEF IsBook
  <2>7. current_leverage(books[s] \union {new}) = new.size + before
    <3> DEFINE b == books[s] \union {new}
    <3>1. IsBook(b) /\ books[s] \in SUBSET b /\ new \in b \ books[s]
      BY <2>3, <2>6
    <3> HIDE DEF b, new
    <3> QED BY <3>1, LeverageOfOneMore DEF b
  <2>8. current_leverage(Entered(s, in)) = highest
    <3> HIDE DEF highest, before, s, new
    <3> QED BY <1>2, <1>4, <2>1, <2>2, <2>7
  <2>9. \A t \in Entered(s, in) : t.since <= period
    <3> HIDE DEF highest, before, s, new
    <3> QED BY <1>3, <2>1, <2>2, <2>5
  <2> QED
    BY <2>1, <2>6, <2>8, <2>9
<1> QED
  BY <1>5, <1>6

LEMMA EnteredIsBounded ==
  ASSUME ExposureInv, turn <= Len(SleeveOrder),
         NEW in \in Evidence[Stepping], ~Unusable(Stepping, in)
  PROVE  /\ current_leverage(Entered(Stepping, in)) <= MaxLeverage[Stepping]
         /\ Standing(Stepping, in) # NoCap =>
              current_leverage(Entered(Stepping, in)) <= Standing(Stepping, in).at
<1> DEFINE s == Stepping
           leverage == current_leverage(Entered(s, in))
<1> USE DEF ExposureInv
<1>1. s \in Sleeves
  BY SteppingTyped
<1>2. current_leverage(books[s]) <= MaxLeverage[s]
  BY <1>1 DEF GrossIsBounded
<1>3. Standing(s, in) # NoCap =>
        Standing(s, in) = caps[s] /\ current_leverage(books[s]) <= caps[s].at
  BY <1>1 DEF Standing, HarvestStands
<1>4. ASSUME leverage = current_leverage(books[s])
      PROVE  leverage <= MaxLeverage[s] /\ (Standing(s, in) # NoCap => leverage <= Standing(s, in).at)
  <2> HIDE DEF leverage
  <2> QED BY <1>2, <1>3, <1>4
<1>5. ASSUME leverage = EffectiveCeiling(s, in)
      PROVE  leverage <= MaxLeverage[s] /\ (Standing(s, in) # NoCap => leverage <= Standing(s, in).at)
  <2>1. Approved(s, in) \in Int /\ Approved(s, in) <= MaxLeverage[s] /\ MaxLeverage[s] \in Nat
    BY <1>1, ApprovedType, MandatesAssumption
  <2>2. Standing(s, in).at \in Int
    <3>1. Standing(s, in) \in HarvestCaps
      BY <1>1 DEF Standing, ExposureTyped, NoCap, HarvestCaps
    <3> QED BY <3>1 DEF HarvestCaps
  <2> HIDE DEF leverage
  <2> QED BY <1>5, <2>1, <2>2 DEF EffectiveCeiling, Least
<1> QED
  BY <1>4, <1>5, EnteredBook

LEMMA SoldType ==
  ASSUME NEW in, NEW l \in Nat
  PROVE  PerCent(l, FractionToSell(in, l)) \in Nat
<1>1. FractionToSell(in, l) \in {0, 25, 33, 100}
  BY DEF FractionToSell
<1>2. \A n \in {0, 25, 33, 100} : (l * n + 99) \div 100 \in Nat
  OBVIOUS
<1> QED
  BY <1>1, <1>2 DEF PerCent

LEMMA LeftOfBook ==
  ASSUME NEW b, IsBook(b), NEW amount \in Nat, NEW t \in Reduced(b, amount)
  PROVE  \E u \in b : /\ t = [u EXCEPT !.size = Kept(b, u, amount)]
                      /\ t.since = u.since /\ t.rank = u.rank
                      /\ Kept(b, u, amount) > 0
<1>1. PICK u \in b : t = [u EXCEPT !.size = Kept(b, u, amount)] /\ Kept(b, u, amount) > 0
  BY DEF Reduced
<1>2. t.since = u.since /\ t.rank = u.rank
  BY <1>1 DEF IsBook, Tranches
<1> QED
  BY <1>1, <1>2

(* What a controller's update does to its sleeve.                          *)
LEMMA Updated ==
  ASSUME ExposureInv, turn <= Len(SleeveOrder),
         NEW in \in Evidence[Stepping], ~Unusable(Stepping, in), Update(Stepping, in)
  PROVE  /\ \A s \in Sleeves : s # Stepping => books'[s] = books[s] /\ caps'[s] = caps[s]
         /\ books' = [s \in Sleeves |-> books'[s]]
         /\ caps' \in [Sleeves -> HarvestCaps]
         /\ IsBook(books'[Stepping])
         /\ \A t \in books'[Stepping] : t.since <= period
         /\ current_leverage(books'[Stepping]) <= MaxLeverage[Stepping]
         /\ caps'[Stepping] # NoCap =>
              current_leverage(books'[Stepping]) <= caps'[Stepping].at
<1> DEFINE s == Stepping
           entered == Entered(s, in)
           leverage == current_leverage(entered)
           sold == PerCent(leverage, FractionToSell(in, leverage))
           left == Reduced(entered, sold)
           at == current_leverage(left)
           cap == IF sold > 0 THEN [at |-> at, rank |-> in.rank, flow |-> in.flow]
                  ELSE Standing(s, in)
<1> USE DEF ExposureInv
<1>1. s \in Sleeves
  BY SteppingTyped
<1>2. books' = [books EXCEPT ![s] = left] /\ caps' = [caps EXCEPT ![s] = cap]
  BY DEF Update
<1>3. IsBook(entered) /\ \A t \in entered : t.since <= period
  BY EnteredBook
<1>4. leverage \in Nat /\ sold \in Nat
  <2>1. leverage \in Nat
    BY <1>3, LeverageIsNat
  <2> HIDE DEF leverage
  <2> QED BY <2>1, SoldType DEF sold
<1>5. IsBook(left) /\ at = Beyond(leverage, sold) /\ at \in Nat /\ at <= leverage
  <2> HIDE DEF entered, sold
  <2>1. IsBook(left) /\ at = Beyond(leverage, sold)
    BY <1>3, <1>4, WhatIsLeft
  <2> QED
    BY <1>4, <2>1 DEF Beyond
<1>6. \A t \in left : t.since <= period
  <2> SUFFICES ASSUME NEW t \in left PROVE t.since <= period
    OBVIOUS
  <2>1. PICK u \in entered : t.since = u.since
    <3> HIDE DEF entered, sold
    <3> QED BY <1>3, <1>4, LeftOfBook
  <2> QED
    BY <1>3, <2>1
<1>7. cap \in HarvestCaps
  <2>1. Standing(s, in) \in HarvestCaps
    BY <1>1 DEF Standing, ExposureTyped, NoCap, HarvestCaps
  <2>2. in.rank \in Int /\ in.flow \in Int
    BY <1>1, EvidenceAssumption DEF Ranks
  <2> HIDE DEF at, sold
  <2> QED BY <1>5, <2>1, <2>2 DEF HarvestCaps
<1>8. leverage <= MaxLeverage[s] /\ (Standing(s, in) # NoCap => leverage <= Standing(s, in).at)
  BY EnteredIsBounded
<1>9. at <= MaxLeverage[s] /\ (cap # NoCap => at <= cap.at)
  <2>1. MaxLeverage[s] \in Nat
    BY <1>1, MandatesAssumption
  <2>2. CASE sold > 0
    <3>1. cap = [at |-> at, rank |-> in.rank, flow |-> in.flow]
      BY <2>2
    <3>2. cap.at = at
      <4> HIDE DEF cap, at
      <4> QED BY <3>1
    <3> HIDE DEF cap, at, leverage, s
    <3> QED BY <1>4, <1>5, <1>8, <2>1, <3>2
  <2>3. CASE ~(sold > 0)
    <3>1. cap = Standing(s, in)
      BY <2>3
    <3>2. Standing(s, in).at \in Int
      <4>1. Standing(s, in) \in HarvestCaps
        BY <1>1 DEF Standing, ExposureTyped, NoCap, HarvestCaps
      <4> QED BY <4>1 DEF HarvestCaps
    <3> HIDE DEF cap, at, leverage, s
    <3> QED BY <1>4, <1>5, <1>8, <2>1, <3>1, <3>2
  <2> QED
    BY <2>2, <2>3
<1>10. books'[s] = left /\ caps'[s] = cap
  <2>1. caps \in [Sleeves -> HarvestCaps] /\ books = [z \in Sleeves |-> books[z]]
    BY DEF ExposureTyped
  <2> HIDE DEF left, cap, s
  <2> QED BY <1>1, <1>2, <2>1
<1>11. /\ \A z \in Sleeves : z # s => books'[z] = books[z] /\ caps'[z] = caps[z]
       /\ books' = [z \in Sleeves |-> books'[z]]
       /\ caps' \in [Sleeves -> HarvestCaps]
  <2>1. caps \in [Sleeves -> HarvestCaps] /\ books = [z \in Sleeves |-> books[z]]
    BY DEF ExposureTyped
  <2> HIDE DEF left, cap, s
  <2> QED BY <1>1, <1>2, <1>7, <2>1
<1> HIDE DEF left, cap, entered, leverage, sold
<1> QED
  BY <1>5, <1>6, <1>9, <1>10, <1>11

-----------------------------------------------------------------------------
(* The cut of the gross leverage.                                          *)

LEMMA RoundedUp ==
  ASSUME NEW n \in Nat, NEW g \in Nat \ {0}
  PROVE  (n + g - 1) \div g \in Nat /\ n <= g * ((n + g - 1) \div g)
<1> DEFINE q == (n + g - 1) \div g
<1>1. q \in Int /\ n + g - 1 < g * q + g /\ g * q <= n + g - 1
  OBVIOUS
<1>2. q >= 0
  <2> SUFFICES ASSUME q <= -1 PROVE FALSE
    BY <1>1
  <2>1. g * q <= g * (-1)
    <3> HIDE DEF q
    <3> QED BY <1>1
  <2> HIDE DEF q
  <2> QED BY <1>1, <2>1
<1> HIDE DEF q
<1> QED
  BY <1>1, <1>2 DEF q

(* A book cut to the share that the maximum allows.                        *)
LEMMA CutToTheShare ==
  ASSUME NEW l \in Nat, NEW h \in Nat, NEW g \in Nat, g > h
  PROVE  /\ (l * (g - h) + g - 1) \div g \in Nat
         /\ Beyond(l, (l * (g - h) + g - 1) \div g) \in Nat
         /\ g * Beyond(l, (l * (g - h) + g - 1) \div g) <= h * l
<1> DEFINE n == l * (g - h)
           cut == (n + g - 1) \div g
<1>1. n \in Nat /\ g \in Nat \ {0} /\ n = g * l - h * l
  OBVIOUS
<1>2. cut \in Nat /\ n <= g * cut
  <2> HIDE DEF n
  <2> QED BY <1>1, RoundedUp
<1>3. g * l \in Nat /\ h * l \in Nat /\ g * cut \in Nat
  <2> HIDE DEF cut
  <2> QED BY <1>2
<1>4. CASE l > cut
  <2>1. g * (l - cut) = g * l - g * cut
    <3> HIDE DEF cut
    <3> QED BY <1>2
  <2>2. g * (l - cut) <= h * l
    <3> HIDE DEF cut, n
    <3> QED BY <1>1, <1>2, <1>3, <2>1
  <2>3. Beyond(l, cut) = l - cut /\ l - cut \in Nat
    <3> HIDE DEF cut
    <3> QED BY <1>2, <1>4 DEF Beyond
  <2> QED
    BY <1>2, <2>2, <2>3
<1>5. CASE ~(l > cut)
  <2>1. Beyond(l, cut) = 0
    <3> HIDE DEF cut
    <3> QED BY <1>5 DEF Beyond
  <2>2. g * 0 <= h * l
    BY <1>3
  <2> QED
    BY <1>2, <2>1, <2>2
<1> QED
  BY <1>4, <1>5

LEMMA SleevesFinite == IsFiniteSet(Sleeves)
<1>1. SleeveOrder \in Surjection(1..Len(SleeveOrder), Sleeves)
  BY MandatesAssumption DEF Surjection, Sleeves
<1>2. IsFiniteSet(1..Len(SleeveOrder))
  BY MandatesAssumption, FS_Interval
<1> QED
  BY <1>1, <1>2, FS_Surjection

(* A direction is no part of the magnitude of an exposure.                 *)
LEMMA GrossIsASum ==
  ASSUME ExposureTyped
  PROVE  Gross = SumFunction([s \in Sleeves \ blocked |-> Weight[s] * current_leverage(books[s])])
<1>1. ASSUME NEW s \in Sleeves \ blocked
      PROVE  Magnitude(Signed(s)) = Weight[s] * current_leverage(books[s])
  <2>1. Weight[s] \in Nat /\ current_leverage(books[s]) \in Nat /\ Direction[s] \in {1, -1}
    BY LeverageIsNat, MandatesAssumption DEF ExposureTyped
  <2> DEFINE n == Weight[s] * current_leverage(books[s])
  <2>2. n \in Nat
    BY <2>1
  <2>3. Signed(s) = n * Direction[s]
    BY DEF Signed
  <2> HIDE DEF n
  <2>4. Magnitude(n * Direction[s]) = n
    BY <2>1, <2>2 DEF Magnitude
  <2> QED
    BY <2>3, <2>4 DEF n
<1> QED
  BY <1>1 DEF Gross

LEMMA CutBooks ==
  ASSUME ExposureTyped, CapGross
  PROVE  /\ books' = [s \in Sleeves |-> books'[s]]
         /\ \A s \in Sleeves :
              \/ books'[s] = books[s]
              \/ \E amount \in Nat : books'[s] = Reduced(books[s], amount)
         /\ \A s \in Sleeves : IsBook(books'[s]) /\
              current_leverage(books'[s]) <= current_leverage(books[s])
         /\ SumFunction([s \in Sleeves \ blocked |-> Weight[s] * current_leverage(books[s])])'
              <= 100 * MaxGross
<1> DEFINE unblocked == Sleeves \ blocked
           lev(s) == current_leverage(books[s])
           f == [s \in unblocked |-> Weight[s] * lev(s)]
           g == SumFunctionOnSet(f, unblocked)
           h == 100 * MaxGross
           cut(s) == Excess(books[s])
           left(s) == current_leverage(books'[s])
           e == [s \in unblocked |-> Weight[s] * left(s)]
<1>1. Gross = g
  BY GrossIsASum DEF SumFunction
<1>2. SumFunction([s \in Sleeves \ blocked |-> Weight[s] * current_leverage(books[s])])'
        = SumFunctionOnSet(e, unblocked)
  BY DEF SumFunction, CapGross
<1>3. IsFiniteSet(unblocked)
  BY SleevesFinite, FS_Subset
<1>4. \A s \in Sleeves : lev(s) \in Nat /\ Weight[s] \in Nat /\ IsBook(books[s])
  BY LeverageIsNat, MandatesAssumption DEF ExposureTyped
<1>5. \A s \in unblocked : f[s] \in Nat /\ f[s] = Weight[s] * lev(s)
  BY <1>4
<1>6. g \in Nat /\ h \in Nat
  <2> HIDE DEF f, unblocked
  <2> QED BY <1>3, <1>5, SumIsNat, MandatesAssumption
<1>7. \A s \in Sleeves : books'[s] = IF s \in blocked THEN books[s] ELSE Reduced(books[s], cut(s))
  BY DEF CapGross
<1>8. \A s \in Sleeves : cut(s) = IF g <= h THEN 0 ELSE (lev(s) * (g - h) + g - 1) \div g
  <2> HIDE DEF g
  <2> QED BY <1>1 DEF Excess
<1>9. \A s \in Sleeves : cut(s) \in Nat
  <2> TAKE s \in Sleeves
  <2>1. CASE g <= h
    BY <1>8, <2>1
  <2>2. CASE ~(g <= h)
    <3>1. cut(s) = (lev(s) * (g - h) + g - 1) \div g /\ lev(s) \in Nat
      BY <1>4, <1>8, <2>2
    <3>2. (lev(s) * (g - h) + g - 1) \div g \in Nat
      <4> HIDE DEF g, h, lev
      <4> QED BY <1>6, <2>2, <3>1, CutToTheShare
    <3> QED BY <3>1, <3>2
  <2> QED BY <2>1, <2>2
<1>10. \A s \in unblocked : IsBook(books'[s]) /\ left(s) = Beyond(lev(s), cut(s))
  <2> TAKE s \in unblocked
  <2>1. books'[s] = Reduced(books[s], cut(s)) /\ IsBook(books[s]) /\ cut(s) \in Nat
    BY <1>4, <1>7, <1>9
  <2> HIDE DEF cut
  <2> QED BY <2>1, WhatIsLeft
<1>11. \A s \in unblocked : left(s) \in Nat /\ left(s) <= lev(s)
  <2> TAKE s \in unblocked
  <2>1. left(s) = Beyond(lev(s), cut(s)) /\ lev(s) \in Nat /\ cut(s) \in Nat
    BY <1>4, <1>9, <1>10
  <2> HIDE DEF left, lev, cut
  <2> QED BY <2>1 DEF Beyond
<1>12. \A s \in unblocked : e[s] \in Nat /\ e[s] = Weight[s] * left(s)
  <2> TAKE s \in unblocked
  <2>1. left(s) \in Nat /\ Weight[s] \in Nat
    BY <1>4, <1>11
  <2> HIDE DEF left
  <2> QED BY <2>1
<1>13. SumFunctionOnSet(e, unblocked) <= h
  <2>1. CASE g <= h
    <3>1. \A s \in unblocked : e[s] = f[s]
      <4> TAKE s \in unblocked
      <4>1. left(s) = lev(s)
        <5>1. cut(s) = 0 /\ lev(s) \in Nat /\ left(s) = Beyond(lev(s), cut(s))
          BY <1>4, <1>8, <1>10, <2>1
        <5> HIDE DEF left, lev, cut
        <5> QED BY <5>1 DEF Beyond
      <4> QED BY <4>1
    <3>2. SumFunctionOnSet(f, unblocked) = SumFunctionOnSet(e, unblocked)
      <4> HIDE DEF f, e, unblocked
      <4> QED BY <1>3, <1>5, <3>1, SumOfTheSame
    <3> QED BY <2>1, <3>2
  <2>2. CASE ~(g <= h)
    <3>1. \A s \in unblocked : g * e[s] <= h * f[s]
      <4> TAKE s \in unblocked
      <4>1. lev(s) \in Nat /\ Weight[s] \in Nat /\ left(s) \in Nat
        BY <1>4, <1>11
      <4>2. g * left(s) <= h * lev(s)
        <5>1. left(s) = Beyond(lev(s), (lev(s) * (g - h) + g - 1) \div g)
          BY <1>8, <1>10, <2>2
        <5> HIDE DEF g, h, lev, left
        <5> QED BY <1>6, <2>2, <4>1, <5>1, CutToTheShare
      <4>3. Weight[s] * (g * left(s)) <= Weight[s] * (h * lev(s))
        <5>1. g * left(s) \in Nat /\ h * lev(s) \in Nat
          <6> HIDE DEF g, h, lev, left
          <6> QED BY <1>6, <4>1
        <5> DEFINE x == g * left(s)
                   y == h * lev(s)
        <5> HIDE DEF x, y
        <5>2. Weight[s] * x <= Weight[s] * y
          BY <4>1, <4>2, <5>1 DEF x, y
        <5> QED BY <5>2 DEF x, y
      <4>4. /\ Weight[s] * (g * left(s)) = g * (Weight[s] * left(s))
            /\ Weight[s] * (h * lev(s)) = h * (Weight[s] * lev(s))
        <5> HIDE DEF g, h, lev, left
        <5> QED BY <1>6, <4>1
      <4> QED
        BY <1>5, <1>12, <4>3, <4>4
    <3>2. g * SumFunctionOnSet(e, unblocked) <= h * SumFunctionOnSet(f, unblocked)
      <4>1. g \in Int /\ h \in Int /\ \A s \in unblocked : e[s] \in Int /\ f[s] \in Int
        BY <1>5, <1>6, <1>12
      <4> HIDE DEF f, e, unblocked, g, h
      <4> QED BY <1>3, <3>1, <4>1, SumsCompare
    <3> DEFINE m == SumFunctionOnSet(e, unblocked)
    <3>3. m \in Nat
      <4> HIDE DEF e, unblocked
      <4> QED BY <1>3, <1>12, SumIsNat
    <3>4. g * m <= h * g
      BY <3>2
    <3> HIDE DEF g, h, m
    <3>5. ASSUME m > h PROVE FALSE
      <4>1. m >= h + 1
        BY <1>6, <3>3, <3>5
      <4>2. g * m >= g * (h + 1)
        BY <1>6, <3>3, <4>1
      <4>3. g * (h + 1) = h * g + g /\ g > 0 /\ h * g \in Nat /\ g * m \in Nat
        BY <1>6, <2>2, <3>3
      <4> QED BY <1>6, <3>4, <4>2, <4>3
    <3> QED BY <1>6, <3>3, <3>5 DEF m
  <2> QED BY <2>1, <2>2
<1>14. \A s \in Sleeves : IsBook(books'[s]) /\ left(s) <= lev(s)
  BY <1>4, <1>7, <1>10, <1>11
<1>15. \A s \in Sleeves : books'[s] = books[s] \/ \E amount \in Nat : books'[s] = Reduced(books[s], amount)
  BY <1>7, <1>9
<1>16. books' = [s \in Sleeves |-> books'[s]]
  BY DEF CapGross
<1> QED
  BY <1>2, <1>13, <1>14, <1>15, <1>16

-----------------------------------------------------------------------------
(* The steps.                                                              *)

LEMMA ExposureStarts == ExposureInit => ExposureInv
<1> SUFFICES ASSUME ExposureInit PROVE ExposureInv
  OBVIOUS
<1>1. IsBook({}) /\ current_leverage({}) = 0
  BY FS_EmptySet, LeverageOfNone DEF IsBook
<1>2. \A s \in Sleeves : books[s] = {} /\ caps[s] = NoCap
  BY DEF ExposureInit
<1>3. ExposureTyped
  <2>1. NoCap \in HarvestCaps
    BY DEF NoCap, HarvestCaps
  <2>2. Len(SleeveOrder) \in Nat
    BY MandatesAssumption
  <2>3. \A s \in Sleeves : IsBook(books[s])
    BY <1>1, <1>2
  <2>4. books = [s \in Sleeves |-> books[s]]
    <3>1. books = [s \in Sleeves |-> {}]
      BY DEF ExposureInit
    <3> QED BY <3>1
  <2>5. caps \in [Sleeves -> HarvestCaps]
    BY <2>1 DEF ExposureInit
  <2>6. turn \in 1..Len(SleeveOrder) + 1 /\ period \in Nat /\ blocked \in SUBSET Sleeves
          /\ returned \in BOOLEAN
    <3>1. turn = 1 /\ period = 0 /\ blocked = {} /\ returned = FALSE
      BY DEF ExposureInit
    <3>2. 1 \in 1..Len(SleeveOrder) + 1
      BY <2>2
    <3> QED BY <3>1, <3>2
  <2> QED
    BY <2>3, <2>4, <2>5, <2>6 DEF ExposureTyped
<1>4. Dated
  BY <1>2, MandatesAssumption DEF Dated
<1>5. HarvestStands
  BY <1>2 DEF HarvestStands
<1>6. GrossIsBounded
  BY <1>1, <1>2, MandatesAssumption DEF GrossIsBounded, ExposureInit
<1> QED
  BY <1>3, <1>4, <1>5, <1>6 DEF ExposureInv

LEMMA SleeveBlockedKeeps ==
  ASSUME ExposureInv, SleeveBlocked PROVE ExposureInv'
<1> USE DEF ExposureInv
<1>1. Len(SleeveOrder) \in Nat /\ Stepping \in Sleeves
  BY SteppingTyped, MandatesAssumption DEF SleeveBlocked, Step
<1>2. ExposureTyped'
  <2>1. books' = books /\ caps' = caps /\ period' = period /\ returned' = FALSE
    BY DEF SleeveBlocked, Step
  <2>2. turn' \in 1..Len(SleeveOrder) + 1 /\ blocked' \in SUBSET Sleeves
    BY <1>1 DEF ExposureTyped, SleeveBlocked, Step, BlockedBefore
  <2> QED
    BY <2>1, <2>2 DEF ExposureTyped
<1>3. Dated'
  <2> SUFFICES ASSUME NEW k \in DOMAIN SleeveOrder, NEW t \in books[SleeveOrder[k]]
               PROVE  t.since < period \/ (k < turn + 1 /\ t.since = period)
    BY DEF Dated, SleeveBlocked
  <2>1. t.since < period \/ (k < turn /\ t.since = period)
    BY DEF Dated
  <2>2. k \in Int /\ turn \in Int
    BY MandatesAssumption DEF ExposureTyped
  <2> QED BY <2>1, <2>2
<1>4. HarvestStands' /\ GrossIsBounded'
  BY DEF HarvestStands, GrossIsBounded, SleeveBlocked, Step
<1> QED
  BY <1>2, <1>3, <1>4

LEMMA SleeveSteppedKeeps ==
  ASSUME ExposureInv, turn <= Len(SleeveOrder),
         NEW in \in Evidence[Stepping], SleeveStepped(in)
  PROVE  ExposureInv'
<1>1. ~Unusable(Stepping, in) /\ Update(Stepping, in)
  BY DEF SleeveStepped
<1>2. turn <= Len(SleeveOrder) /\ turn' = turn + 1 /\ period' = period
        /\ blocked' = BlockedBefore /\ returned' = FALSE
  BY DEF SleeveStepped, Step
<1> DEFINE s == Stepping
<1>3. /\ \A z \in Sleeves : z # s => books'[z] = books[z] /\ caps'[z] = caps[z]
      /\ books' = [z \in Sleeves |-> books'[z]]
      /\ caps' \in [Sleeves -> HarvestCaps]
      /\ IsBook(books'[s])
      /\ \A t \in books'[s] : t.since <= period
      /\ current_leverage(books'[s]) <= MaxLeverage[s]
      /\ caps'[s] # NoCap => current_leverage(books'[s]) <= caps'[s].at
  BY <1>1, <1>2, Updated
<1>4. s \in Sleeves /\ turn \in DOMAIN SleeveOrder /\ Len(SleeveOrder) \in Nat /\ s = SleeveOrder[turn]
  BY <1>2, SteppingTyped, MandatesAssumption DEF ExposureInv, Stepping
<1> USE DEF ExposureInv
<1>5. ExposureTyped'
  <2>1. \A z \in Sleeves : IsBook(books'[z])
    <3> HIDE DEF s
    <3> QED BY <1>3 DEF ExposureTyped
  <2>2. turn' \in 1..Len(SleeveOrder) + 1 /\ period' \in Nat /\ blocked' \in SUBSET Sleeves
    BY <1>2, <1>4 DEF ExposureTyped, BlockedBefore
  <2> QED
    BY <1>2, <1>3, <2>1, <2>2 DEF ExposureTyped
<1>6. Dated'
  <2> SUFFICES ASSUME NEW k \in DOMAIN SleeveOrder, NEW t \in books'[SleeveOrder[k]]
               PROVE  t.since < period \/ (k < turn + 1 /\ t.since = period)
    BY <1>2 DEF Dated
  <2>1. k \in Int /\ turn \in Int /\ period \in Int
    BY MandatesAssumption DEF ExposureTyped
  <2>2. CASE SleeveOrder[k] = s
    <3>1. k = turn
      BY <1>2, <2>2, SteppingTyped
    <3>2. t.since <= period /\ t.since \in Int
      <4> HIDE DEF s
      <4> QED BY <1>3, <2>2 DEF IsBook, Tranches
    <3> QED BY <2>1, <3>1, <3>2
  <2>3. CASE SleeveOrder[k] # s
    <3>1. SleeveOrder[k] \in Sleeves
      BY DEF Sleeves
    <3>2. t \in books[SleeveOrder[k]]
      <4> HIDE DEF s
      <4> QED BY <1>3, <2>3, <3>1
    <3>3. t.since < period \/ (k < turn /\ t.since = period)
      BY <3>2 DEF Dated
    <3> QED BY <2>1, <3>3
  <2> QED BY <2>2, <2>3
<1>7. HarvestStands'
  <2> SUFFICES ASSUME NEW z \in Sleeves, caps'[z] # NoCap
               PROVE  current_leverage(books'[z]) <= caps'[z].at
    BY DEF HarvestStands
  <2> HIDE DEF s
  <2> QED BY <1>3 DEF HarvestStands
<1>8. GrossIsBounded'
  <2> SUFFICES ASSUME NEW z \in Sleeves
               PROVE  current_leverage(books'[z]) <= MaxLeverage[z]
    BY <1>2 DEF GrossIsBounded
  <2> HIDE DEF s
  <2> QED BY <1>3 DEF GrossIsBounded
<1> QED
  BY <1>5, <1>6, <1>7, <1>8

LEMMA GateRaisesKeeps ==
  ASSUME ExposureInv, NEW in \in Evidence[Stepping], GateRaises(in)
  PROVE  ExposureInv'
<1> USE DEF ExposureInv
<1>1. caps' = [caps EXCEPT ![Stepping] = Standing(Stepping, in)]
  BY DEF GateRaises
<1>2. turn' = 1 /\ period' = period + 1 /\ books' = books /\ blocked' = blocked /\ returned' = FALSE
  BY DEF GateRaises, Step, Ended
<1>3. Stepping \in Sleeves /\ Len(SleeveOrder) \in Nat
  BY SteppingTyped, MandatesAssumption DEF GateRaises, Step
<1>4. \A s \in Sleeves : caps'[s] = NoCap \/ caps'[s] = caps[s]
  BY <1>1, <1>3 DEF Standing, ExposureTyped
<1>5. ExposureTyped'
  <2>1. caps' \in [Sleeves -> HarvestCaps]
    <3>1. Standing(Stepping, in) \in HarvestCaps
      BY <1>3 DEF Standing, ExposureTyped, NoCap, HarvestCaps
    <3> QED BY <1>1, <3>1 DEF ExposureTyped
  <2>2. turn' \in 1..Len(SleeveOrder) + 1 /\ period' \in Nat
    BY <1>2, <1>3 DEF ExposureTyped
  <2> QED BY <1>2, <2>1, <2>2 DEF ExposureTyped
<1>6. Dated'
  <2> SUFFICES ASSUME NEW k \in DOMAIN SleeveOrder, NEW t \in books[SleeveOrder[k]]
               PROVE  t.since < period + 1
    BY <1>2 DEF Dated
  <2>1. t.since < period \/ t.since = period
    BY DEF Dated
  <2>2. period \in Int /\ SleeveOrder[k] \in Sleeves
    BY DEF ExposureTyped, Sleeves
  <2>3. t.since \in Int
    BY <2>2 DEF ExposureTyped, IsBook, Tranches
  <2> QED BY <2>1, <2>2, <2>3
<1>7. HarvestStands' /\ GrossIsBounded'
  BY <1>2, <1>4 DEF HarvestStands, GrossIsBounded
<1> QED
  BY <1>5, <1>6, <1>7

LEMMA PositionRaisesKeeps ==
  ASSUME ExposureInv, NEW in \in Evidence[Stepping], PositionRaises(in)
  PROVE  ExposureInv'
<1> DEFINE s == Stepping
           entered == Entered(s, in)
           cap == Standing(s, in)
<1> USE DEF ExposureInv
<1>1. turn <= Len(SleeveOrder) /\ ~Unusable(s, in)
  BY DEF PositionRaises, Step
<1>2. turn' = 1 /\ period' = period + 1 /\ blocked' = blocked /\ returned' = FALSE
  BY DEF PositionRaises, Step, Ended
<1>3. s \in Sleeves /\ Len(SleeveOrder) \in Nat
  BY <1>1, SteppingTyped, MandatesAssumption
<1>4. IsBook(entered) /\ \A t \in entered : t.since <= period
  BY <1>1, EnteredBook
<1>5. current_leverage(entered) <= MaxLeverage[s] /\ (cap # NoCap => current_leverage(entered) <= cap.at)
  BY <1>1, EnteredIsBounded
<1>6. cap \in HarvestCaps
  BY <1>3 DEF Standing, ExposureTyped, NoCap, HarvestCaps
<1>7. /\ books' = [z \in Sleeves |-> books'[z]]
      /\ caps' \in [Sleeves -> HarvestCaps]
      /\ books'[s] = entered /\ caps'[s] = cap
      /\ \A z \in Sleeves : z # s => books'[z] = books[z] /\ caps'[z] = caps[z]
  <2>1. books' = [books EXCEPT ![s] = entered] /\ caps' = [caps EXCEPT ![s] = cap]
    BY DEF PositionRaises
  <2>2. caps \in [Sleeves -> HarvestCaps] /\ books = [z \in Sleeves |-> books[z]]
    BY DEF ExposureTyped
  <2> HIDE DEF entered, cap, s
  <2> QED BY <1>3, <1>6, <2>1, <2>2
<1> HIDE DEF entered, cap, s
<1>8. ExposureTyped'
  <2>1. turn' \in 1..Len(SleeveOrder) + 1 /\ period' \in Nat
    BY <1>2, <1>3 DEF ExposureTyped
  <2>2. \A z \in Sleeves : IsBook(books'[z])
    BY <1>4, <1>7 DEF ExposureTyped
  <2> QED BY <1>2, <1>7, <2>1, <2>2 DEF ExposureTyped
<1>9. Dated'
  <2> SUFFICES ASSUME NEW k \in DOMAIN SleeveOrder, NEW t \in books'[SleeveOrder[k]]
               PROVE  t.since < period + 1
    BY <1>2 DEF Dated
  <2>1. period \in Int /\ SleeveOrder[k] \in Sleeves
    BY DEF ExposureTyped, Sleeves
  <2>2. CASE SleeveOrder[k] = s
    <3>1. t.since <= period /\ t.since \in Int
      BY <1>4, <1>7, <2>2 DEF IsBook, Tranches
    <3> QED BY <2>1, <3>1
  <2>3. CASE SleeveOrder[k] # s
    <3>1. t \in books[SleeveOrder[k]]
      BY <1>7, <2>1, <2>3
    <3>2. t.since < period \/ t.since = period
      BY <3>1 DEF Dated
    <3>3. t.since \in Int
      BY <2>1, <3>1 DEF ExposureTyped, IsBook, Tranches
    <3> QED BY <2>1, <3>2, <3>3
  <2> QED BY <2>2, <2>3
<1>10. HarvestStands'
  <2> SUFFICES ASSUME NEW z \in Sleeves, caps'[z] # NoCap
               PROVE  current_leverage(books'[z]) <= caps'[z].at
    BY DEF HarvestStands
  <2> QED BY <1>5, <1>7 DEF HarvestStands
<1>11. GrossIsBounded'
  <2> SUFFICES ASSUME NEW z \in Sleeves
               PROVE  current_leverage(books'[z]) <= MaxLeverage[z]
    BY <1>2 DEF GrossIsBounded
  <2> QED BY <1>5, <1>7 DEF GrossIsBounded
<1> QED
  BY <1>8, <1>9, <1>10, <1>11

LEMMA CapGrossKeeps ==
  ASSUME ExposureInv, CapGross PROVE ExposureInv'
<1> USE DEF ExposureInv
<1>1. turn' = 1 /\ period' = period + 1 /\ caps' = caps /\ blocked' = blocked /\ returned' = TRUE
  BY DEF CapGross, Ended
<1>2. /\ books' = [s \in Sleeves |-> books'[s]]
      /\ \A s \in Sleeves : \/ books'[s] = books[s]
                            \/ \E amount \in Nat : books'[s] = Reduced(books[s], amount)
      /\ \A s \in Sleeves : IsBook(books'[s]) /\
           current_leverage(books'[s]) <= current_leverage(books[s])
      /\ SumFunction([s \in Sleeves \ blocked |-> Weight[s] * current_leverage(books[s])])'
           <= 100 * MaxGross
  BY CutBooks
<1>3. \A s \in Sleeves : IsBook(books[s]) /\ current_leverage(books[s]) \in Nat
        /\ current_leverage(books'[s]) \in Nat
  BY <1>2, LeverageIsNat DEF ExposureTyped
<1>4. ExposureTyped'
  <2>1. 1 \in 1..Len(SleeveOrder) + 1
    BY MandatesAssumption
  <2> QED BY <1>1, <1>2, <2>1 DEF ExposureTyped
<1>5. Dated'
  <2> SUFFICES ASSUME NEW k \in DOMAIN SleeveOrder, NEW t \in books'[SleeveOrder[k]]
               PROVE  t.since < period + 1
    BY <1>1 DEF Dated
  <2> DEFINE s == SleeveOrder[k]
  <2>1. s \in Sleeves
    BY DEF Sleeves
  <2>2. \E u \in books[s] : t.since = u.since
    <3>1. CASE books'[s] = books[s]
      BY <3>1
    <3>2. ASSUME NEW amount \in Nat, books'[s] = Reduced(books[s], amount)
          PROVE  \E u \in books[s] : t.since = u.since
      <4> HIDE DEF s
      <4>1. t \in Reduced(books[s], amount)
        BY <3>2 DEF s
      <4> QED BY <1>3, <2>1, <4>1, LeftOfBook
    <3> QED
      BY <1>2, <2>1, <3>1, <3>2
  <2>3. PICK u \in books[s] : t.since = u.since
    BY <2>2
  <2>4. u.since < period \/ u.since = period
    BY <2>3 DEF Dated
  <2>5. period \in Int /\ u.since \in Int
    <3> HIDE DEF s
    <3> QED BY <1>3, <2>1, <2>3 DEF ExposureTyped, IsBook, Tranches
  <2> QED BY <2>3, <2>4, <2>5
<1>6. HarvestStands'
  <2> SUFFICES ASSUME NEW s \in Sleeves, caps[s] # NoCap
               PROVE  current_leverage(books'[s]) <= caps[s].at
    BY <1>1 DEF HarvestStands
  <2>1. current_leverage(books[s]) <= caps[s].at /\ caps[s].at \in Int
    BY DEF HarvestStands, ExposureTyped, HarvestCaps
  <2> QED BY <1>2, <1>3, <2>1
<1>7. GrossIsBounded'
  <2>1. \A s \in Sleeves : current_leverage(books[s]) <= MaxLeverage[s] /\ MaxLeverage[s] \in Nat
    BY MandatesAssumption DEF GrossIsBounded
  <2>2. \A s \in Sleeves : current_leverage(books'[s]) <= MaxLeverage[s]
    BY <1>2, <1>3, <2>1
  <2> QED BY <1>2, <2>2 DEF GrossIsBounded
<1> QED
  BY <1>4, <1>5, <1>6, <1>7

LEMMA ExposureSteps == ExposureInv /\ [ExposureNext]_exposureVars => ExposureInv'
<1> SUFFICES ASSUME ExposureInv, [ExposureNext]_exposureVars PROVE ExposureInv'
  OBVIOUS
<1>1. CASE SleeveBlocked
  BY <1>1, SleeveBlockedKeeps
<1>2. ASSUME turn <= Len(SleeveOrder), NEW in \in Evidence[Stepping],
             SleeveStepped(in) \/ GateRaises(in) \/ PositionRaises(in)
      PROVE  ExposureInv'
  BY <1>2, SleeveSteppedKeeps, GateRaisesKeeps, PositionRaisesKeeps
<1>3. CASE CapGross
  BY <1>3, CapGrossKeeps
<1>4. CASE UNCHANGED exposureVars
  BY <1>4 DEF exposureVars, ExposureInv, ExposureTyped, Dated, HarvestStands, GrossIsBounded
<1> QED
  BY <1>1, <1>2, <1>3, <1>4 DEF ExposureNext

THEOREM ExposureInvariant == ExposureSpec => []ExposureInv
BY ExposureStarts, ExposureSteps, PTL DEF ExposureSpec

(* Harvested leverage stays harvested: while the ceiling that a profit left *)
(* stands, no evidence, period without data, raise or cut brings the book  *)
(* above it (DynamicExposureController.update).                            *)
THEOREM HarvestsStand == ExposureSpec => []HarvestStands
<1>1. ExposureInv => HarvestStands
  BY DEF ExposureInv
<1> QED
  BY <1>1, ExposureInvariant, PTL

(* What an update of the portfolio returns is within its maximum gross     *)
(* leverage, and every book within the mandate of its sleeve, whatever the *)
(* weights, the mandates and the evidence are.                             *)
THEOREM GrossStaysBounded == ExposureSpec => []GrossIsBounded
<1>1. ExposureInv => GrossIsBounded
  BY DEF ExposureInv
<1> QED
  BY <1>1, ExposureInvariant, PTL

-----------------------------------------------------------------------------
(* The order of a cut.                                                     *)

(* A tranche that shrinks has none before it.                              *)
LEMMA NoneBeforeTheCut ==
  ASSUME NEW b, IsBook(b), NEW amount \in Nat, NEW t \in b,
         \A u \in Reduced(b, amount) : u.since = t.since => u.size < t.size
  PROVE  ~\E u \in Reduced(b, amount) : Riskier(u, t)
<1> SUFFICES ASSUME NEW v \in Reduced(b, amount), Riskier(v, t) PROVE FALSE
  OBVIOUS
<1>1. PICK u \in b : v.since = u.since /\ v.rank = u.rank /\ Kept(b, u, amount) > 0
  BY LeftOfBook
<1>2. Riskier(u, t) /\ u # t
  <2>1. Riskier(u, t)
    BY <1>1 DEF Riskier
  <2> QED BY <2>1, RiskIsAnOrder
<1> DEFINE ahead == Ahead(b, t)
           before == Ahead(b, u)
<1>3. Kept(b, t, amount) \in Nat /\ Kept(b, t, amount) # t.size
  <2> SUFFICES ASSUME Kept(b, t, amount) = t.size PROVE FALSE
    BY KeptType
  <2>1. t.size > 0 /\ t = [t EXCEPT !.size = Kept(b, t, amount)]
    BY DEF IsBook, Tranches
  <2>2. t \in Reduced(b, amount)
    BY <2>1 DEF Reduced
  <2>3. t.size < t.size /\ t.size \in Int
    BY <2>1, <2>2 DEF IsBook, Tranches
  <2> QED BY <2>3
<1>4. amount > current_leverage(ahead) /\ current_leverage(ahead) \in Nat
  BY <1>3, KeptType
<1>5. before \union {u} \in SUBSET ahead /\ u \in b \ before /\ before \in SUBSET b /\ ahead \in SUBSET b
  BY <1>2, RiskIsAnOrder DEF Ahead
<1>6. current_leverage(before \union {u}) = u.size + current_leverage(before)
  <2> HIDE DEF before
  <2> QED BY <1>5, LeverageOfOneMore
<1>7. current_leverage(before \union {u}) <= current_leverage(ahead)
  <2> HIDE DEF before, ahead
  <2> QED BY <1>5, PartOfBook, LeverageOfPart
<1>8. u.size \in Nat /\ current_leverage(before) \in Nat
  BY KeptType DEF IsBook, Tranches
<1>9. amount >= current_leverage(before) + u.size
  <2> HIDE DEF before, ahead
  <2> QED BY <1>4, <1>6, <1>7, <1>8
<1>10. Kept(b, u, amount) = 0
  BY <1>9, KeptType
<1> QED
  BY <1>1, <1>10

LEMMA RiskiestAtEachStep == ExposureInv /\ [ExposureNext]_exposureVars => OrderOfTheCut
<1> SUFFICES ASSUME ExposureInv, [ExposureNext]_exposureVars,
                    NEW s \in Sleeves, NEW t \in books[s],
                    \A u \in books'[s] : u.since = t.since => u.size < t.size
             PROVE  ~\E u \in books'[s] : Riskier(u, t)
  BY DEF OrderOfTheCut
<1>1. IsBook(books[s]) /\ t.size \in Int
  BY DEF ExposureInv, ExposureTyped, IsBook, Tranches
<1>2. CASE books'[s] = books[s]
  <2>1. t.size < t.size
    BY <1>2
  <2> QED BY <1>1, <2>1
<1>3. ASSUME NEW b, IsBook(b), t \in b, NEW amount \in Nat, books'[s] = Reduced(b, amount)
      PROVE  ~\E u \in books'[s] : Riskier(u, t)
  <2>1. \A u \in Reduced(b, amount) : u.since = t.since => u.size < t.size
    BY <1>3
  <2> QED BY <1>3, <2>1, NoneBeforeTheCut
<1>4. ASSUME NEW in \in Evidence[Stepping], SleeveStepped(in)
      PROVE  ~\E u \in books'[s] : Riskier(u, t)
  <2>1. ~Unusable(Stepping, in) /\ Update(Stepping, in)
    BY <1>4 DEF SleeveStepped
  <2>2. turn <= Len(SleeveOrder) /\ books \in [Sleeves -> SUBSET Tranches]
    BY <1>4 DEF SleeveStepped, Step, ExposureInv, ExposureTyped, IsBook
  <2> DEFINE entered == Entered(Stepping, in)
             leverage == current_leverage(entered)
             sold == PerCent(leverage, FractionToSell(in, leverage))
  <2>3. IsBook(entered) /\ books[Stepping] \subseteq entered
    BY <2>1, <2>2, EnteredBook DEF ExposureInv
  <2>4. sold \in Nat
    <3>1. leverage \in Nat
      BY <2>3, LeverageIsNat
    <3> HIDE DEF leverage
    <3> QED BY <3>1, SoldType
  <2>5. books' = [books EXCEPT ![Stepping] = Reduced(entered, sold)]
    BY <2>1 DEF Update
  <2>6. CASE s = Stepping
    <3>1. books'[s] = Reduced(entered, sold) /\ t \in entered
      <4> HIDE DEF entered, sold
      <4> QED BY <2>2, <2>3, <2>5, <2>6
    <3> HIDE DEF entered, sold
    <3> QED BY <1>3, <2>3, <2>4, <3>1
  <2>7. CASE s # Stepping
    <3>1. books'[s] = books[s]
      <4> HIDE DEF entered, sold
      <4> QED BY <2>2, <2>5, <2>7
    <3> QED BY <1>2, <3>1
  <2> QED BY <2>6, <2>7
<1>5. CASE CapGross
  <2>1. books'[s] = books[s] \/ \E amount \in Nat : books'[s] = Reduced(books[s], amount)
    BY <1>5, CutBooks DEF ExposureInv
  <2> QED BY <1>1, <1>2, <1>3, <2>1
<1>6. CASE SleeveBlocked \/ (\E in \in Evidence[Stepping] : GateRaises(in)) \/ UNCHANGED exposureVars
  <2>1. books' = books
    BY <1>6 DEF SleeveBlocked, GateRaises, exposureVars
  <2> QED BY <1>2, <2>1
<1>7. ASSUME NEW in \in Evidence[Stepping], PositionRaises(in)
      PROVE  ~\E u \in books'[s] : Riskier(u, t)
  <2> DEFINE entered == Entered(Stepping, in)
  <2>1. /\ turn <= Len(SleeveOrder) /\ ~Unusable(Stepping, in)
        /\ books' = [books EXCEPT ![Stepping] = entered]
        /\ books = [z \in Sleeves |-> books[z]]
    BY <1>7 DEF PositionRaises, Step, ExposureInv, ExposureTyped
  <2>2. books[Stepping] \subseteq entered
    BY <2>1, EnteredBook DEF ExposureInv
  <2>3. t \in books'[s]
    <3> HIDE DEF entered
    <3> QED BY <2>1, <2>2
  <2>4. t.size < t.size
    BY <2>3
  <2> QED BY <1>1, <2>4
<1> QED
  BY <1>4, <1>5, <1>6, <1>7 DEF ExposureNext

(* Leverage comes off the riskiest tranche first, in a harvest as in a cut *)
(* of the gross: none shrinks while a riskier one is left                  *)
(* (TrancheBook.reduce_leverage).                                          *)
THEOREM RiskiestGoes == ExposureSpec => RiskiestGoesFirst
<1>1. ExposureInv /\ [ExposureNext]_exposureVars => [OrderOfTheCut]_exposureVars
  BY RiskiestAtEachStep
<1>2. ExposureSpec => [][OrderOfTheCut]_exposureVars
  BY <1>1, ExposureInvariant, PTL DEF ExposureSpec
<1> QED
  BY <1>2 DEF RiskiestGoesFirst

-----------------------------------------------------------------------------
(* Tiers and the leverage that evidence of a tier asks for.                *)

LEMMA QualityType ==
  ASSUME NEW scores \in Scores PROVE Quality(scores) \in Nat /\ Quality(scores) <= 10000
<1> DEFINE weighted == [s \in DOMAIN implementation_quality_weights |->
                          implementation_quality_weights[s] * scores[s]]
           core == SumFunction(weighted)
           penalized == core - ambiguity_penalty_weight * scores.ambiguity_penalty
<1>1. DOMAIN implementation_quality_weights =
        {"iav", "aqd_quality", "anomaly_score", "manager_breadth_score",
         "persistence_score", "diffusion_score", "evidence_quality"}
  BY DEF implementation_quality_weights
<1>2. IsFiniteSet(DOMAIN implementation_quality_weights)
  <2>1. /\ IsFiniteSet({"iav"}) /\ IsFiniteSet({"aqd_quality"}) /\ IsFiniteSet({"anomaly_score"})
        /\ IsFiniteSet({"manager_breadth_score"}) /\ IsFiniteSet({"persistence_score"})
        /\ IsFiniteSet({"diffusion_score"}) /\ IsFiniteSet({"evidence_quality"})
    BY FS_Singleton
  <2>2. /\ IsFiniteSet({"iav"} \union {"aqd_quality"} \union {"anomaly_score"})
        /\ IsFiniteSet({"manager_breadth_score"} \union {"persistence_score"})
        /\ IsFiniteSet({"diffusion_score"} \union {"evidence_quality"})
    BY <2>1, FS_Union
  <2>3. IsFiniteSet(({"iav"} \union {"aqd_quality"} \union {"anomaly_score"})
                     \union ({"manager_breadth_score"} \union {"persistence_score"})
                     \union ({"diffusion_score"} \union {"evidence_quality"}))
    BY <2>2, FS_Union
  <2>4. DOMAIN implementation_quality_weights =
          (({"iav"} \union {"aqd_quality"} \union {"anomaly_score"})
            \union ({"manager_breadth_score"} \union {"persistence_score"})
            \union ({"diffusion_score"} \union {"evidence_quality"}))
    BY <1>1
  <2> QED
    BY <2>3, <2>4
<1>3. \A s \in DOMAIN implementation_quality_weights : implementation_quality_weights[s] \in Int
  BY DEF implementation_quality_weights
<1>4. \A s \in DOMAIN implementation_quality_weights : weighted[s] \in Int
  BY <1>3, ScoresAssumption
<1>5. DOMAIN weighted = DOMAIN implementation_quality_weights
  OBVIOUS
<1>6. core \in Int
  <2> HIDE DEF weighted
  <2> QED
    BY <1>2, <1>4, <1>5, SumIsInt DEF SumFunction
<1>7. penalized \in Int
  <2> HIDE DEF core
  <2> QED
    BY <1>6, ScoresAssumption DEF ambiguity_penalty_weight
<1>8. Quality(scores) = Max({0, Min({10000, penalized})})
  BY DEF Quality
<1> HIDE DEF penalized
<1>9. Min({10000, penalized}) \in Int /\ Min({10000, penalized}) <= 10000
  BY <1>7, MaxOfTwo
<1> DEFINE least == Min({10000, penalized})
<1> HIDE DEF least
<1>10. Max({0, least}) \in {0, least} /\ 0 <= Max({0, least})
  <2>1. least \in Int
    BY <1>9 DEF least
  <2> QED
    BY <2>1, MaxOfTwo
<1>11. Quality(scores) = Max({0, least}) /\ least \in Int /\ least <= 10000
  BY <1>8, <1>9 DEF least
<1> DEFINE most == Max({0, least})
<1>12. Quality(scores) = most /\ most \in {0, least} /\ 0 <= most
  BY <1>10, <1>11
<1> HIDE DEF most
<1> QED
  BY <1>11, <1>12

(* The tier counts the thresholds that are reached.                        *)
LEMMA TierOf ==
  ASSUME NEW q \in Int
  PROVE  /\ q < 3000 => TierRank(q) = 0
         /\ 3000 <= q /\ q < 6000 => TierRank(q) = 1
         /\ 6000 <= q /\ q < 8000 => TierRank(q) = 2
         /\ 8000 <= q => TierRank(q) = 3
<1> DEFINE reached == {threshold \in {3000, 6000, 8000} : q >= threshold}
<1>1. TierRank(q) = Cardinality(reached)
  BY DEF TierRank
<1>2. Cardinality({}) = 0
  BY FS_EmptySet
<1>3. Cardinality({3000}) = 1 /\ IsFiniteSet({3000})
  <2>1. IsFiniteSet({3000})
    BY FS_Singleton
  <2>2. IsFiniteSet({}) /\ 3000 \notin {} /\ {} \union {3000} = {3000}
    BY FS_EmptySet
  <2>3. Cardinality({} \union {3000}) = Cardinality({}) + 1
    BY <2>2, FS_AddElement
  <2> QED
    BY <2>1, <2>2, <2>3, <1>2
<1>4. Cardinality({3000} \union {6000}) = 2 /\ IsFiniteSet({3000} \union {6000})
  BY <1>3, FS_AddElement
<1>5. Cardinality(({3000} \union {6000}) \union {8000}) = 3
  BY <1>4, FS_AddElement
<1>6. q < 3000 => reached = {}
  OBVIOUS
<1>7. 3000 <= q /\ q < 6000 => reached = {3000}
  OBVIOUS
<1>8. 6000 <= q /\ q < 8000 => reached = {3000} \union {6000}
  OBVIOUS
<1>9. 8000 <= q => reached = ({3000} \union {6000}) \union {8000}
  OBVIOUS
<1> QED
  BY <1>1, <1>2, <1>3, <1>4, <1>5, <1>6, <1>7, <1>8, <1>9

\* The quality that a ceiling speaks for.
Evidenced(leverage) == ((leverage - min_leverage) * 10000) \div (max_leverage - min_leverage)

LEMMA RequestedType ==
  ASSUME NEW q \in Nat, q <= 10000
  PROVE  /\ RequestedLeverage(q) \in Nat
         /\ TierRank(Evidenced(RequestedLeverage(q))) = TierRank(q)
         /\ TierRank(q) \in 0..3
<1> DEFINE part == (q * 15000) \div 10000
           back == (part * 10000) \div 15000
<1>1. part \in Nat /\ part * 10000 <= q * 15000 /\ q * 15000 < part * 10000 + 10000
  OBVIOUS
<1>2. RequestedLeverage(q) = 5000 + part
  BY DEF RequestedLeverage, min_leverage, max_leverage
<1>3. back \in Int /\ back * 15000 <= part * 10000 /\ part * 10000 < back * 15000 + 15000
  <2> HIDE DEF part
  <2> QED
    BY <1>1
<1>4. Evidenced(RequestedLeverage(q)) = back
  <2>1. Evidenced(5000 + part) = ((5000 + part - 5000) * 10000) \div 15000
    BY DEF Evidenced, min_leverage, max_leverage
  <2> HIDE DEF part
  <2>2. 5000 + part - 5000 = part
    BY <1>1
  <2> QED
    BY <1>2, <2>1, <2>2
<1> HIDE DEF back, part
<1>5. \A threshold \in {3000, 6000, 8000} : back >= threshold <=> q >= threshold
  BY <1>1, <1>3
<1>6. TierRank(back) = TierRank(q)
  BY <1>5, <1>3 DEF TierRank
<1>7. TierRank(q) \in 0..3
  BY TierOf
<1> QED
  BY <1>1, <1>2, <1>4, <1>6, <1>7

LEMMA HigherTierAsksMore ==
  ASSUME NEW a \in Int, NEW b \in Int, TierRank(Evidenced(a)) < TierRank(Evidenced(b))
  PROVE  a < b
<1>1. SUFFICES ASSUME b <= a PROVE FALSE
  OBVIOUS
<1> DEFINE x == ((a - 5000) * 10000) \div 15000
           y == ((b - 5000) * 10000) \div 15000
<1>2. Evidenced(a) = x /\ Evidenced(b) = y
  BY DEF Evidenced, min_leverage, max_leverage
<1>3. x \in Int /\ y \in Int /\ y <= x
  BY <1>1
<1> HIDE DEF x, y
<1>4. TierRank(y) <= TierRank(x)
  BY <1>3, TierOf
<1>5. TierRank(x) \in Int /\ TierRank(y) \in Int
  BY <1>3, TierOf
<1> QED
  BY <1>2, <1>4, <1>5

-----------------------------------------------------------------------------
(* The invariant: the floor or the tier's evidence is behind the ceiling,  *)
(* and what is approved is within the ceiling and the two ratios an order  *)
(* is funded from.                                                         *)

TierInv ==
  IF month = 0 THEN tier = NoTier /\ order = NoOrder /\ approved = 0
  ELSE tier \in 0..3 /\ snapshot \in Contexts

WithinTheRatios ==
  /\ snapshot \in Contexts
  /\ approved <= ceiling
  /\ snapshot.base > 0 /\ approved * snapshot.base <= 10000 * snapshot.executable
  /\ Loss(snapshot) > 0 /\ approved * Loss(snapshot) <= 10000 * snapshot.limits.max_trade_loss

SizingInv ==
  /\ month \in Nat /\ ceiling \in Nat /\ approved \in Nat
  /\ TierInv
  /\ approved > 0 => WithinTheRatios
  /\ CapitalIsEarned

LEMMA SizingStarts == SizingInit => SizingInv
BY SizingAssumption DEF SizingInit, SizingInv, TierInv, NoTier, NoOrder, Refused, CapitalIsEarned,
   CeilingFitsTheTier, OrderIsFunded, AllocationFailsClosed

LEMMA RatioCaps ==
  ASSUME NEW n \in Int, NEW d \in Int
  PROVE  /\ Ratio(n, d) \in Int
         /\ Ratio(n, d) > 0 => d > 0
         /\ \A a \in Nat : a > 0 /\ a <= Ratio(n, d) => a * d <= 10000 * n
<1>1. CASE d <= 0
  BY <1>1 DEF Ratio
<1>2. CASE d > 0
  <2> DEFINE r == (10000 * n) \div d
  <2>1. r \in Int /\ r * d <= 10000 * n
    BY <1>2
  <2>2. Ratio(n, d) = r
    BY <1>2 DEF Ratio
  <2> HIDE DEF r
  <2>3. ASSUME NEW a \in Nat, a <= r PROVE a * d <= 10000 * n
    <3>1. a * d <= r * d
      BY <2>1, <2>3, <1>2
    <3> QED
      BY <3>1, <2>1, <1>2
  <2> QED
    BY <1>2, <2>1, <2>2, <2>3
<1> QED
  BY <1>1, <1>2

LEMMA WithinTheCaps ==
  ASSUME NEW context \in Contexts, NEW top \in Nat,
         NEW a, a = Max({0, Min({top} \union Caps(context))})
  PROVE  /\ a \in Nat
         /\ a > 0 => /\ a <= top
                     /\ a <= Ratio(context.limits.max_trade_loss, Loss(context))
                     /\ a <= Ratio(context.executable, context.base)
<1> DEFINE plain == DOMAIN context.limits \ {"max_trade_loss", "volatility"}
           direct == {context.limits[l] : l \in plain}
           ratios == {Ratio(context.limits.max_trade_loss, Loss(context)),
                      Ratio(context.limits.volatility, context.volatility),
                      Ratio(context.executable, context.base)}
           all == {top} \union (direct \union ratios)
<1>1. /\ Loss(context) \in Int /\ context.volatility \in Int
      /\ context.base \in Int /\ context.executable \in Int
  BY SizingAssumption DEF Loss
<1>2. /\ context.limits["max_trade_loss"] \in Int /\ context.limits["volatility"] \in Int
      /\ IsFiniteSet(DOMAIN context.limits) /\ direct \subseteq Int
  BY SizingAssumption
<1>3. /\ Ratio(context.limits["max_trade_loss"], Loss(context)) \in Int
      /\ Ratio(context.limits["volatility"], context.volatility) \in Int
      /\ Ratio(context.executable, context.base) \in Int
  <2> HIDE DEF plain, direct, ratios, all
  <2>0. \A n \in Int, d \in Int : Ratio(n, d) \in Int
    BY RatioCaps
  <2>1. Ratio(context.limits["max_trade_loss"], Loss(context)) \in Int
    BY <1>1, <1>2, <2>0
  <2>2. Ratio(context.limits["volatility"], context.volatility) \in Int
    BY <1>1, <1>2, <2>0
  <2>3. Ratio(context.executable, context.base) \in Int
    BY <1>1, <1>2, <2>0
  <2> QED
    BY <2>1, <2>2, <2>3
<1>4. IsFiniteSet(direct)
  <2>1. IsFiniteSet(plain)
    BY <1>2, FS_Subset
  <2> HIDE DEF plain
  <2> QED
    BY <2>1, ImageIsFinite
<1>5. IsFiniteSet(all) /\ all \in SUBSET Int /\ top \in all
  <2>1. \A x, y, z : IsFiniteSet({x, y, z})
    <3> SUFFICES ASSUME NEW x, NEW y, NEW z PROVE IsFiniteSet({x, y, z})
      OBVIOUS
    <3>1. IsFiniteSet({x, y}) /\ IsFiniteSet({z})
      BY PairIsFinite, FS_Singleton
    <3>2. {x, y} \union {z} = {x, y, z}
      OBVIOUS
    <3> QED
      BY <3>1, <3>2, FS_Union
  <2>2. IsFiniteSet(ratios) /\ IsFiniteSet({top})
    BY <2>1, FS_Singleton
  <2>3. ratios \subseteq Int
    BY <1>3
  <2>7. direct \subseteq Int
    BY <1>2
  <2> HIDE DEF direct, ratios
  <2>4. IsFiniteSet(direct \union ratios)
    BY <1>4, <2>2, FS_Union
  <2>5. IsFiniteSet({top} \union (direct \union ratios))
    <3> DEFINE rest == direct \union ratios
    <3> HIDE DEF rest
    <3>1. IsFiniteSet({top} \union rest)
      BY <2>2, <2>4, FS_Union DEF rest
    <3> QED
      BY <3>1 DEF rest
  <2>6. all \in SUBSET Int /\ top \in all
    BY <2>7, <2>3
  <2> QED
    BY <2>5, <2>6
<1> DEFINE least == Min(all)
<1>6. least \in Int /\ \A x \in all : least <= x
  <2> HIDE DEF all
  <2> QED
    BY <1>5, LeastOfFinite
<1>7. a = Max({0, least})
  BY DEF Caps
<1>8. /\ least <= top
      /\ least <= Ratio(context.limits["max_trade_loss"], Loss(context))
      /\ least <= Ratio(context.executable, context.base)
  BY <1>6
<1> HIDE DEF least
<1>9. a \in {0, least} /\ 0 <= a
  BY <1>6, <1>7, MaxOfTwo
<1> QED
  BY <1>6, <1>8, <1>9, <1>3

LEMMA MonthKeeps == SizingInv /\ Month => SizingInv'
<1> SUFFICES ASSUME SizingInv, Month PROVE SizingInv'
  OBVIOUS
<1>1. PICK scores \in Scores, context \in Contexts :
        /\ tier' = TierRank(Quality(scores))
        /\ ceiling' = NextCeiling(TierRank(Quality(scores)), RequestedLeverage(Quality(scores)))
        /\ snapshot' = context
        /\ approved' = Max({0, Min({ceiling'} \union Caps(context))})
  BY DEF Month
<1> DEFINE q == Quality(scores)
           asked == RequestedLeverage(q)
<1>2. q \in Nat /\ q <= 10000
  BY QualityType
<1> HIDE DEF q
<1>3. /\ asked \in Nat /\ TierRank(Evidenced(asked)) = TierRank(q) /\ TierRank(q) \in 0..3
  <2>1. /\ RequestedLeverage(q) \in Nat
        /\ TierRank(Evidenced(RequestedLeverage(q))) = TierRank(q)
        /\ TierRank(q) \in 0..3
    BY <1>2, RequestedType
  <2> QED
    BY <2>1
<1> HIDE DEF asked
<1>4. month \in Nat /\ month' = month + 1 /\ order' = NoOrder /\ allocation' = allocation
  BY DEF SizingInv, Month
<1>5. ceiling \in Nat /\ FloorLeverage \in Nat
  BY SizingAssumption DEF SizingInv
<1>6. tier' = TierRank(q) /\ ceiling' = NextCeiling(TierRank(q), asked)
  BY <1>1 DEF q, asked
<1>7. /\ ceiling' \in Nat
      /\ ceiling' = FloorLeverage \/ TierRank(Evidenced(ceiling')) = TierRank(q)
  <2>1. CASE tier = NoTier
    <3>1. ceiling' = Max({FloorLeverage, asked})
      BY <1>6, <2>1 DEF NextCeiling
    <3>2. ceiling' \in {FloorLeverage, asked}
      BY <3>1, <1>3, <1>5, MaxOfTwo
    <3> QED
      BY <3>2, <1>3, <1>5
  <2>2. CASE tier # NoTier
    <3>1. tier \in 0..3 /\ month # 0
      BY <2>2 DEF SizingInv, TierInv
    <3>2. ceiling = FloorLeverage \/ TierRank(Evidenced(ceiling)) = tier
      BY <3>1, <1>4 DEF SizingInv, CapitalIsEarned, CeilingFitsTheTier, Evidenced
    <3>3. CASE TierRank(q) > tier
      <4>1. ceiling' = Max({ceiling, asked})
        BY <1>6, <2>2, <3>3 DEF NextCeiling
      <4>2. ceiling' \in {ceiling, asked} /\ asked <= ceiling'
        <5>1. ceiling \in Int /\ asked \in Int
          BY <1>3, <1>5
        <5>2. Max({ceiling, asked}) \in {ceiling, asked} /\ asked <= Max({ceiling, asked})
          BY <5>1, MaxOfTwo
        <5> QED
          BY <4>1, <5>2
      <4>3. ceiling # FloorLeverage => ceiling < asked
        <5>1. ASSUME ceiling # FloorLeverage
              PROVE  TierRank(Evidenced(ceiling)) < TierRank(Evidenced(asked))
          BY <5>1, <3>2, <3>3, <1>3
        <5> QED
          BY <5>1, HigherTierAsksMore, <1>3, <1>5
      <4> QED
        BY <4>2, <4>3, <1>3, <1>5
    <3>4. CASE TierRank(q) < tier
      <4>1. ceiling' = Min({ceiling, asked})
        BY <1>6, <2>2, <3>4, <3>1, <1>3 DEF NextCeiling
      <4>2. ceiling' \in {ceiling, asked} /\ ceiling' <= asked
        <5>1. ceiling \in Int /\ asked \in Int
          BY <1>3, <1>5
        <5>2. Min({ceiling, asked}) \in {ceiling, asked} /\ Min({ceiling, asked}) <= asked
          BY <5>1, MaxOfTwo
        <5> QED
          BY <4>1, <5>2
      <4>3. ceiling # FloorLeverage => asked < ceiling
        <5>1. ASSUME ceiling # FloorLeverage
              PROVE  TierRank(Evidenced(asked)) < TierRank(Evidenced(ceiling))
          BY <5>1, <3>2, <3>4, <1>3
        <5> QED
          BY <5>1, HigherTierAsksMore, <1>3, <1>5
      <4> QED
        BY <4>2, <4>3, <1>3, <1>5
    <3>5. CASE TierRank(q) = tier
      <4>1. ceiling' = ceiling
        BY <1>6, <2>2, <3>5, <3>1 DEF NextCeiling
      <4> QED
        BY <4>1, <3>2, <3>5, <1>5
    <3> QED
      BY <3>3, <3>4, <3>5, <3>1, <1>3
  <2> QED
    BY <2>1, <2>2
<1>8. /\ approved' \in Nat
      /\ approved' > 0 => /\ approved' <= ceiling'
                          /\ approved' <= Ratio(context.limits.max_trade_loss, Loss(context))
                          /\ approved' <= Ratio(context.executable, context.base)
  BY <1>1, <1>7, WithinTheCaps
<1>9. approved' > 0 => WithinTheRatios'
  <2> SUFFICES ASSUME approved' > 0 PROVE WithinTheRatios'
    OBVIOUS
  <2>1. /\ Loss(context) \in Int /\ context.base \in Int /\ context.executable \in Int
        /\ context.limits.max_trade_loss \in Int
    BY SizingAssumption DEF Loss
  <2>0. \A n \in Int, d \in Int :
          \A a \in Nat : a > 0 /\ a <= Ratio(n, d) => d > 0 /\ a * d <= 10000 * n
    <3> SUFFICES ASSUME NEW n \in Int, NEW d \in Int, NEW a \in Nat, a > 0, a <= Ratio(n, d)
                 PROVE  d > 0 /\ a * d <= 10000 * n
      OBVIOUS
    <3>1. /\ Ratio(n, d) \in Int
          /\ Ratio(n, d) > 0 => d > 0
          /\ \A x \in Nat : x > 0 /\ x <= Ratio(n, d) => x * d <= 10000 * n
      BY RatioCaps
    <3>2. Ratio(n, d) > 0
      BY <3>1
    <3> QED
      BY <3>1, <3>2
  <2>2. Loss(context) > 0 /\ approved' * Loss(context) <= 10000 * context.limits.max_trade_loss
    BY <2>0, <2>1, <1>8
  <2>3. context.base > 0 /\ approved' * context.base <= 10000 * context.executable
    BY <2>0, <2>1, <1>8
  <2> QED
    BY <1>1, <1>8, <2>2, <2>3 DEF WithinTheRatios
<1>10. TierInv'
  BY <1>1, <1>3, <1>4, <1>6 DEF TierInv
<1>11. CeilingFitsTheTier'
  BY <1>6, <1>7 DEF CeilingFitsTheTier, Evidenced
<1>12. OrderIsFunded'
  BY <1>4 DEF OrderIsFunded, NoOrder
<1>13. AllocationFailsClosed'
  BY <1>4 DEF AllocationFailsClosed, SizingInv, CapitalIsEarned
<1>14. month' \in Nat
  BY <1>4
<1> QED
  BY <1>7, <1>8, <1>9, <1>10, <1>11, <1>12, <1>13, <1>14 DEF SizingInv, CapitalIsEarned

Millionths(amount) == 1000000 * amount

(* What an order costs is covered, in each of the three ways.              *)
LEMMA Funded ==
  ASSUME SizingInv, NEW account \in Accounts, NEW cost \in Nat, NEW deployed \in Nat,
         approved > 0, month > 0,
         10 * Millionths(cost) <= TargetNotional(account) * deployed
  PROVE  /\ TargetNotional(account) <= account.nav * account.allocation * ceiling
         /\ cost * 1000 * snapshot.base
              <= account.nav * account.allocation * snapshot.executable * deployed
         /\ cost * 1000 * Loss(snapshot)
              <= account.nav * account.allocation * snapshot.limits.max_trade_loss * deployed
<1> DEFINE stake == account.nav * account.allocation
<1>1. stake \in Nat /\ approved \in Nat /\ ceiling \in Nat
  BY SizingAssumption DEF SizingInv
<1>2. TargetNotional(account) = stake * approved
  BY DEF TargetNotional
<1>3. /\ approved <= ceiling
      /\ snapshot.base > 0 /\ approved * snapshot.base <= 10000 * snapshot.executable
      /\ Loss(snapshot) > 0 /\ approved * Loss(snapshot) <= 10000 * snapshot.limits.max_trade_loss
      /\ snapshot \in Contexts
  BY DEF SizingInv, WithinTheRatios
<1>4. /\ snapshot.base \in Int /\ snapshot.executable \in Int
      /\ Loss(snapshot) \in Int /\ snapshot.limits.max_trade_loss \in Int
  BY <1>3, SizingAssumption DEF Loss
<1> HIDE DEF stake
<1>5. ASSUME NEW per \in Int, per > 0, NEW budget \in Int, approved * per <= 10000 * budget
      PROVE  cost * 1000 * per <= stake * budget * deployed
  <2> DEFINE most == stake * deployed
             l == cost * 1000 * per
             r == stake * budget * deployed
  <2>0. most \in Nat
    BY <1>1
  <2>1. 10000000 * cost <= most * approved
    <3>1. (stake * approved) * deployed = most * approved
      BY <1>1
    <3> QED
      BY <1>2, <3>1 DEF Millionths
  <2> HIDE DEF most
  <2>2. (10000000 * cost) * per <= (most * approved) * per
    BY <2>0, <2>1, <1>5, <1>1
  <2>3. (most * approved) * per = most * (approved * per)
    BY <2>0, <1>1, <1>5
  <2>4. most * (approved * per) <= most * (10000 * budget)
    <3> DEFINE x == approved * per
               y == 10000 * budget
    <3>1. x \in Int /\ y \in Int /\ x <= y
      BY <1>1, <1>5
    <3> HIDE DEF x, y
    <3>2. most * x <= most * y
      BY <2>0, <3>1
    <3> QED
      BY <3>2 DEF x, y
  <2>5. most * (10000 * budget) = 10000 * r
    <3>1. most * (10000 * budget) = 10000 * (most * budget)
      BY <2>0, <1>5
    <3>2. most * budget = r
      BY <1>1, <1>5 DEF most
    <3> QED
      BY <3>1, <3>2
  <2>6. (10000000 * cost) * per = 10000 * l
    BY <1>5
  <2>7. l \in Int /\ r \in Int
    BY <1>1, <1>5
  <2>8. 10000 * l <= 10000 * r
    <3> DEFINE a == (10000000 * cost) * per
               b == (most * approved) * per
               c == most * (10000 * budget)
    <3>1. a <= b /\ b <= c /\ a \in Int /\ b \in Int /\ c \in Int
      BY <2>0, <2>2, <2>3, <2>4, <1>1, <1>5
    <3> HIDE DEF a, b, c, l, r
    <3>2. a <= c
      BY <3>1
    <3> QED
      BY <3>2, <2>5, <2>6 DEF a, c
  <2> HIDE DEF l, r
  <2>9. l <= r
    BY <2>7, <2>8
  <2> QED
    BY <2>9 DEF l, r
<1>6. stake * approved <= stake * ceiling
  BY <1>1, <1>3
<1> QED
  BY <1>2, <1>3, <1>4, <1>5, <1>6 DEF stake

LEMMA SizedKeeps ==
  ASSUME SizingInv, month > 0, NEW kind, NEW account \in Accounts, NEW pieces \in Nat,
         NEW price \in Nat, NEW deployed \in Nat, Sized(kind, account, pieces, price, deployed),
         10 * Millionths(pieces * price) <= TargetNotional(account) * deployed
  PROVE  SizingInv'
<1>1. UNCHANGED <<month, tier, ceiling, snapshot, approved, allocation>>
  BY DEF Sized
<1>2. /\ order'.permitted => approved > 0
      /\ order'.cost = pieces * price /\ order'.target = TargetNotional(account)
      /\ order'.deployed = deployed
  BY DEF Sized
<1>3. OrderIsFunded'
  <2> SUFFICES ASSUME order'.permitted PROVE OrderIsFunded'
    BY DEF OrderIsFunded
  <2>1. approved > 0 /\ pieces * price \in Nat
    BY <1>2
  <2>2. /\ TargetNotional(account) <= account.nav * account.allocation * ceiling
        /\ (pieces * price) * 1000 * snapshot.base
             <= account.nav * account.allocation * snapshot.executable * deployed
        /\ (pieces * price) * 1000 * Loss(snapshot)
             <= account.nav * account.allocation * snapshot.limits.max_trade_loss * deployed
    BY <2>1, <1>2, Funded
  <2>3. TargetNotional(account)' = TargetNotional(account)
    BY <1>1 DEF TargetNotional
  <2>4. 10000000 * order'.cost <= order'.target * order'.deployed
    BY <1>2 DEF Millionths
  <2>5. /\ order'.target = TargetNotional(account)'
        /\ order'.target <= account.nav * account.allocation * ceiling'
        /\ order'.cost * 1000 * snapshot'.base
             <= account.nav * account.allocation * snapshot'.executable * order'.deployed
        /\ order'.cost * 1000 * Loss(snapshot')
             <= account.nav * account.allocation * snapshot'.limits.max_trade_loss * order'.deployed
    BY <1>1, <1>2, <2>2, <2>3
  <2>6. \E holder \in Accounts :
          /\ order'.target = TargetNotional(holder)'
          /\ order'.target <= holder.nav * holder.allocation * ceiling'
          /\ order'.cost * 1000 * snapshot'.base
               <= holder.nav * holder.allocation * snapshot'.executable * order'.deployed
          /\ order'.kind = "EQUITY" =>
               order'.cost * 1000 * Loss(snapshot')
                 <= holder.nav * holder.allocation * snapshot'.limits.max_trade_loss * order'.deployed
    <3> WITNESS account \in Accounts
    <3> QED BY <2>5
  <2> QED
    BY <2>4, <2>6 DEF OrderIsFunded, Loss
<1>4. CeilingFitsTheTier' /\ AllocationFailsClosed'
  BY <1>1 DEF SizingInv, CapitalIsEarned, CeilingFitsTheTier, AllocationFailsClosed
<1>5. TierInv'
  BY <1>1 DEF SizingInv, TierInv
<1>6. (approved > 0 => WithinTheRatios)'
  BY <1>1 DEF SizingInv, WithinTheRatios
<1> QED
  BY <1>1, <1>3, <1>4, <1>5, <1>6 DEF SizingInv, CapitalIsEarned

LEMMA PiecesCost ==
  ASSUME NEW notional \in Nat, NEW price \in Nat \ {0}
  PROVE  /\ Pieces(notional, price) \in Nat
         /\ Millionths(Pieces(notional, price) * price) <= notional
<1> DEFINE unit == 1000000 * price
           n == notional \div unit
<1>1. unit \in Nat \ {0}
  OBVIOUS
<1>2. n \in Nat /\ n * unit <= notional
  <2> HIDE DEF unit
  <2> QED
    BY <1>1
<1>3. Pieces(notional, price) = n
  BY DEF Pieces
<1> HIDE DEF n
<1>4. Millionths(n * price) = n * unit
  BY <1>2 DEF Millionths
<1> HIDE DEF unit
<1> QED
  BY <1>2, <1>3, <1>4

LEMMA MaxOfThree ==
  ASSUME NEW a \in Int, NEW b \in Int, NEW c \in Int
  PROVE  /\ Max({a, b, c}) \in {a, b, c}
         /\ Max({a, b, c}) >= a /\ Max({a, b, c}) >= b /\ Max({a, b, c}) >= c
<1> DEFINE three == {a, b, c}
<1>1. IsFiniteSet(three)
  <2>1. IsFiniteSet({a, b}) /\ IsFiniteSet({c}) /\ {a, b} \union {c} = three
    BY PairIsFinite, FS_Singleton
  <2>2. IsFiniteSet({a, b} \union {c})
    BY <2>1, FS_Union
  <2> QED
    BY <2>1, <2>2
<1>2. three \in SUBSET Int /\ three # {} /\ a \in three /\ b \in three /\ c \in three
  OBVIOUS
<1>3. Max(three) \in three /\ \A x \in three : x <= Max(three)
  <2> HIDE DEF three
  <2> QED BY <1>1, <1>2, GreatestOfFinite
<1>4. Max(three) \in Int
  BY <1>3
<1> QED
  BY <1>2, <1>3, <1>4

(* A leg costs at most its share of the target.                            *)
LEMMA LegCost ==
  ASSUME NEW part \in Nat, NEW price \in Nat \ {0}, NEW weight \in Int,
         NEW leg, leg = IF weight <= 0 THEN 0 ELSE Pieces(part * weight, price)
  PROVE  /\ leg \in Nat
         /\ Millionths(leg * price) <= part * (IF weight <= 0 THEN 0 ELSE weight)
<1>1. CASE weight <= 0
  BY <1>1 DEF Millionths
<1>2. CASE weight > 0
  <2> DEFINE notional == part * weight
  <2>1. notional \in Nat
    BY <1>2
  <2>2. leg = Pieces(notional, price)
    BY <1>2
  <2> HIDE DEF notional
  <2>3. leg \in Nat /\ Millionths(leg * price) <= notional
    BY <2>1, <2>2, PiecesCost
  <2> QED
    BY <1>2, <2>3 DEF notional
<1> QED
  BY <1>1, <1>2

LEMMA EquityKeeps ==
  ASSUME SizingInv, month > 0, NEW account \in Accounts, NEW price \in Prices,
         NEW split \in Splits, SizeEquity(account, price, split)
  PROVE  SizingInv'
<1> DEFINE target == TargetNotional(account)
           part == target \div 10
           leg(weight) == IF weight <= 0 THEN 0 ELSE Pieces(part * weight, price)
           long == leg(split.long)
           short == leg(split.short)
           bought(weight) == IF weight <= 0 THEN 0 ELSE weight
           deployed == Deployed(split)
<1>1. /\ target \in Nat /\ price \in Nat \ {0}
      /\ split.long \in Int /\ split.short \in Int /\ split.long + split.short = 10
  BY SizingAssumption DEF TargetNotional, SizingInv
<1>2. Sized("EQUITY", account, long + short, price, deployed)
  BY DEF SizeEquity
<1> HIDE DEF target
<1>3. part \in Nat /\ 10 * part <= target
  BY <1>1
<1> HIDE DEF part
<1>4. /\ long \in Nat /\ Millionths(long * price) <= part * bought(split.long)
      /\ short \in Nat /\ Millionths(short * price) <= part * bought(split.short)
  BY <1>1, <1>3, LegCost
<1>5. /\ deployed \in Nat /\ bought(split.long) + bought(split.short) <= deployed
      /\ bought(split.long) \in Nat /\ bought(split.short) \in Nat
  <2>1. /\ Deployed(split) \in {split.long, split.short, 10}
        /\ Deployed(split) >= split.long /\ Deployed(split) >= split.short /\ Deployed(split) >= 10
    <3> DEFINE a == split.long
               b == split.short
    <3>1. a \in Int /\ b \in Int
      BY <1>1
    <3> HIDE DEF a, b
    <3>2. /\ Max({a, b, 10}) \in {a, b, 10}
          /\ Max({a, b, 10}) >= a /\ Max({a, b, 10}) >= b /\ Max({a, b, 10}) >= 10
      BY <3>1, MaxOfThree
    <3> QED
      BY <3>2 DEF Deployed, a, b
  <2> QED
    BY <1>1, <2>1
<1> HIDE DEF long, short, deployed, leg
<1>6. Millionths((long + short) * price) = Millionths(long * price) + Millionths(short * price)
  BY <1>1, <1>4 DEF Millionths
<1>7. 10 * Millionths((long + short) * price) <= target * deployed
  <2> DEFINE l == bought(split.long)
             r == bought(split.short)
             cost == Millionths((long + short) * price)
             a == Millionths(long * price)
             b == Millionths(short * price)
  <2>1. /\ l \in Nat /\ r \in Nat /\ l + r <= deployed
        /\ a \in Int /\ b \in Int /\ a <= part * l /\ b <= part * r /\ cost = a + b
    BY <1>1, <1>4, <1>5, <1>6 DEF Millionths
  <2> HIDE DEF l, r, cost, a, b, bought
  <2>2. part * l + part * r = part * (l + r) /\ part * l \in Int /\ part * r \in Int
    BY <1>3, <2>1
  <2>3. part * (l + r) <= part * deployed
    BY <1>3, <1>5, <2>1
  <2>4. (10 * part) * deployed <= target * deployed
    BY <1>1, <1>3, <1>5
  <2>5. (10 * part) * deployed = 10 * (part * deployed) /\ part * deployed \in Int
    BY <1>3, <1>5
  <2>6. target * deployed \in Int /\ part * (l + r) \in Int
    BY <1>1, <1>3, <1>5, <2>1
  <2> DEFINE x == part * l
             y == part * r
             z == part * (l + r)
             u == part * deployed
             v == target * deployed
  <2>7. /\ a <= x /\ b <= y /\ x + y = z /\ z <= u /\ 10 * u <= v
        /\ x \in Int /\ y \in Int /\ z \in Int /\ u \in Int /\ v \in Int
    BY <2>1, <2>2, <2>3, <2>4, <2>5, <2>6
  <2> HIDE DEF x, y, z, u, v
  <2>8. 10 * cost <= v
    BY <2>1, <2>7
  <2> QED
    BY <2>8 DEF cost, v
<1>8. long + short \in Nat
  BY <1>4
<1> QED
  BY <1>1, <1>2, <1>5, <1>7, <1>8, SizedKeeps DEF target

LEMMA OptionsKeeps ==
  ASSUME SizingInv, month > 0, NEW account \in Accounts, NEW premium \in Prices,
         SizeOptions(account, premium)
  PROVE  SizingInv'
<1> DEFINE target == TargetNotional(account)
           price == 100 * premium
           n == Pieces(target, price)
<1>1. target \in Nat /\ price \in Nat \ {0}
  BY SizingAssumption DEF TargetNotional, SizingInv
<1>2. Sized("OPTIONS", account, n, price, 10)
  BY DEF SizeOptions
<1> HIDE DEF target, price
<1>3. n \in Nat /\ Millionths(n * price) <= target
  BY <1>1, PiecesCost
<1> HIDE DEF n
<1>4. 10 * Millionths(n * price) <= target * 10
  <2>1. Millionths(n * price) \in Int
    BY <1>1, <1>3 DEF Millionths
  <2> QED
    BY <1>1, <1>3, <2>1
<1> QED
  BY <1>1, <1>2, <1>3, <1>4, SizedKeeps DEF target

LEMMA PipelineKeeps ==
  ASSUME SizingInv, NEW signal \in Signals, DisclosurePipeline(signal) PROVE SizingInv'
<1>1. UNCHANGED <<month, tier, ceiling, snapshot, approved, order>>
  BY DEF DisclosurePipeline
<1>2. allocation' = Refused \/ \E solution \in Solutions : allocation' = Allocated(solution)
  BY DEF DisclosurePipeline, Solved
<1>3. AllocationFailsClosed'
  <2>1. CASE allocation' = Refused
    BY <2>1 DEF Refused, AllocationFailsClosed, ZeroWeights
  <2>2. ASSUME NEW solution \in Solutions, allocation' = Allocated(solution)
        PROVE  AllocationFailsClosed'
    <3>1. CASE allocation' = Refused
      BY <3>1, <2>1
    <3>2. CASE /\ allocation' = [permitted |-> solution.weights # ZeroWeights,
                                 weights |-> solution.weights]
               /\ ~Breached(solution.weights)
      BY <3>2 DEF AllocationFailsClosed
    <3> QED
      BY <2>2, <3>1, <3>2 DEF Allocated
  <2> QED
    BY <1>2, <2>1, <2>2
<1>4. CeilingFitsTheTier' /\ OrderIsFunded'
  <2>1. \A account : TargetNotional(account)' = TargetNotional(account)
    BY <1>1 DEF TargetNotional
  <2> QED
    BY <1>1, <2>1 DEF SizingInv, CapitalIsEarned, CeilingFitsTheTier, OrderIsFunded
<1>5. TierInv' /\ (approved > 0 => WithinTheRatios)'
  BY <1>1 DEF SizingInv, TierInv, WithinTheRatios
<1> QED
  BY <1>1, <1>3, <1>4, <1>5 DEF SizingInv, CapitalIsEarned

LEMMA SizingSteps == SizingInv /\ [SizingNext]_sizingVars => SizingInv'
<1> SUFFICES ASSUME SizingInv, [SizingNext]_sizingVars PROVE SizingInv'
  OBVIOUS
<1>1. CASE Month
  BY <1>1, MonthKeeps
<1>2. ASSUME month > 0, NEW account \in Accounts, NEW price \in Prices, NEW split \in Splits,
             SizeEquity(account, price, split)
      PROVE  SizingInv'
  BY <1>2, EquityKeeps
<1>3. ASSUME month > 0, NEW account \in Accounts, NEW price \in Prices,
             SizeOptions(account, price)
      PROVE  SizingInv'
  BY <1>3, OptionsKeeps
<1>4. ASSUME NEW signal \in Signals, DisclosurePipeline(signal) PROVE SizingInv'
  BY <1>4, PipelineKeeps
<1>5. CASE UNCHANGED sizingVars
  BY <1>5 DEF sizingVars, SizingInv, TierInv, WithinTheRatios, CapitalIsEarned, CeilingFitsTheTier,
     Loss, OrderIsFunded, TargetNotional, AllocationFailsClosed
<1> QED
  BY <1>1, <1>2, <1>3, <1>4, <1>5 DEF SizingNext

(* Leverage and weights are earned, for whatever scores, contexts, limits, *)
(* accounts, prices, splits and solutions there are, and over any number   *)
(* of months.                                                              *)
THEOREM EarnedCapital == SizingSpec => []CapitalIsEarned
<1>1. SizingInv => CapitalIsEarned
  BY DEF SizingInv
<1> QED
  BY SizingStarts, SizingSteps, <1>1, PTL DEF SizingSpec
=============================================================================
