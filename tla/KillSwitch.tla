----------------------------- MODULE KillSwitch -----------------------------
(***************************************************************************)
(* EmergencyKillSwitchEngine of risk/kill_switch.py, in its production     *)
(* form: with a state file.  Each method is one action.  The write of the  *)
(* state file at the end of a method goes through a temporary file and a   *)
(* rename, so the file is never torn; but the write may raise, or the      *)
(* process may die just before it: then memory has the new state and the   *)
(* file the old one.                                                       *)
(***************************************************************************)
EXTENDS FiniteSets, Integers

CONSTANTS
  Signors,          \* people who may sign a reset
  Roles,            \* the roles a signature may claim
  AuthorizedRoles,  \* authorized_roles
  Verified,         \* <<signor, role>> pairs authorization_verifier accepts
  Threshold         \* consecutive_rejection_threshold

ASSUME RolesAssumption == AuthorizedRoles \subseteq Roles
ASSUME VerifiedAssumption == Verified \subseteq Signors \X Roles
ASSUME ThresholdAssumption == Threshold \in Nat \ {0}

VARIABLES
  state,       \* self.state
  rejections,  \* self.consecutive_rejections
  sigs,        \* self.reset_signatures: who signed for which role
  disk,        \* the state file
  reliable,    \* whether every write of the state file succeeds: never changes
  streak,      \* history: rejections this process has seen since the last
               \* accepted order or release, counted up to Threshold
  signed,      \* history: <<signor, role>> accepted since the last trip
  tripLost     \* history: the latest trip is not in the file

vars == <<state, rejections, sigs, disk, reliable, streak, signed, tripLost>>

SwitchStates == {"ARMED_NOMINAL", "TRIPPED_AUTO", "ENGAGED_MANUAL", "AWAITING_DUAL_AUTH"}
Nobody == "NOBODY"
ASSUME NobodyAssumption == Nobody \notin Signors

Signatures == [AuthorizedRoles -> Signors \union {Nobody}]
NoSignatures == [r \in AuthorizedRoles |-> Nobody]
SignedRoles(s) == {r \in AuthorizedRoles : s[r] # Nobody}

SavedType == [state : SwitchStates, rejections : Nat, sigs : Signatures]
NoFile == [state |-> "NO_FILE"]
Unreadable == [state |-> "UNREADABLE"]

is_locked(s) == s # "ARMED_NOMINAL"
Locked == is_locked(state)

TypeOK ==
  /\ state \in SwitchStates
  /\ rejections \in Nat
  /\ sigs \in Signatures
  /\ disk \in SavedType \union {NoFile, Unreadable}
  /\ reliable \in BOOLEAN
  /\ streak \in Nat
  /\ signed \subseteq (Signors \X AuthorizedRoles)
  /\ tripLost \in BOOLEAN

Init ==
  /\ state = "ARMED_NOMINAL"
  /\ rejections = 0
  /\ sigs = NoSignatures
  /\ disk = NoFile
  /\ reliable \in BOOLEAN
  /\ streak = 0
  /\ signed = {}
  /\ tripLost = FALSE

-----------------------------------------------------------------------------
\* _persist_state, of what the method leaves in memory.
Saved(st, n, s) == [state |-> st, rejections |-> n, sigs |-> s]

Persists == disk' = Saved(state', rejections', sigs')
PersistFails == ~reliable /\ UNCHANGED disk

\* Mutation: the file is written before the signatures are cleared.
EngageSavedFirst(st, n) ==
  /\ state' = st
  /\ rejections' = n
  /\ sigs' = NoSignatures
  /\ signed' = {}
  /\ \/ disk' = Saved(st, n, sigs) /\ tripLost' = FALSE
     \/ PersistFails /\ tripLost' = TRUE

\* Mutation: a trip keeps the signatures it finds.
EngageKeepsSignatures(st, n) ==
  /\ state' = st
  /\ rejections' = n
  /\ sigs' = sigs
  /\ signed' = {}
  /\ \/ Persists /\ tripLost' = FALSE
     \/ PersistFails /\ tripLost' = TRUE

(* trip: whatever state it finds, and whether or not cancelling the open   *)
(* orders and reconciling the positions works.  The file is written last.  *)
Engage(st, n) ==
  /\ state' = st
  /\ rejections' = n
  /\ sigs' = NoSignatures
  /\ signed' = {}
  /\ \/ Persists /\ tripLost' = FALSE
     \/ PersistFails /\ tripLost' = TRUE

Trip ==
  /\ \E st \in {"TRIPPED_AUTO", "ENGAGED_MANUAL"} : Engage(st, rejections)
  /\ UNCHANGED streak

-----------------------------------------------------------------------------
\* Neither the success nor a rejection below the threshold is written.
RecordOrderSuccess ==
  /\ rejections' = 0
  /\ streak' = 0
  /\ UNCHANGED <<state, sigs, disk, signed, tripLost>>

\* Mutation: off by one.
RejectedOnceTooOften ==
  /\ ~Locked
  /\ streak' = IF streak < Threshold THEN streak + 1 ELSE streak
  /\ IF rejections + 1 > Threshold
     THEN Engage("TRIPPED_AUTO", rejections + 1)
     ELSE /\ rejections' = rejections + 1
          /\ UNCHANGED <<state, sigs, disk, signed, tripLost>>

RecordOrderRejection ==
  /\ ~Locked
  /\ streak' = IF streak < Threshold THEN streak + 1 ELSE streak
  /\ IF rejections + 1 >= Threshold
     THEN Engage("TRIPPED_AUTO", rejections + 1)
     ELSE /\ rejections' = rejections + 1
          /\ UNCHANGED <<state, sigs, disk, signed, tripLost>>

-----------------------------------------------------------------------------
\* _disengage_lock
Disengage ==
  /\ state' = "ARMED_NOMINAL"
  /\ sigs' = NoSignatures
  /\ rejections' = 0
  /\ streak' = 0

AwaitSecond(p, r) ==
  /\ state' = "AWAITING_DUAL_AUTH"
  /\ sigs' = [sigs EXCEPT ![r] = p]
  /\ UNCHANGED <<rejections, streak>>

(* submit_reset_authorization: ignored unless locked, refused unless the   *)
(* verifier accepts signor and role and the role is authorised, ignored    *)
(* again when the role has signed already.                                 *)
SubmitResetAuthorization(p, r) ==
  /\ Locked
  /\ <<p, r>> \in Verified
  /\ r \in AuthorizedRoles
  /\ sigs[r] = Nobody
  /\ IF Cardinality(SignedRoles(sigs) \union {r}) >= 2
     THEN Disengage ELSE AwaitSecond(p, r)
  /\ Persists \/ PersistFails
  /\ signed' = signed \union {<<p, r>>}
  /\ UNCHANGED tripLost

-----------------------------------------------------------------------------
\* Mutation: a file that cannot be read counts as none.
RestartFailsOpen ==
  /\ state' = IF disk \in {NoFile, Unreadable} THEN "ARMED_NOMINAL" ELSE disk.state
  /\ rejections' = IF disk \in {NoFile, Unreadable} THEN 0 ELSE disk.rejections
  /\ sigs' = IF disk \in {NoFile, Unreadable} THEN NoSignatures ELSE disk.sigs
  /\ streak' = 0
  /\ UNCHANGED <<disk, signed, tripLost>>

(* A new process: __init__ and _load_state.  An unreadable file halts; a   *)
(* missing one does not.                                                   *)
Restart ==
  /\ state' = IF disk = NoFile THEN "ARMED_NOMINAL"
              ELSE IF disk = Unreadable THEN "TRIPPED_AUTO" ELSE disk.state
  /\ rejections' = IF disk \in {NoFile, Unreadable} THEN 0 ELSE disk.rejections
  /\ sigs' = IF disk \in {NoFile, Unreadable} THEN NoSignatures ELSE disk.sigs
  /\ signed' = IF disk = Unreadable THEN {} ELSE signed
  /\ streak' = 0
  /\ UNCHANGED <<disk, tripLost>>

\* The file is damaged from outside.
FileDamaged ==
  /\ disk # NoFile
  /\ disk' = Unreadable
  /\ UNCHANGED <<state, rejections, sigs, streak, signed, tripLost>>

Operation ==
  \/ Trip
  \/ RecordOrderSuccess
  \/ RecordOrderRejection
  \/ \E p \in Signors, r \in Roles : SubmitResetAuthorization(p, r)
  \/ Restart
  \/ FileDamaged

Next == Operation /\ UNCHANGED reliable

Spec == Init /\ [][Next]_vars

-----------------------------------------------------------------------------
(* Properties.                                                             *)

(* Unless the write of the latest trip was lost, a halt is in the state    *)
(* file: a restart at any moment comes back halted, with no more           *)
(* signatures than were given since the trip.                              *)
HaltIsOnFile ==
  Locked /\ ~tripLost =>
    /\ disk # NoFile
    /\ disk # Unreadable =>
         /\ is_locked(disk.state)
         /\ \A r \in AuthorizedRoles :
              disk.sigs[r] # Nobody => <<disk.sigs[r], r>> \in signed

(* Trading resumes only after two different authorised roles signed since  *)
(* the latest trip - re-trips, restarts and repeated signatures in between *)
(* included - unless that trip was lost.                                   *)
TwoRolesRelease ==
  [][Locked /\ ~Locked' /\ ~tripLost =>
       \E s, t \in signed' : s[2] # t[2]]_vars

(* "Increments rejection tally and trips the circuit breaker if the        *)
(* threshold is met" (kill_switch.py:150): when one process has seen that  *)
(* many rejections since the last accepted order, trading is halted -      *)
(* whatever tally it started from.  (A restart starts from the tally in    *)
(* the file, which rejections below the threshold do not reach.)           *)
RejectionRunTrips == streak >= Threshold => Locked

-----------------------------------------------------------------------------
(* With a reliable disk the switch is a HaltLatch: restarts cannot be      *)
(* told from doing nothing, and a damaged file shows as one more trip.     *)
(* Without one nothing is claimed: it maps to a latch that stays open.     *)
LatchHalted == reliable /\ Locked
LatchSignatures == IF reliable THEN SignedRoles(sigs) ELSE {}

Latch == INSTANCE HaltLatch WITH
           Roles      <- AuthorizedRoles,
           halted     <- LatchHalted,
           signatures <- LatchSignatures

ImplementsLatch == Latch!Spec
=============================================================================
