---------------------------- MODULE ConsoleProofs ----------------------------
(* Machine-checked proofs about Approvals, for any requests, people, kinds *)
(* and tier policy, any number of presentations, an unbounded clock, and a *)
(* log that may or may not fail; and about Console, for any projects,      *)
(* orders and actions and transcripts of any length.                       *)
EXTENDS Approvals, Console, WellFoundedInduction, TLAPS

-----------------------------------------------------------------------------
(* Operators of the model.                                                 *)

LEMMA RuleForType ==
  ASSUME NEW c \in ContentType
  PROVE  RuleFor(c) \in RuleType
<1>1. c.tier \in Tiers /\ Floor[c.kind] \in Tiers
  BY PolicyAssumption DEF ContentType
<1>2. EffectiveTier(c) \in Tiers
  BY <1>1 DEF EffectiveTier, Larger, Tiers, LOW, HIGH, CRITICAL
<1> QED
  BY <1>2, PolicyAssumption DEF RuleFor

(* How a method may end: where it was going or short of it.                *)
LEMMA EndsOutcome ==
  ASSUME ApprovalsTypeOK, NEW i \in Requests, NEW to \in ActionStates, NEW before \in ActionStates,
         Ends(i, to, before)
  PROVE  /\ status' \in [Requests -> ActionStates] /\ logged' \in [Requests -> ActionStates]
         /\ status'[i] = to /\ logged'[i] \in {to, before}
BY DEF ApprovalsTypeOK, Ends

LEMMA StopsOutcome ==
  ASSUME ApprovalsTypeOK, NEW i \in Requests, NEW to \in ActionStates, Stops(i, to)
  PROVE  /\ status' \in [Requests -> ActionStates] /\ logged' \in [Requests -> ActionStates]
         /\ status'[i] = to
BY DEF ApprovalsTypeOK, Stops

-----------------------------------------------------------------------------
(* Type correctness.                                                       *)

LEMMA InitType == ApprovalsInit => ApprovalsTypeOK
BY ContentsAssumption DEF ApprovalsInit, ApprovalsTypeOK, ActionStates

LEMMA SubmitType ==
  ASSUME ApprovalsTypeOK, NEW i \in Requests, SubmitForApproval(i)
  PROVE  ApprovalsTypeOK'
<1>0. {"VALIDATING", "REJECTED", "AWAITING_APPROVAL"} \subseteq ActionStates
  BY DEF ActionStates
<1>1. CASE SubmissionStops(i)
  BY <1>0, <1>1, StopsOutcome DEF SubmitForApproval, SubmissionStops, ApprovalsTypeOK
<1>2. CASE SubmissionBlocked(i)
  BY <1>0, <1>2, EndsOutcome DEF SubmitForApproval, SubmissionBlocked, ApprovalsTypeOK
<1>3. CASE Presented(i)
  <2>1. content[i] \in ContentType /\ shown[i] \in ActionHashType \union {NotShown}
    BY DEF ApprovalsTypeOK
  <2>2. RuleFor(content[i]).required \in Nat
    BY <2>1, RuleForType DEF RuleType
  <2>3. shown[i].n \in Nat
    BY <2>1 DEF ActionHashType, NotShown
  <2>4. [content |-> content[i], n |-> shown[i].n + 1] \in ActionHashType
    BY <2>1, <2>3 DEF ActionHashType
  <2>5. shown' \in [Requests -> ActionHashType \union {NotShown}]
    BY <1>3, <2>4 DEF Presented, ApprovalsTypeOK
  <2>6. required' \in [Requests -> Nat]
    BY <1>3, <2>2 DEF Presented, ApprovalsTypeOK
  <2>7. status' \in [Requests -> ActionStates] /\ logged' \in [Requests -> ActionStates]
    BY <1>0, <1>3, EndsOutcome DEF Presented
  <2> QED
    BY <2>5, <2>6, <2>7 DEF SubmitForApproval, ApprovalsTypeOK
<1> QED
  BY <1>1, <1>2, <1>3 DEF SubmitForApproval

(* A request is only approved after it was presented: ShownFirst says so   *)
(* of the record, and the approval is well-typed because of it.            *)
ShownFirst(i) ==
  status[i] \in {"AWAITING_APPROVAL", "APPROVED"} => shown[i] # NotShown

LEMMA NewApproval ==
  ASSUME ApprovalsTypeOK, NEW i \in Requests, ShownFirst(i), NEW p \in People,
         status[i] = "AWAITING_APPROVAL"
  PROVE  [hash |-> shown[i], approver |-> p, at |-> now,
          ttl |-> RuleFor(content[i]).ttl] \in ApprovalRecordType
<1>1. shown[i] \in ActionHashType /\ content[i] \in ContentType /\ now \in Nat
  BY DEF ApprovalsTypeOK, ShownFirst
<1>2. RuleFor(content[i]).ttl \in Nat
  BY <1>1, RuleForType DEF RuleType
<1> QED
  BY <1>1, <1>2 DEF ApprovalRecordType

LEMMA ApproveType ==
  ASSUME ApprovalsTypeOK, NEW i \in Requests, ShownFirst(i), NEW p \in People, ApproveAction(i, p)
  PROVE  ApprovalsTypeOK'
<1>0. {"APPROVAL_EXPIRED", "REJECTED", "APPROVED", "AWAITING_APPROVAL"} \subseteq ActionStates
      /\ logged[i] \in ActionStates
  BY DEF ActionStates, ApprovalsTypeOK
<1>1. CASE ApproveStaleHash(i)
  BY <1>0, <1>1, EndsOutcome DEF ApproveAction, ApproveStaleHash, ApprovalsTypeOK
<1>2. CASE ApproveSelf(i, p)
  BY <1>0, <1>2, EndsOutcome DEF ApproveAction, ApproveSelf, ApprovalsTypeOK
<1>3. CASE ApproveRecorded(i, p)
  <2>1. approvals' \in [Requests -> Seq(ApprovalRecordType)]
    BY <1>3, NewApproval DEF ApproveAction, ApproveRecorded, ApprovalsTypeOK
  <2>2. status' \in [Requests -> ActionStates] /\ logged' \in [Requests -> ActionStates]
    BY <1>0, <1>3, EndsOutcome DEF ApproveRecorded
  <2> QED
    BY <2>1, <2>2 DEF ApproveAction, ApprovalsTypeOK
<1> QED
  BY <1>1, <1>2, <1>3 DEF ApproveAction

LEMMA EffectOutcome ==
  ASSUME ApprovalsTypeOK, NEW i \in Requests, ShownFirst(i), status[i] = "APPROVED", Effect(i)
  PROVE  effects' \in [Requests -> Seq(EffectType)]
<1>1. shown[i] \in ActionHashType /\ content[i] \in ContentType
      /\ approvals[i] \in Seq(ApprovalRecordType)
  BY DEF ApprovalsTypeOK, ShownFirst
<1>2. [content |-> content[i], hash |-> shown[i], approvals |-> approvals[i]] \in EffectType
  BY <1>1 DEF EffectType
<1> QED
  BY <1>2 DEF Effect, ApprovalsTypeOK

LEMMA ExecuteType ==
  ASSUME ApprovalsTypeOK, NEW i \in Requests, ShownFirst(i), ExecuteAction(i)
  PROVE  ApprovalsTypeOK'
<1>0. {"REVALIDATING", "EXECUTING", "EXECUTED", "FAILED", "REJECTED",
       "APPROVAL_EXPIRED"} \subseteq ActionStates
  BY DEF ActionStates
<1>1. status' \in [Requests -> ActionStates] /\ logged' \in [Requests -> ActionStates]
  <2>1. CASE ExecutionStops(i)
    BY <1>0, <2>1, StopsOutcome DEF ExecutionStops, ApprovalsTypeOK
  <2>2. CASE ExecutionRefused(i)
    BY <1>0, <2>2, EndsOutcome DEF ExecutionRefused
  <2>3. CASE Executed(i)
    BY <1>0, <2>3, EndsOutcome DEF Executed
  <2> QED
    BY <2>1, <2>2, <2>3 DEF ExecuteAction
<1>2. effects' \in [Requests -> Seq(EffectType)]
  <2>1. UNCHANGED effects \/ Effect(i)
    BY DEF ExecuteAction, ExecutionStops, ExecutionRefused, Executed
  <2> QED
    BY <2>1, EffectOutcome DEF ExecuteAction, ApprovalsTypeOK
<1> QED
  BY <1>1, <1>2 DEF ExecuteAction, ApprovalsTypeOK

-----------------------------------------------------------------------------
(* The inductive invariant, for one request.  An effect is authorised      *)
(* because only an APPROVED record is executed, and an APPROVED record     *)
(* carries as many approvals as the policy asked for what was shown, by    *)
(* different people, one of them of the very presentation; the executor    *)
(* runs once because nothing leads from EXECUTED or FAILED back.           *)

Concluded == {"EXECUTED", "FAILED"}

RequestInv(i) ==
  /\ ShownFirst(i)
  /\ status[i] = "UNKNOWN" => shown[i] = NotShown
  /\ shown[i] # NotShown => required[i] = RuleFor(shown[i].content).required
  /\ \A j, k \in 1 .. Len(approvals[i]) :
       approvals[i][j].approver = approvals[i][k].approver => j = k
  /\ status[i] = "APPROVED" =>
       /\ Len(approvals[i]) >= required[i]
       /\ \E k \in 1 .. Len(approvals[i]) : approvals[i][k].hash = shown[i]
  /\ effects[i] # <<>> =>
       /\ status[i] \in Concluded
       /\ logged[i] \in {"EXECUTING", "EXECUTED", "FAILED"}
  /\ Len(effects[i]) <= 1
  /\ \A k \in 1 .. Len(effects[i]) : EffectAuthorised(effects[i][k])

IInv == ApprovalsTypeOK /\ \A i \in Requests : RequestInv(i)

LEMMA IInvImplies ==
  IInv => AtMostOneEffect /\ EffectsAuthorised /\ EffectsAreOnFile
BY DEF IInv, RequestInv, AtMostOneEffect, EffectsAuthorised, EffectsAreOnFile, Concluded

LEMMA RequestInit ==
  ASSUME ApprovalsInit, NEW i \in Requests
  PROVE  RequestInv(i)
BY DEF ApprovalsInit, RequestInv, ShownFirst

(* A step that leaves all of a request's record but its content alone.     *)
LEMMA RequestFrame ==
  ASSUME NEW j \in Requests, RequestInv(j),
         status'[j] = status[j], shown'[j] = shown[j], required'[j] = required[j],
         approvals'[j] = approvals[j], effects'[j] = effects[j],
         logged'[j] = logged[j]
  PROVE  RequestInv(j)'
BY DEF RequestInv, ShownFirst, EffectAuthorised

(* An operation on one request touches no other request's record.          *)
LEMMA OperationFrame ==
  ASSUME ApprovalsTypeOK, NEW i \in Requests, MethodCall(i), NEW j \in Requests, j # i
  PROVE  /\ status'[j] = status[j] /\ shown'[j] = shown[j]
         /\ required'[j] = required[j] /\ approvals'[j] = approvals[j]
         /\ effects'[j] = effects[j] /\ logged'[j] = logged[j]
<1> USE DEF ApprovalsTypeOK, Ends, Stops
<1>1. CASE Propose(i) \/ Mutate(i) \/ CancelAction(i)
  BY <1>1 DEF Propose, Mutate, CancelAction
<1>2. CASE SubmitForApproval(i)
  BY <1>2 DEF SubmitForApproval, SubmissionStops, SubmissionBlocked, Presented
<1>3. CASE \E p \in People : ApproveAction(i, p)
  BY <1>3 DEF ApproveAction, ApproveStaleHash, ApproveSelf, ApproveRecorded
<1>4. CASE ExecuteAction(i)
  BY <1>4 DEF ExecuteAction, ExecutionStops, ExecutionRefused, Executed, Effect
<1> QED
  BY <1>1, <1>2, <1>3, <1>4 DEF MethodCall

(* Moving a request that had no effect to a state that promises nothing.   *)
LEMMA PlainMove ==
  ASSUME ApprovalsTypeOK, NEW i \in Requests, RequestInv(i), status[i] \notin Concluded,
         UNCHANGED <<shown, required, approvals, effects>>,
         status'[i] \notin {"AWAITING_APPROVAL", "APPROVED", "UNKNOWN"}
  PROVE  RequestInv(i)'
BY DEF RequestInv, ShownFirst

LEMMA SubmitRequest ==
  ASSUME ApprovalsTypeOK, NEW i \in Requests, RequestInv(i), SubmitForApproval(i)
  PROVE  RequestInv(i)'
<1>0. {"VALIDATING", "REJECTED", "AWAITING_APPROVAL"} \subseteq ActionStates
  BY DEF ActionStates
<1>1. status[i] \notin Concluded /\ UNCHANGED <<approvals, effects>>
  BY DEF SubmitForApproval, MayMove, Concluded
<1>2. CASE SubmissionStops(i)
  <2>1. status'[i] = "VALIDATING"
    BY <1>0, <1>2, StopsOutcome DEF SubmissionStops
  <2> QED
    BY <1>1, <1>2, <2>1, PlainMove DEF SubmissionStops
<1>3. CASE SubmissionBlocked(i)
  <2>1. status'[i] = "REJECTED"
    BY <1>0, <1>3, EndsOutcome DEF SubmissionBlocked
  <2> QED
    BY <1>1, <1>3, <2>1, PlainMove DEF SubmissionBlocked
<1>4. CASE Presented(i)
  <2>1. status'[i] = "AWAITING_APPROVAL"
    BY <1>0, <1>4, EndsOutcome DEF Presented
  <2>2. /\ shown'[i] = [content |-> content[i], n |-> shown[i].n + 1]
        /\ required'[i] = RuleFor(content[i]).required
    BY <1>4 DEF Presented, ApprovalsTypeOK
  <2>3. shown[i].n \in Nat
    BY DEF ApprovalsTypeOK, ActionHashType, NotShown
  <2>4. shown'[i] # NotShown
    BY <2>2, <2>3 DEF NotShown
  <2> QED
    BY <1>1, <2>1, <2>2, <2>4 DEF RequestInv, ShownFirst
<1> QED
  BY <1>2, <1>3, <1>4 DEF SubmitForApproval

(* The quorum: what one more approval of what is shown adds.               *)
LEMMA ApproveRequest ==
  ASSUME ApprovalsTypeOK, NEW i \in Requests, RequestInv(i), NEW p \in People, ApproveAction(i, p)
  PROVE  RequestInv(i)'
<1>0. {"APPROVAL_EXPIRED", "REJECTED", "APPROVED", "AWAITING_APPROVAL"} \subseteq ActionStates
      /\ logged[i] \in ActionStates
  BY DEF ActionStates, ApprovalsTypeOK
<1>1. status[i] \notin Concluded /\ UNCHANGED <<shown, required, effects>>
  BY DEF ApproveAction, Concluded
<1>2. CASE ApproveStaleHash(i) \/ ApproveSelf(i, p)
  <2>1. status'[i] \in {"APPROVAL_EXPIRED", "REJECTED"} /\ UNCHANGED approvals
    BY <1>0, <1>2, EndsOutcome DEF ApproveStaleHash, ApproveSelf
  <2> QED
    BY <1>1, <2>1, PlainMove
<1>3. CASE ApproveRecorded(i, p)
  <2> DEFINE a == [hash |-> shown[i], approver |-> p, at |-> now,
                   ttl |-> RuleFor(content[i]).ttl]
             n == Len(approvals[i])
  <2>1. a \in ApprovalRecordType /\ approvals[i] \in Seq(ApprovalRecordType)
    BY NewApproval DEF ApproveAction, RequestInv, ApprovalsTypeOK
  <2>2. approvals'[i] = Append(approvals[i], a)
    BY <1>3 DEF ApproveRecorded, ApprovalsTypeOK
  <2>3. /\ n \in Nat /\ Len(approvals'[i]) = n + 1 /\ approvals'[i][n + 1] = a
        /\ \A k \in 1 .. n : approvals'[i][k] = approvals[i][k]
    BY <2>1, <2>2
  <2>4. status'[i] = IF n + 1 >= required[i] THEN "APPROVED" ELSE "AWAITING_APPROVAL"
    BY <1>0, <1>3, <2>3, EndsOutcome DEF ApproveRecorded
  <2>5. \A k \in 1 .. n : approvals[i][k].approver # p
    BY <1>3 DEF ApproveRecorded, Approvers
  <2>6. \A j, k \in 1 .. Len(approvals'[i]) :
          approvals'[i][j].approver = approvals'[i][k].approver => j = k
    <3>1. SUFFICES ASSUME NEW j \in 1 .. n + 1, NEW k \in 1 .. n + 1,
                          approvals'[i][j].approver = approvals'[i][k].approver
                   PROVE  j = k
      BY <2>3
    <3>2. CASE j \in 1 .. n /\ k \in 1 .. n
      BY <2>3, <3>1, <3>2 DEF RequestInv
    <3>3. CASE j = n + 1 \/ k = n + 1
      BY <2>3, <2>5, <3>1, <3>3
    <3> QED
      BY <2>3, <3>2, <3>3
  <2>7. status'[i] = "APPROVED" => n + 1 >= required[i]
    BY <2>4
  <2>8. \E k \in 1 .. Len(approvals'[i]) : approvals'[i][k].hash = shown[i]
    BY <2>3
  <2>9. effects[i] = <<>> /\ shown[i] # NotShown
    BY <1>1 DEF RequestInv, ShownFirst, ApproveAction
  <2> QED
    BY <1>1, <2>3, <2>4, <2>6, <2>7, <2>8, <2>9 DEF RequestInv, ShownFirst
<1> QED
  BY <1>2, <1>3 DEF ApproveAction

(* An effect is covered by the approvals on the record.                    *)
LEMMA EffectRequest ==
  ASSUME ApprovalsTypeOK, NEW i \in Requests, RequestInv(i), status[i] = "APPROVED",
         StillApproved(i), Effect(i), UNCHANGED <<shown, required, approvals>>,
         status'[i] \in Concluded, logged'[i] \in {"EXECUTING", "EXECUTED", "FAILED"}
  PROVE  RequestInv(i)'
<1> DEFINE e == [content |-> content[i], hash |-> shown[i], approvals |-> approvals[i]]
<1>1. effects[i] = <<>>
  BY DEF RequestInv, Concluded
<1>2. effects'[i] = <<e>>
  BY <1>1 DEF Effect, ApprovalsTypeOK
<1>3. effects'[i] # <<>> /\ Len(effects'[i]) = 1 /\ effects'[i][1] = e
  BY <1>2
<1>4. EffectAuthorised(e)
  BY DEF EffectAuthorised, RequestInv, StillApproved, ShownFirst
<1>5. \A k \in 1 .. Len(effects'[i]) : EffectAuthorised(effects'[i][k])
  BY <1>3, <1>4
<1> QED
  BY <1>3, <1>5 DEF RequestInv, ShownFirst, Concluded, EffectAuthorised

LEMMA ExecuteRequest ==
  ASSUME ApprovalsTypeOK, NEW i \in Requests, RequestInv(i), ExecuteAction(i)
  PROVE  RequestInv(i)'
<1>0. {"REVALIDATING", "EXECUTING", "EXECUTED", "FAILED", "REJECTED",
       "APPROVAL_EXPIRED"} \subseteq ActionStates
  BY DEF ActionStates
<1>1. status[i] = "APPROVED" /\ UNCHANGED <<shown, required, approvals>>
  BY DEF ExecuteAction
<1>2. CASE ExecutionStops(i)
  <2>1. status'[i] \in {"REVALIDATING", "EXECUTING"}
    BY <1>0, <1>2, StopsOutcome DEF ExecutionStops, ApprovalsTypeOK
  <2> QED
    BY <1>1, <1>2, <2>1, PlainMove DEF ExecutionStops, Concluded
<1>3. CASE ExecutionRefused(i)
  <2>1. status'[i] \in {"APPROVAL_EXPIRED", "REJECTED"}
    BY <1>0, <1>3, EndsOutcome DEF ExecutionRefused
  <2> QED
    BY <1>1, <1>3, <2>1, PlainMove DEF ExecutionRefused, Concluded
<1>4. CASE Executed(i)
  <2>1. /\ status'[i] \in Concluded
        /\ logged'[i] \in {"EXECUTING", "EXECUTED", "FAILED"}
    BY <1>0, <1>4, EndsOutcome DEF Executed, Concluded
  <2>2. CASE Effect(i)
    BY <1>1, <1>4, <2>1, <2>2, EffectRequest DEF Executed
  <2>3. CASE UNCHANGED effects
    BY <1>1, <2>1, <2>3, PlainMove DEF Concluded
  <2> QED
    BY <1>4, <2>2, <2>3 DEF Executed
<1> QED
  BY <1>2, <1>3, <1>4 DEF ExecuteAction

LEMMA ProposeRequest ==
  ASSUME ApprovalsTypeOK, NEW i \in Requests, RequestInv(i), Propose(i)
  PROVE  RequestInv(i)' /\ ApprovalsTypeOK'
<1>1. "DRAFT" \in ActionStates /\ logged[i] \in ActionStates /\ content[i] \in ContentType
  BY DEF ActionStates, ApprovalsTypeOK
<1>2. /\ status' \in [Requests -> ActionStates] /\ logged' \in [Requests -> ActionStates]
      /\ status'[i] = "DRAFT"
  BY <1>1, EndsOutcome DEF Propose
<1>3. RuleFor(content[i]).required \in Nat
  BY <1>1, RuleForType DEF RuleType
<1>4. required' \in [Requests -> Nat]
  BY <1>3 DEF Propose, ApprovalsTypeOK
<1> QED
  BY <1>2, <1>4 DEF Propose, ApprovalsTypeOK, RequestInv, ShownFirst, Concluded

LEMMA CancelRequest ==
  ASSUME ApprovalsTypeOK, NEW i \in Requests, RequestInv(i), CancelAction(i)
  PROVE  RequestInv(i)' /\ ApprovalsTypeOK'
<1>1. "CANCELLED" \in ActionStates /\ logged[i] \in ActionStates
  BY DEF ActionStates, ApprovalsTypeOK
<1>2. /\ status' \in [Requests -> ActionStates] /\ logged' \in [Requests -> ActionStates]
      /\ status'[i] = "CANCELLED"
  BY <1>1, EndsOutcome DEF CancelAction
<1>3. status[i] \notin Concluded
  BY DEF CancelAction, MayMove, Concluded
<1> QED
  BY <1>2, <1>3, PlainMove DEF CancelAction, ApprovalsTypeOK

LEMMA OperationStep ==
  ASSUME ApprovalsTypeOK, NEW i \in Requests, RequestInv(i), MethodCall(i)
  PROVE  RequestInv(i)' /\ ApprovalsTypeOK'
<1>0. ShownFirst(i)
  BY DEF RequestInv
<1>1. CASE Propose(i)
  BY <1>1, ProposeRequest
<1>2. CASE Mutate(i)
  BY <1>2, RequestFrame, ContentsAssumption DEF Mutate, ApprovalsTypeOK
<1>3. CASE SubmitForApproval(i)
  BY <1>3, SubmitType, SubmitRequest
<1>4. CASE \E p \in People : ApproveAction(i, p)
  BY <1>0, <1>4, ApproveType, ApproveRequest
<1>5. CASE ExecuteAction(i)
  BY <1>0, <1>5, ExecuteType, ExecuteRequest
<1>6. CASE CancelAction(i)
  BY <1>6, CancelRequest
<1> QED
  BY <1>1, <1>2, <1>3, <1>4, <1>5, <1>6 DEF MethodCall

LEMMA IInvStep == IInv /\ [ApprovalsNext]_approvalVars => IInv'
<1> SUFFICES ASSUME IInv, [ApprovalsNext]_approvalVars PROVE IInv'
  OBVIOUS
<1> USE DEF IInv
<1>1. ASSUME NEW i \in Requests, MethodCall(i) PROVE IInv'
  <2>1. RequestInv(i)' /\ ApprovalsTypeOK'
    BY <1>1, OperationStep
  <2>2. ASSUME NEW j \in Requests, j # i PROVE RequestInv(j)'
    BY <1>1, <2>2, OperationFrame, RequestFrame
  <2> QED
    BY <2>1, <2>2
<1>2. CASE DayPasses \/ UNCHANGED approvalVars
  <2>1. ApprovalsTypeOK'
    BY <1>2 DEF DayPasses, approvalVars, ApprovalsTypeOK
  <2>2. ASSUME NEW j \in Requests PROVE RequestInv(j)'
    BY <1>2, <2>2, RequestFrame DEF DayPasses, approvalVars
  <2> QED
    BY <2>1, <2>2
<1> QED
  BY <1>1, <1>2 DEF ApprovalsNext

LEMMA IInvAlways == ApprovalsSpec => []IInv
<1>1. ApprovalsInit => IInv
  BY InitType, RequestInit DEF IInv
<1> QED
  BY <1>1, IInvStep, PTL DEF ApprovalsSpec

(* Every reachable state of every instance is well-typed.                  *)
THEOREM TypeCorrect == ApprovalsSpec => []ApprovalsTypeOK
<1>1. IInv => ApprovalsTypeOK
  BY DEF IInv
<1> QED
  BY <1>1, IInvAlways, PTL

(* The executor of a request runs at most once.                            *)
THEOREM EffectAtMostOnce == ApprovalsSpec => []AtMostOneEffect
BY IInvAlways, IInvImplies, PTL

(* Whatever is mutated, resubmitted or approved in pieces, an effect is    *)
(* one of presented content, on as many approvals of different people as   *)
(* the policy - any policy - asks for that content.                        *)
THEOREM EffectsNeedAQuorum == ApprovalsSpec => []EffectsAuthorised
BY IInvAlways, IInvImplies, PTL

(* An effect is announced in the log before it happens, even when the log  *)
(* may fail at every append.                                               *)
THEOREM EffectsAreAnnounced == ApprovalsSpec => []EffectsAreOnFile
BY IInvAlways, IInvImplies, PTL

-----------------------------------------------------------------------------
(* Sets of places.                                                         *)

LEMMA LeastPlace ==
  ASSUME NEW places \in SUBSET Nat, places # {}
  PROVE  \E k \in places : \A j \in places : k <= j
<1> DEFINE below == {pair \in Nat \X Nat : pair[1] < pair[2]}
<1>1. IsWellFoundedOn(below, Nat)
  BY NatLessThanWellFounded DEF OpToRel
<1>2. PICK k \in places : \A j \in places : <<j, k>> \notin below
  <2> HIDE DEF below
  <2> QED BY <1>1, WFMin
<1>3. \A j \in places : ~ (j < k)
  BY <1>2
<1> QED
  BY <1>3

LEMMA MinIsThere ==
  ASSUME NEW places \in SUBSET Nat, places # {}
  PROVE  Min(places) \in places
BY LeastPlace DEF Min

LEMMA GreatestPlace ==
  ASSUME NEW n \in Nat, NEW places \in SUBSET (1 .. n), places # {}
  PROVE  Max(places) \in places
<1> DEFINE mirrored == {n - k : k \in places}
<1>1. mirrored \in SUBSET Nat /\ mirrored # {}
  <2>1. \A k \in places : n - k \in Nat
    OBVIOUS
  <2> QED
    BY <2>1
<1>2. PICK m \in mirrored : \A j \in mirrored : m <= j
  BY <1>1, LeastPlace
<1>3. PICK k \in places : m = n - k
  BY <1>2
<1>4. \A j \in places : k >= j
  <2> TAKE j \in places
  <2>1. n - k <= n - j
    BY <1>2, <1>3
  <2> QED
    BY <2>1
<1> QED
  BY <1>4 DEF Max

-----------------------------------------------------------------------------
(* Types.                                                                  *)

AskedValues == {"HAWKISH", "VOLATILITY", "UNSPECIFIED"}
StanceValues == AskedValues \union {NoStance}
PanelType == [of : Orders \union Actions, hash : Nat, button : BOOLEAN]
ViewType ==
  [kind : ViewKinds, panels : SUBSET PanelType, asked : AskedValues \union {AsHeld},
   value : StanceValues, widget : {Untouched, "HAWKISH", "VOLATILITY"}, live : BOOLEAN]
OrderStates == {"NONE", "AWAITING_APPROVAL", "REJECTED", "KILL_SWITCHED", "SUBMITTED",
                "APPROVAL_EXPIRED", "CANCELLED", "CANCEL_REQUESTED"}

ConsoleTypeOK ==
  /\ project \in Projects
  /\ transcripts \in [Projects -> Seq(ViewType)]
  /\ book \in [Orders -> [state : OrderStates, hash : Nat]]
  /\ stances \in [Projects -> StanceValues]
  /\ page \in {"RUNNING", "DRAWN", "REFUSED", "RAISED"}
  /\ reruns \in 0 .. 2

LEMMA ViewOfType ==
  ASSUME NEW kind \in ViewKinds, NEW panels \in SUBSET PanelType,
         NEW asked \in AskedValues \union {AsHeld}, NEW value \in StanceValues
  PROVE  View(kind, panels, asked, value) \in ViewType
BY DEF View, ViewType, Untouched

(* The value a refresh leaves in a view.                                   *)
LEMMA HeldAfterType ==
  ASSUME ConsoleTypeOK, NEW i \in DOMAIN Entry, NEW value \in StanceValues
  PROVE  /\ HeldAfter(i, value) \in StanceValues
         /\ value \in AskedValues => HeldAfter(i, value) \in AskedValues
<1> DEFINE asking == {j \in 1 .. i : Entry[j].live /\ Entry[j].asked # AsHeld}
<1>1. Entry \in Seq(ViewType) /\ i \in 1 .. Len(Entry)
  BY DEF ConsoleTypeOK, Entry
<1>2. CASE asking = {}
  BY <1>2 DEF HeldAfter
<1>3. CASE asking # {}
  <2>1. i \in Nat /\ asking \in SUBSET (1 .. i)
    BY <1>1
  <2>2. Max(asking) \in asking
    <3> HIDE DEF asking
    <3> QED
      BY <1>3, <2>1, GreatestPlace
  <2>3. Max(asking) \in 1 .. Len(Entry) /\ Entry[Max(asking)].asked # AsHeld
    BY <1>1, <2>2
  <2>4. Entry[Max(asking)] \in ViewType
    BY <1>1, <2>3
  <2>5. HeldAfter(i, value) = Entry[Max(asking)].asked
    BY <1>3 DEF HeldAfter
  <2> QED
    BY <2>3, <2>4, <2>5 DEF ViewType, StanceValues
<1> QED
  BY <1>2, <1>3

LEMMA ConsoleTypeInit == ConsoleInit => ConsoleTypeOK
<1> SUFFICES ASSUME ConsoleInit PROVE ConsoleTypeOK
  OBVIOUS
<1>1. book \in [Orders -> [state : OrderStates, hash : Nat]]
  BY DEF ConsoleInit, SeedOrders, OrderStates
<1>2. transcripts \in [Projects -> Seq(ViewType)]
  BY DEF ConsoleInit, NoEntries
<1>3. stances \in [Projects -> StanceValues]
  BY DEF ConsoleInit, NoStances, StanceValues
<1> QED
  BY <1>1, <1>2, <1>3, SeededAssumption DEF ConsoleInit, ConsoleTypeOK

(* A turn adds its view at the end of the open project's transcript.       *)
LEMMA AppendsType ==
  ASSUME ConsoleTypeOK, NEW v \in ViewType, Appends(v)
  PROVE  /\ transcripts' = [transcripts EXCEPT ![project] = Append(Entry, v)]
         /\ transcripts' \in [Projects -> Seq(ViewType)]
         /\ project' \in Projects /\ page' = "RUNNING" /\ reruns' = 0
<1>1. transcripts' = [transcripts EXCEPT ![project] = Append(Entry, v)]
  BY DEF Appends, Entry
<1>2. Append(Entry, v) \in Seq(ViewType)
  BY DEF ConsoleTypeOK, Entry
<1> QED
  BY <1>1, <1>2 DEF Appends, Interacts, ConsoleTypeOK

(* What each turn appends, and what it does to the orders.                 *)
LEMMA PlainTurnAppends ==
  ASSUME ConsoleTypeOK, NEW kind \in ViewKinds, PlainTurn(kind)
  PROVE  \E v \in ViewType : v.panels = {} /\ Appends(v) /\ UNCHANGED <<book, stances>>
<1>1. View(kind, {}, AsHeld, NoStance) \in ViewType
  BY ViewOfType DEF StanceValues
<1> QED
  BY <1>1 DEF PlainTurn, View

LEMMA CatalystTurnAppends ==
  ASSUME ConsoleTypeOK, NEW asked \in AskedValues, CatalystTurn(asked) \/ PlanTurn
  PROVE  \E v \in ViewType : /\ v.panels = {} /\ Appends(v) /\ UNCHANGED book
                             /\ stances' \in [Projects -> StanceValues]
<1>1. CASE CatalystTurn(asked)
  <2>1. View("catalyst", {}, asked, asked) \in ViewType
    BY ViewOfType DEF ViewKinds, StanceValues
  <2> QED
    BY <1>1, <2>1 DEF CatalystTurn, View, ConsoleTypeOK, StanceValues
<1>2. CASE PlanTurn
  <2>1. stances[project] \in StanceValues
    BY DEF ConsoleTypeOK
  <2>2. View("catalyst", {}, AsHeld, stances[project]) \in ViewType
    BY <2>1, ViewOfType DEF ViewKinds
  <2> QED
    BY <1>2, <2>2 DEF PlanTurn, View, ConsoleTypeOK
<1> QED
  BY <1>1, <1>2

(* A panel shows an order as it is on record, or as it was before it was   *)
(* executed.                                                               *)
Previewed(o, hash) ==
  /\ book[o].state # "NONE"
  /\ hash <= book[o].hash
  /\ hash < book[o].hash => book[o].state \notin {"AWAITING_APPROVAL", "KILL_SWITCHED"}

PanelHolds(panel) == panel.of \in Actions \/ Previewed(panel.of, panel.hash)

LEMMA TradeTurnAppends ==
  ASSUME ConsoleTypeOK, NEW o \in Orders,
         NEW s \in {"AWAITING_APPROVAL", "REJECTED", "KILL_SWITCHED"}, TradeTurn(o, s)
  PROVE  /\ book[o].state = "NONE"
         /\ \E made \in [state : OrderStates, hash : Nat] :
              made.state # "NONE" /\ book' = [book EXCEPT ![o] = made]
         /\ \E v \in ViewType : /\ Appends(v) /\ UNCHANGED stances
                                /\ \A panel \in v.panels : PanelHolds(panel)'
<1> DEFINE made == [state |-> s, hash |-> IF s = "KILL_SWITCHED" THEN 0 ELSE 1]
           kind == IF made.hash = 0 THEN "no_trade" ELSE "trade"
           panel == [of |-> o, hash |-> made.hash, button |-> s = "AWAITING_APPROVAL"]
           panels == IF made.hash = 0 THEN {} ELSE {panel}
<1>1. made \in [state : OrderStates, hash : Nat] /\ made.state # "NONE"
  BY DEF OrderStates
<1>2. (s = "AWAITING_APPROVAL") \in BOOLEAN
  OBVIOUS
<1>3. panel \in PanelType
  BY <1>1, <1>2 DEF PanelType
<1>4. kind \in ViewKinds /\ panels \in SUBSET PanelType
  BY <1>3 DEF ViewKinds
<1>5. View(kind, panels, AsHeld, NoStance) \in ViewType
  <2> HIDE DEF kind, panels
  <2> QED
    BY <1>4, ViewOfType DEF StanceValues
<1>6. /\ book[o].state = "NONE" /\ book' = [book EXCEPT ![o] = made]
      /\ Appends(View(kind, panels, AsHeld, NoStance)) /\ UNCHANGED stances
  BY DEF TradeTurn
<1>7. book'[o] = made
  BY <1>6 DEF ConsoleTypeOK
<1>8. PanelHolds(panel)'
  BY <1>1, <1>7 DEF PanelHolds, Previewed
<1>9. View(kind, panels, AsHeld, NoStance).panels = panels
  BY DEF View
<1>10. \A x \in panels : PanelHolds(x)'
  BY <1>8
<1> QED
  BY <1>1, <1>5, <1>6, <1>9, <1>10

LEMMA InboxTurnAppends ==
  ASSUME ConsoleTypeOK, InboxTurn
  PROVE  \E v \in ViewType : /\ Appends(v) /\ UNCHANGED <<book, stances>>
                             /\ \A panel \in v.panels : PanelHolds(panel)'
<1> DEFINE trades == {[of |-> o, hash |-> book[o].hash, button |-> FALSE] : o \in PendingOrders}
           requests == {[of |-> r, hash |-> 1, button |-> FALSE] : r \in PendingActions}
           panels == trades \union requests
<1>1. panels \in SUBSET PanelType
  <2>1. \A o \in PendingOrders : o \in Orders /\ book[o].hash \in Nat
    BY DEF PendingOrders, ConsoleTypeOK
  <2>2. PendingActions \subseteq Actions
    BY DEF PendingActions
  <2>3. \A o \in PendingOrders :
          [of |-> o, hash |-> book[o].hash, button |-> FALSE] \in PanelType
    BY <2>1 DEF PanelType
  <2>4. \A r \in PendingActions : [of |-> r, hash |-> 1, button |-> FALSE] \in PanelType
    BY <2>2 DEF PanelType
  <2>5. trades \subseteq PanelType /\ requests \subseteq PanelType
    BY <2>3, <2>4
  <2> HIDE DEF trades, requests
  <2> QED
    BY <2>5
<1>2. View("inbox", panels, AsHeld, NoStance) \in ViewType
  <2> HIDE DEF panels
  <2> QED
    BY <1>1, ViewOfType DEF StanceValues, ViewKinds
<1>3. Appends(View("inbox", panels, AsHeld, NoStance)) /\ UNCHANGED <<book, stances>>
  BY DEF InboxTurn
<1>4. \A panel \in panels : PanelHolds(panel)'
  <2>1. \A panel \in trades : PanelHolds(panel)'
    BY <1>3 DEF PanelHolds, Previewed, PendingOrders, ConsoleTypeOK
  <2>2. \A panel \in requests : PanelHolds(panel)'
    BY DEF PanelHolds, PendingActions
  <2> QED
    BY <2>1, <2>2
<1>5. View("inbox", panels, AsHeld, NoStance).panels = panels
  BY DEF View
<1> QED
  BY <1>2, <1>3, <1>4, <1>5

(* A decision leaves the transcripts alone.                                *)
LEMMA DecisionMoves ==
  ASSUME ConsoleTypeOK,
         (\E o \in Orders : ApproveOrder(o) \/ RejectOrder(o)) \/ \E r \in Actions : DecideAction(r)
  PROVE  /\ UNCHANGED <<project, transcripts, stances>>
         /\ page' \in {"RUNNING", "RAISED"} /\ reruns' = 0
         /\ book' \in [Orders -> [state : OrderStates, hash : Nat]]
         /\ \A o \in Orders, h \in Nat : Previewed(o, h) => Previewed(o, h)'
<1>1. ASSUME NEW o \in Orders, ApproveOrder(o)
      PROVE  /\ UNCHANGED <<project, transcripts, stances>>
             /\ page' \in {"RUNNING", "RAISED"} /\ reruns' = 0
             /\ book' = book \/ /\ o \in PendingOrders
                                /\ \E to \in Resolved(o) : book' = [book EXCEPT ![o] = to]
  BY <1>1 DEF ApproveOrder, Interacts
<1>2. ASSUME NEW o \in Orders, o \in PendingOrders, NEW to \in Resolved(o),
             book' = [book EXCEPT ![o] = to]
      PROVE  /\ book' \in [Orders -> [state : OrderStates, hash : Nat]]
             /\ \A p \in Orders, h \in Nat : Previewed(p, h) => Previewed(p, h)'
  <2>1. book[o] \in [state : OrderStates, hash : Nat] /\ book[o].state = "AWAITING_APPROVAL"
    BY <1>2 DEF PendingOrders, ConsoleTypeOK
  <2>2. \/ /\ to.state \in {"SUBMITTED", "REJECTED", "APPROVAL_EXPIRED"}
           /\ to.hash = book[o].hash + 1
        \/ to.state = "KILL_SWITCHED" /\ to.hash = book[o].hash
    BY DEF Resolved
  <2>3. to \in [state : OrderStates, hash : Nat]
    BY <2>1 DEF Resolved, OrderStates
  <2>4. book' \in [Orders -> [state : OrderStates, hash : Nat]] /\ book'[o] = to
    BY <1>2, <2>3 DEF ConsoleTypeOK
  <2>5. ASSUME NEW p \in Orders, NEW h \in Nat, Previewed(p, h) PROVE Previewed(p, h)'
    <3>1. CASE p # o
      BY <1>2, <2>5, <3>1 DEF Previewed, ConsoleTypeOK
    <3>2. CASE p = o
      <4>1. h = book[o].hash
        BY <2>1, <2>5, <3>2 DEF Previewed
      <4> QED
        BY <2>1, <2>2, <2>4, <3>2, <4>1 DEF Previewed
    <3> QED
      BY <3>1, <3>2
  <2> QED
    BY <2>4, <2>5
<1>3. ASSUME NEW o \in Orders, RejectOrder(o)
      PROVE  /\ UNCHANGED <<project, transcripts, stances>>
             /\ page' \in {"RUNNING", "RAISED"} /\ reruns' = 0
             /\ book' \in [Orders -> [state : OrderStates, hash : Nat]]
             /\ \A p \in Orders, h \in Nat : Previewed(p, h) => Previewed(p, h)'
  <2>1. book' = [book EXCEPT ![o].state = Cancelled(@)]
    BY <1>3 DEF RejectOrder
  <2>2. book[o] \in [state : OrderStates, hash : Nat]
    BY DEF ConsoleTypeOK
  <2>3. /\ Cancelled(book[o].state) \in OrderStates
        /\ Cancelled(book[o].state) # book[o].state
             => Cancelled(book[o].state) \in {"CANCELLED", "CANCEL_REQUESTED"}
    BY <2>2 DEF Cancelled, OrderStates
  <2>4. book' \in [Orders -> [state : OrderStates, hash : Nat]]
    BY <2>1, <2>2, <2>3 DEF ConsoleTypeOK
  <2>5. /\ book'[o].state = Cancelled(book[o].state) /\ book'[o].hash = book[o].hash
        /\ \A p \in Orders \ {o} : book'[p] = book[p]
    BY <2>1, <2>2 DEF ConsoleTypeOK
  <2>6. \A p \in Orders, h \in Nat : Previewed(p, h) => Previewed(p, h)'
    BY <2>3, <2>5 DEF Previewed
  <2> QED
    BY <1>3, <2>4, <2>6 DEF RejectOrder, Interacts
<1>4. ASSUME NEW r \in Actions, DecideAction(r)
      PROVE  /\ UNCHANGED <<project, transcripts, stances, book>>
             /\ page' \in {"RUNNING", "RAISED"} /\ reruns' = 0
  BY <1>4 DEF DecideAction, Interacts
<1>5. UNCHANGED book => /\ book' \in [Orders -> [state : OrderStates, hash : Nat]]
                        /\ \A o \in Orders, h \in Nat : Previewed(o, h) => Previewed(o, h)'
  BY DEF Previewed, ConsoleTypeOK
<1> QED
  BY <1>1, <1>2, <1>3, <1>4, <1>5

(* Entering a value, opening a project and a refresh replace views: no     *)
(* view gets a panel it did not have.                                      *)
LEMMA EntersType ==
  ASSUME ConsoleTypeOK, NEW q \in Projects, NEW f,
         \A i \in DOMAIN transcripts[q] : f[i] \in ViewType /\ f[i].panels \subseteq transcripts[q][i].panels,
         transcripts' = [transcripts EXCEPT ![q] = [i \in DOMAIN @ |-> f[i]]]
  PROVE  /\ transcripts' \in [Projects -> Seq(ViewType)]
         /\ \A p \in Projects : /\ DOMAIN transcripts'[p] = DOMAIN transcripts[p]
                                /\ \A i \in DOMAIN transcripts[p] :
                                     transcripts'[p][i].panels \subseteq transcripts[p][i].panels
<1> DEFINE new == [i \in DOMAIN transcripts[q] |-> f[i]]
<1>1. transcripts[q] \in Seq(ViewType)
  BY DEF ConsoleTypeOK
<1>2. DOMAIN transcripts[q] = 1 .. Len(transcripts[q]) /\ Len(transcripts[q]) \in Nat
  BY <1>1
<1>3. new \in [1 .. Len(transcripts[q]) -> ViewType]
  BY <1>2
<1>4. new \in Seq(ViewType)
  BY <1>2, <1>3
<1>5. transcripts' = [transcripts EXCEPT ![q] = new]
  OBVIOUS
<1>6. DOMAIN new = DOMAIN transcripts[q] /\ \A i \in DOMAIN new : new[i].panels \subseteq transcripts[q][i].panels
  OBVIOUS
<1> HIDE DEF new
<1> QED
  BY <1>4, <1>5, <1>6 DEF ConsoleTypeOK

LEMMA WidgetType ==
  ASSUME NEW v \in ViewType
  PROVE  Widget(v) \in {"HAWKISH", "VOLATILITY"}
BY DEF Widget, Contains, Options, ViewType

LEMMA EnterMoves ==
  ASSUME ConsoleTypeOK, NEW i \in DOMAIN Entry, NEW option \in {"HAWKISH", "VOLATILITY"},
         Enter(i, option)
  PROVE  /\ transcripts' \in [Projects -> Seq(ViewType)]
         /\ \A p \in Projects : /\ DOMAIN transcripts'[p] = DOMAIN transcripts[p]
                                /\ \A j \in DOMAIN transcripts[p] :
                                     transcripts'[p][j].panels \subseteq transcripts[p][j].panels
<1> DEFINE f == [j \in DOMAIN Entry |->
                   IF j = i THEN [Entry[j] EXCEPT !.widget = option] ELSE Entry[j]]
<1>1. project \in Projects /\ Entry = transcripts[project] /\ Entry \in Seq(ViewType)
  BY DEF ConsoleTypeOK, Entry
<1>2. \A j \in DOMAIN Entry : Entry[j] \in ViewType
  BY <1>1
<1>3. \A j \in DOMAIN Entry : f[j] \in ViewType /\ f[j].panels \subseteq Entry[j].panels
  BY <1>2 DEF ViewType
<1>4. [Entry EXCEPT ![i].widget = option] = [j \in DOMAIN Entry |-> f[j]]
  BY <1>1, <1>2
<1>5. transcripts' = [transcripts EXCEPT ![project] = [j \in DOMAIN @ |-> f[j]]]
  BY <1>1, <1>4 DEF Enter
<1> HIDE DEF f
<1> QED
  BY <1>1, <1>3, <1>5, EntersType

LEMMA OpenMoves ==
  ASSUME ConsoleTypeOK, NEW q \in Projects, Open(q)
  PROVE  /\ transcripts' \in [Projects -> Seq(ViewType)]
         /\ \A p \in Projects : /\ DOMAIN transcripts'[p] = DOMAIN transcripts[p]
                                /\ \A j \in DOMAIN transcripts[p] :
                                     transcripts'[p][j].panels \subseteq transcripts[p][j].panels
<1> DEFINE f == [j \in DOMAIN transcripts[q] |-> [transcripts[q][j] EXCEPT !.live = FALSE]]
<1>1. transcripts[q] \in Seq(ViewType)
  BY DEF ConsoleTypeOK
<1>2. \A j \in DOMAIN transcripts[q] : transcripts[q][j] \in ViewType
  BY <1>1
<1>3. \A j \in DOMAIN transcripts[q] :
        f[j] \in ViewType /\ f[j].panels \subseteq transcripts[q][j].panels
  BY <1>2 DEF ViewType
<1>4. transcripts' = [transcripts EXCEPT ![q] = [j \in DOMAIN @ |-> f[j]]]
  BY DEF Open, ConsoleTypeOK
<1> HIDE DEF f
<1> QED
  BY <1>3, <1>4, EntersType

(* A refresh makes the live views again.                                   *)
LEMMA RecordedMoves ==
  ASSUME ConsoleTypeOK, NEW i \in DOMAIN Entry, Recorded(i)
  PROVE  /\ transcripts' \in [Projects -> Seq(ViewType)]
         /\ transcripts' = [transcripts EXCEPT ![project] =
                              [j \in DOMAIN Entry |-> Regenerated(j, Widget(Entry[i]))]]
         /\ \A p \in Projects : /\ DOMAIN transcripts'[p] = DOMAIN transcripts[p]
                                /\ \A j \in DOMAIN transcripts[p] :
                                     transcripts'[p][j].panels \subseteq transcripts[p][j].panels
         /\ stances' \in [Projects -> StanceValues]
<1> DEFINE value == Widget(Entry[i])
           f == [j \in DOMAIN Entry |-> Regenerated(j, value)]
<1>1. project \in Projects /\ Entry = transcripts[project] /\ Entry \in Seq(ViewType)
  BY DEF ConsoleTypeOK, Entry
<1>2. \A j \in DOMAIN Entry : Entry[j] \in ViewType
  BY <1>1
<1>3. value \in StanceValues
  BY <1>2, WidgetType DEF StanceValues, AskedValues
<1>4. ASSUME NEW j \in DOMAIN Entry
      PROVE  f[j] \in ViewType /\ f[j].panels \subseteq Entry[j].panels
  <2>1. HeldAfter(j, value) \in StanceValues
    BY <1>3, HeldAfterType
  <2>2. Entry[j].asked \in AskedValues \union {AsHeld} /\ Entry[j].panels \in SUBSET PanelType
    BY <1>2 DEF ViewType
  <2>3. View("catalyst", {}, Entry[j].asked, HeldAfter(j, value)) \in ViewType
    BY <2>1, <2>2, ViewOfType DEF ViewKinds
  <2>4. View("catalyst", {}, Entry[j].asked, HeldAfter(j, value)).panels = {}
    BY DEF View
  <2> QED
    BY <1>2, <2>3, <2>4 DEF Regenerated
<1>5. transcripts' = [transcripts EXCEPT ![project] = [j \in DOMAIN @ |-> f[j]]]
  BY <1>1 DEF Recorded
<1>6. stances' \in [Projects -> StanceValues]
  <2>1. stances' = [stances EXCEPT ![project] = HeldAfter(Len(Entry), value)]
    BY DEF Recorded
  <2>2. Len(Entry) \in DOMAIN Entry
    BY <1>1
  <2>3. HeldAfter(Len(Entry), value) \in StanceValues
    BY <1>3, <2>2, HeldAfterType
  <2> QED
    BY <2>1, <2>3 DEF ConsoleTypeOK
<1>7. transcripts' = [transcripts EXCEPT ![project] = [j \in DOMAIN Entry |-> Regenerated(j, value)]]
  BY DEF Recorded, Entry
<1> HIDE DEF f, value
<1>8. /\ transcripts' \in [Projects -> Seq(ViewType)]
      /\ \A p \in Projects : /\ DOMAIN transcripts'[p] = DOMAIN transcripts[p]
                             /\ \A j \in DOMAIN transcripts[p] :
                                  transcripts'[p][j].panels \subseteq transcripts[p][j].panels
  BY <1>1, <1>4, <1>5, EntersType
<1> QED
  BY <1>6, <1>7, <1>8 DEF value

-----------------------------------------------------------------------------
(* What a transcript shows of an order was on record when it was shown,    *)
(* and only an execution puts another preview there: a panel that no       *)
(* longer agrees is one of an order that left the queue by it.             *)

ShownHold ==
  \A q \in Projects : \A i \in DOMAIN transcripts[q] :
    \A panel \in transcripts[q][i].panels : PanelHolds(panel)

ConsoleInv == ConsoleTypeOK /\ ShownHold

LEMMA PanelStays ==
  ASSUME NEW panel \in PanelType, PanelHolds(panel),
         \A o \in Orders, h \in Nat : Previewed(o, h) => Previewed(o, h)'
  PROVE  PanelHolds(panel)'
BY DEF PanelHolds, PanelType

LEMMA AppendHolds ==
  ASSUME ConsoleInv, NEW v \in ViewType, Appends(v),
         \A panel \in v.panels : PanelHolds(panel)',
         \A o \in Orders, h \in Nat : Previewed(o, h) => Previewed(o, h)'
  PROVE  ShownHold'
<1>1. Entry \in Seq(ViewType) /\ project \in Projects /\ Entry = transcripts[project]
  BY DEF ConsoleInv, ConsoleTypeOK, Entry
<1>2. transcripts' = [transcripts EXCEPT ![project] = Append(Entry, v)]
  BY AppendsType DEF ConsoleInv
<1>3. ASSUME NEW q \in Projects, NEW i \in DOMAIN transcripts'[q],
             NEW panel \in transcripts'[q][i].panels
      PROVE  PanelHolds(panel)'
  <2>1. CASE i \in DOMAIN transcripts[q] /\ transcripts'[q][i] = transcripts[q][i]
    <3>1. transcripts[q] \in Seq(ViewType)
      BY DEF ConsoleInv, ConsoleTypeOK
    <3>2. transcripts[q][i] \in ViewType
      BY <2>1, <3>1
    <3>3. panel \in PanelType
      BY <2>1, <3>2 DEF ViewType
    <3>4. PanelHolds(panel)
      BY <2>1 DEF ConsoleInv, ShownHold
    <3> QED
      BY <3>3, <3>4, PanelStays
  <2>2. CASE ~(i \in DOMAIN transcripts[q] /\ transcripts'[q][i] = transcripts[q][i])
    <3>1. q = project
      BY <1>2, <2>2 DEF ConsoleInv, ConsoleTypeOK
    <3>2. transcripts'[q] = Append(Entry, v)
      BY <1>1, <1>2, <3>1 DEF ConsoleInv, ConsoleTypeOK
    <3>3. i \in 1 .. Len(Entry) + 1
      BY <1>1, <3>2
    <3>4. i \notin 1 .. Len(Entry)
      BY <1>1, <2>2, <3>1, <3>2
    <3>5. transcripts'[q][i] = v
      BY <1>1, <3>2, <3>3, <3>4
    <3> QED
      BY <3>5
  <2> QED
    BY <2>1, <2>2
<1> QED
  BY <1>3 DEF ShownHold

LEMMA ReplaceHolds ==
  ASSUME ConsoleInv, UNCHANGED book,
         \A p \in Projects : /\ DOMAIN transcripts'[p] = DOMAIN transcripts[p]
                             /\ \A j \in DOMAIN transcripts[p] :
                                  transcripts'[p][j].panels \subseteq transcripts[p][j].panels
  PROVE  ShownHold'
BY DEF ConsoleInv, ShownHold, PanelHolds, Previewed

LEMMA ConsoleInvInit == ConsoleInit => ConsoleInv
<1>1. ConsoleInit => ShownHold
  BY DEF ConsoleInit, NoEntries, ShownHold
<1> QED
  BY <1>1, ConsoleTypeInit DEF ConsoleInv

LEMMA TurnStep ==
  ASSUME ConsoleInv, NEW v \in ViewType, Appends(v),
         book' \in [Orders -> [state : OrderStates, hash : Nat]],
         stances' \in [Projects -> StanceValues],
         \A panel \in v.panels : PanelHolds(panel)',
         \A o \in Orders, h \in Nat : Previewed(o, h) => Previewed(o, h)'
  PROVE  ConsoleInv' /\ page' = "RUNNING" /\ reruns' = 0
<1>1. ConsoleTypeOK' /\ page' = "RUNNING" /\ reruns' = 0
  BY AppendsType DEF ConsoleInv, ConsoleTypeOK
<1>2. ShownHold'
  BY AppendHolds
<1> QED
  BY <1>1, <1>2 DEF ConsoleInv

(* Everything that somebody does: the page is to be drawn again, and the   *)
(* count of events starts over.                                            *)
LEMMA InteractionStep ==
  ASSUME ConsoleInv, ConsoleNext, ~RunScript
  PROVE  ConsoleInv' /\ page' \in {"RUNNING", "RAISED"} /\ reruns' = 0
<1>1. ASSUME NEW kind \in ViewKinds, PlainTurn(kind)
      PROVE  ConsoleInv' /\ page' = "RUNNING" /\ reruns' = 0
  <2>1. PICK v \in ViewType : v.panels = {} /\ Appends(v) /\ UNCHANGED <<book, stances>>
    BY <1>1, PlainTurnAppends DEF ConsoleInv
  <2> QED
    BY <2>1, TurnStep DEF ConsoleInv, ConsoleTypeOK, Previewed
<1>2. ASSUME NEW asked \in AskedValues, CatalystTurn(asked) \/ PlanTurn
      PROVE  ConsoleInv' /\ page' = "RUNNING" /\ reruns' = 0
  <2>1. PICK v \in ViewType : /\ v.panels = {} /\ Appends(v) /\ UNCHANGED book
                              /\ stances' \in [Projects -> StanceValues]
    BY <1>2, CatalystTurnAppends DEF ConsoleInv
  <2> QED
    BY <2>1, TurnStep DEF ConsoleInv, ConsoleTypeOK, Previewed
<1>3. ASSUME NEW o \in Orders, NEW s \in {"AWAITING_APPROVAL", "REJECTED", "KILL_SWITCHED"},
             TradeTurn(o, s)
      PROVE  ConsoleInv' /\ page' = "RUNNING" /\ reruns' = 0
  <2>1. PICK made \in [state : OrderStates, hash : Nat] :
          book[o].state = "NONE" /\ book' = [book EXCEPT ![o] = made]
    BY <1>3, TradeTurnAppends DEF ConsoleInv
  <2>2. PICK v \in ViewType : /\ Appends(v) /\ UNCHANGED stances
                              /\ \A panel \in v.panels : PanelHolds(panel)'
    BY <1>3, TradeTurnAppends DEF ConsoleInv
  <2>3. \A p \in Orders, h \in Nat : Previewed(p, h) => Previewed(p, h)'
    BY <2>1 DEF Previewed, ConsoleInv, ConsoleTypeOK
  <2>4. book' \in [Orders -> [state : OrderStates, hash : Nat]]
    BY <2>1 DEF ConsoleInv, ConsoleTypeOK
  <2> QED
    BY <2>2, <2>3, <2>4, TurnStep DEF ConsoleInv, ConsoleTypeOK
<1>4. CASE InboxTurn
  <2>1. PICK v \in ViewType : /\ Appends(v) /\ UNCHANGED <<book, stances>>
                              /\ \A panel \in v.panels : PanelHolds(panel)'
    BY <1>4, InboxTurnAppends DEF ConsoleInv
  <2> QED
    BY <2>1, TurnStep DEF ConsoleInv, ConsoleTypeOK, Previewed
<1>5. CASE \/ \E o \in Orders : ApproveOrder(o) \/ RejectOrder(o)
           \/ \E r \in Actions : DecideAction(r)
  <2>1. /\ UNCHANGED <<project, transcripts, stances>>
        /\ page' \in {"RUNNING", "RAISED"} /\ reruns' = 0
        /\ book' \in [Orders -> [state : OrderStates, hash : Nat]]
        /\ \A o \in Orders, h \in Nat : Previewed(o, h) => Previewed(o, h)'
    BY <1>5, DecisionMoves DEF ConsoleInv
  <2>2. ASSUME NEW q \in Projects, NEW i \in DOMAIN transcripts[q],
               NEW panel \in transcripts[q][i].panels
        PROVE  PanelHolds(panel)'
    <3>1. transcripts[q] \in Seq(ViewType)
      BY DEF ConsoleInv, ConsoleTypeOK
    <3>2. transcripts[q][i] \in ViewType
      BY <3>1
    <3>3. panel \in PanelType
      BY <3>2 DEF ViewType
    <3>4. PanelHolds(panel)
      BY DEF ConsoleInv, ShownHold
    <3> QED
      BY <2>1, <3>3, <3>4, PanelStays
  <2>3. ShownHold'
    BY <2>1, <2>2 DEF ShownHold
  <2> QED
    BY <2>1, <2>3 DEF ConsoleInv, ConsoleTypeOK
<1>6. ASSUME NEW i \in DOMAIN Entry, NEW option \in {"HAWKISH", "VOLATILITY"}, Enter(i, option)
      PROVE  ConsoleInv' /\ page' = "RUNNING" /\ reruns' = 0
  <2>1. UNCHANGED <<project, book, stances>> /\ page' = "RUNNING" /\ reruns' = 0
    BY <1>6 DEF Enter, Interacts, serviceVars
  <2>2. ShownHold' /\ transcripts' \in [Projects -> Seq(ViewType)]
    BY <1>6, <2>1, EnterMoves, ReplaceHolds DEF ConsoleInv
  <2> QED
    BY <2>1, <2>2 DEF ConsoleInv, ConsoleTypeOK
<1>7. ASSUME NEW q \in Projects, Open(q)
      PROVE  ConsoleInv' /\ page' = "RUNNING" /\ reruns' = 0
  <2>1. project' = q /\ UNCHANGED <<book, stances>> /\ page' = "RUNNING" /\ reruns' = 0
    BY <1>7 DEF Open, Interacts, serviceVars
  <2>2. ShownHold' /\ transcripts' \in [Projects -> Seq(ViewType)]
    BY <1>7, <2>1, OpenMoves, ReplaceHolds DEF ConsoleInv
  <2> QED
    BY <2>1, <2>2 DEF ConsoleInv, ConsoleTypeOK
<1>8. CASE Reset
  <2>1. page' = "RUNNING" /\ reruns' = 0
    BY <1>8 DEF Reset, Interacts
  <2>2. book' \in [Orders -> [state : OrderStates, hash : Nat]]
    BY <1>8 DEF Reset, SeedOrders, OrderStates
  <2>3. transcripts' \in [Projects -> Seq(ViewType)] /\ ShownHold'
    BY <1>8 DEF Reset, NoEntries, ShownHold
  <2>4. stances' \in [Projects -> StanceValues]
    BY <1>8 DEF Reset, NoStances, StanceValues
  <2> QED
    BY <1>8, <2>1, <2>2, <2>3, <2>4, SeededAssumption DEF Reset, ConsoleInv, ConsoleTypeOK
<1> QED
  BY <1>1, <1>2, <1>3, <1>4, <1>5, <1>6, <1>7, <1>8 DEF ConsoleNext, ViewKinds, AskedValues

LEMMA ScriptStep ==
  ASSUME ConsoleInv, RunScript
  PROVE  ConsoleInv'
<1> DEFINE differing == {i \in DOMAIN Entry : Drawn(i) /\ Differs(Entry[i])}
<1>1. CASE differing = {}
  <2>1. UNCHANGED <<project, transcripts, book, stances, reruns>>
        /\ page' \in {"DRAWN", "REFUSED"}
    BY <1>1 DEF RunScript, serviceVars
  <2> QED
    BY <2>1 DEF ConsoleInv, ConsoleTypeOK, ShownHold, PanelHolds, Previewed
<1>2. CASE differing # {}
  <2>1. Entry \in Seq(ViewType)
    BY DEF ConsoleInv, ConsoleTypeOK, Entry
  <2>2. differing \in SUBSET Nat
    BY <2>1
  <2>3. Min(differing) \in differing
    <3> HIDE DEF differing
    <3> QED
      BY <1>2, <2>2, MinIsThere
  <2>4. Recorded(Min(differing)) /\ UNCHANGED <<project, book>>
    BY <1>2 DEF RunScript, serviceVars
  <2>5. Min(differing) \in DOMAIN Entry
    BY <2>3
  <2>6. page' = "RUNNING" /\ reruns' \in 0 .. 2
    BY <2>4 DEF Recorded, ConsoleInv, ConsoleTypeOK
  <2> HIDE DEF differing
  <2>7. /\ transcripts' \in [Projects -> Seq(ViewType)] /\ stances' \in [Projects -> StanceValues]
        /\ ShownHold'
    BY <2>4, <2>5, RecordedMoves, ReplaceHolds DEF ConsoleInv
  <2> QED
    BY <2>4, <2>6, <2>7 DEF ConsoleInv, ConsoleTypeOK
<1> QED
  BY <1>1, <1>2

LEMMA ConsoleInvStep ==
  ASSUME ConsoleInv, [ConsoleNext]_consoleVars
  PROVE  ConsoleInv'
<1>1. CASE UNCHANGED consoleVars
  BY <1>1 DEF consoleVars, serviceVars, ConsoleInv, ConsoleTypeOK, ShownHold, PanelHolds, Previewed
<1> QED
  BY <1>1, ScriptStep, InteractionStep

LEMMA ConsoleInvAlways == ConsoleSpec => []ConsoleInv
BY ConsoleInvInit, ConsoleInvStep, PTL DEF ConsoleSpec

(* Every reachable state of the console has its type.                      *)
THEOREM ConsoleTypeCorrect == ConsoleSpec => []ConsoleTypeOK
<1>1. ConsoleInv => ConsoleTypeOK
  BY DEF ConsoleInv
<1> QED
  BY <1>1, ConsoleInvAlways, PTL

-----------------------------------------------------------------------------
(* No builder gives a component an action it may not have, so that what is *)
(* left of the registry's check are the hashes.                            *)

AllComponents ==
  {"strategy_candidates", "funnel_rail", "iav_gauge", "holdings_delta_table",
   "manager_breadth_graph", "evidence_card", "counter_thesis_panel", "signal_card",
   "etf_implementation_comparison", "implementation_candidates", "risk_budget_panel",
   "approval_panel", "metric", "approval_inbox", "continuity_brief"}

LEMMA ActionsArePermitted ==
  ASSUME NEW kind \in ViewKinds, NEW c \in Components(kind)
  PROVE  Offers(c) \subseteq Permitted(c)
<1>1. c \in AllComponents
  BY DEF Components, ViewKinds, AllComponents
<1> QED
  BY <1>1 DEF AllComponents, Offers, Permitted

LEMMA RefusalExplained ==
  ASSUME ConsoleInv, NEW i \in DOMAIN Entry, ~Accepted(Entry[i])
  PROVE  \E panel \in Entry[i].panels :
           /\ panel.of \in Orders
           /\ panel.hash < book[panel.of].hash
           /\ book[panel.of].state \notin {"NONE", "AWAITING_APPROVAL", "KILL_SWITCHED"}
<1>1. Entry \in Seq(ViewType) /\ Entry = transcripts[project] /\ project \in Projects
  BY DEF ConsoleInv, ConsoleTypeOK, Entry
<1>2. Entry[i] \in ViewType
  BY <1>1
<1>3. \A c \in Components(Entry[i].kind) : Offers(c) \subseteq Permitted(c)
  BY <1>2, ActionsArePermitted DEF ViewType
<1>4. PICK panel \in Entry[i].panels : ~Authorized(panel.of, panel.hash)
  BY <1>3 DEF Accepted
<1>5. panel \in PanelType /\ PanelHolds(panel)
  BY <1>1, <1>2, <1>4 DEF ViewType, ConsoleInv, ShownHold
<1>6. panel.of \in Orders /\ Previewed(panel.of, panel.hash)
  BY <1>4, <1>5 DEF Authorized, PanelHolds, PanelType
<1>7. panel.hash < book[panel.of].hash
  BY <1>4, <1>5, <1>6 DEF Authorized, Previewed, PanelType, ConsoleInv, ConsoleTypeOK
<1> QED
  BY <1>6, <1>7 DEF Previewed

(* A page is only ever taken away by the execution of an order it shows.   *)
THEOREM PagesStay == ConsoleSpec => []RefusedForARepreview
<1>1. ConsoleInit => RefusedForARepreview
  BY DEF ConsoleInit, RefusedForARepreview
<1>2. ConsoleInv /\ RefusedForARepreview /\ [ConsoleNext]_consoleVars => RefusedForARepreview'
  <2> SUFFICES ASSUME ConsoleInv, RefusedForARepreview, [ConsoleNext]_consoleVars
               PROVE  RefusedForARepreview'
    OBVIOUS
  <2>1. CASE UNCHANGED consoleVars
    BY <2>1 DEF consoleVars, serviceVars, RefusedForARepreview, Entry
  <2>2. CASE ConsoleNext /\ ~RunScript
    BY <2>2, InteractionStep DEF RefusedForARepreview
  <2>3. CASE RunScript /\ page' = "REFUSED"
    <3>1. Refusing # {} /\ UNCHANGED <<project, transcripts, book>>
      BY <2>3 DEF RunScript, Recorded, serviceVars
    <3>2. PICK i \in DOMAIN Entry : ~Accepted(Entry[i])
      BY <3>1 DEF Refusing
    <3> QED
      BY <3>1, <3>2, RefusalExplained DEF RefusedForARepreview, Entry
  <2> QED
    BY <2>1, <2>2, <2>3 DEF RefusedForARepreview
<1> QED
  BY <1>1, <1>2, ConsoleInvAlways, PTL DEF ConsoleSpec

-----------------------------------------------------------------------------
(* Entries.  After an event every live view holds a value its box can      *)
(* show, or one that was left unspecified by the message it came from, and *)
(* is left unspecified by every refresh.  So if a second event follows     *)
(* that no one made, its view has no agent any more, or is such a one -    *)
(* and still differs afterwards.                                           *)

LeftOpen(i) == \A v \in {"HAWKISH", "VOLATILITY"} : HeldAfter(i, v) = "UNSPECIFIED"

SettleInv ==
  /\ reruns >= 1 =>
       \A i \in DOMAIN Entry : Entry[i].live /\ Differs(Entry[i]) =>
         Entry[i].value = "UNSPECIFIED" /\ LeftOpen(i)
  /\ SettlesAtOnce

LEMMA LeftOpenForAll ==
  ASSUME NEW i, NEW v \in {"HAWKISH", "VOLATILITY"}, HeldAfter(i, v) = "UNSPECIFIED"
  PROVE  LeftOpen(i)
BY DEF LeftOpen, HeldAfter

(* Who asked for what is not changed by a refresh.                         *)
LEMMA HeldAfterStays ==
  ASSUME ConsoleTypeOK, NEW i \in DOMAIN Entry, NEW v,
         DOMAIN Entry' = DOMAIN Entry,
         \A j \in DOMAIN Entry : /\ Entry'[j].live = Entry[j].live
                                 /\ Entry'[j].asked = Entry[j].asked
  PROVE  (HeldAfter(i, v))' = HeldAfter(i, v')
<1> DEFINE asking == {j \in 1 .. i : Entry[j].live /\ Entry[j].asked # AsHeld}
<1>1. Entry \in Seq(ViewType) /\ i \in 1 .. Len(Entry) /\ DOMAIN Entry = 1 .. Len(Entry)
  BY DEF ConsoleTypeOK, Entry
<1>2. \A j \in 1 .. i : j \in DOMAIN Entry
  BY <1>1
<1>3. asking' = asking
  BY <1>2
<1>4. CASE asking = {}
  BY <1>3, <1>4 DEF HeldAfter
<1>5. CASE asking # {}
  <2>1. i \in Nat /\ asking \in SUBSET (1 .. i)
    BY <1>1
  <2>2. Max(asking) \in asking
    <3> HIDE DEF asking
    <3> QED
      BY <1>5, <2>1, GreatestPlace
  <2>3. Entry'[Max(asking)].asked = Entry[Max(asking)].asked
    BY <1>2, <2>2
  <2>4. (HeldAfter(i, v))' = Entry'[Max(asking')].asked
    BY <1>3, <1>5 DEF HeldAfter
  <2> QED
    BY <1>3, <1>5, <2>3, <2>4 DEF HeldAfter
<1> QED
  BY <1>4, <1>5

LEMMA Regeneration ==
  ASSUME ConsoleInv, NEW i \in DOMAIN Entry, Recorded(i), UNCHANGED project
  PROVE  /\ Widget(Entry[i]) \in {"HAWKISH", "VOLATILITY"}
         /\ DOMAIN Entry' = DOMAIN Entry
         /\ \A j \in DOMAIN Entry :
              /\ Entry'[j] = Regenerated(j, Widget(Entry[i]))
              /\ HeldAfter(j, Widget(Entry[i])) \in AskedValues
<1>1. project \in Projects /\ Entry = transcripts[project] /\ Entry \in Seq(ViewType)
  BY DEF ConsoleInv, ConsoleTypeOK, Entry
<1>2. \A j \in DOMAIN Entry : Entry[j] \in ViewType
  BY <1>1
<1>3. Widget(Entry[i]) \in {"HAWKISH", "VOLATILITY"}
  BY <1>2, WidgetType
<1>4. Entry' = [j \in DOMAIN Entry |-> Regenerated(j, Widget(Entry[i]))]
  <2>1. transcripts' = [transcripts EXCEPT ![project] =
                          [j \in DOMAIN Entry |-> Regenerated(j, Widget(Entry[i]))]]
    BY RecordedMoves DEF ConsoleInv
  <2> QED
    BY <1>1, <2>1 DEF Entry, ConsoleInv, ConsoleTypeOK
<1>5. \A j \in DOMAIN Entry : HeldAfter(j, Widget(Entry[i])) \in AskedValues
  BY <1>3, HeldAfterType DEF StanceValues, AskedValues, ConsoleInv
<1> QED
  BY <1>3, <1>4, <1>5

LEMMA RecordedSettles ==
  ASSUME ConsoleInv, SettleInv, NEW i \in DOMAIN Entry, Differs(Entry[i]), Recorded(i),
         UNCHANGED project
  PROVE  SettleInv'
<1> DEFINE value == Widget(Entry[i])
<1>1. /\ value \in {"HAWKISH", "VOLATILITY"}
      /\ DOMAIN Entry' = DOMAIN Entry
      /\ \A j \in DOMAIN Entry : /\ Entry'[j] = Regenerated(j, value)
                                 /\ HeldAfter(j, value) \in AskedValues
  BY Regeneration
<1>2. reruns \in 0 .. 2 /\ reruns' = IF reruns = 2 THEN 2 ELSE reruns + 1
  BY DEF Recorded, ConsoleInv, ConsoleTypeOK
<1> HIDE DEF value
<1>3. ASSUME NEW j \in DOMAIN Entry, Entry[j].live
      PROVE  /\ Entry'[j].value = HeldAfter(j, value) /\ Entry'[j].widget = Untouched
             /\ Entry'[j].asked = Entry[j].asked /\ Entry'[j].live
  <2>1. Entry'[j] = View("catalyst", {}, Entry[j].asked, HeldAfter(j, value))
    BY <1>1, <1>3 DEF Regenerated
  <2>2. HeldAfter(j, value) # NoStance
    BY <1>1, <1>3 DEF AskedValues, NoStance
  <2>3. (HeldAfter(j, value) # NoStance) = TRUE
    BY <2>2
  <2>4. /\ Entry'[j].value = HeldAfter(j, value) /\ Entry'[j].widget = Untouched
        /\ Entry'[j].asked = Entry[j].asked
        /\ Entry'[j].live = (HeldAfter(j, value) # NoStance)
    BY <2>1 DEF View
  <2> QED
    BY <2>3, <2>4
<1>4. ASSUME NEW j \in DOMAIN Entry, ~Entry[j].live
      PROVE  Entry'[j] = Entry[j]
  BY <1>1, <1>4 DEF Regenerated
<1>5. \A j \in DOMAIN Entry : Entry'[j].live = Entry[j].live /\ Entry'[j].asked = Entry[j].asked
  <2>1. \A j \in DOMAIN Entry : Entry[j].live \in BOOLEAN
    <3>1. Entry \in Seq(ViewType)
      BY DEF ConsoleInv, ConsoleTypeOK, Entry
    <3>2. \A j \in DOMAIN Entry : Entry[j] \in ViewType
      BY <3>1
    <3> QED
      BY <3>2 DEF ViewType
  <2> QED
    BY <1>3, <1>4, <2>1
<1>6. ASSUME NEW j \in DOMAIN Entry, LeftOpen(j)
      PROVE  (LeftOpen(j))'
  <2> SUFFICES ASSUME NEW v \in {"HAWKISH", "VOLATILITY"}
               PROVE  (HeldAfter(j, v))' = "UNSPECIFIED"
    BY DEF LeftOpen
  <2>1. (HeldAfter(j, v))' = HeldAfter(j, v)
    BY <1>1, <1>5, HeldAfterStays DEF ConsoleInv
  <2> QED
    BY <1>6, <2>1 DEF LeftOpen
<1>7. ASSUME NEW j \in DOMAIN Entry', Entry'[j].live, Differs(Entry'[j])
      PROVE  Entry'[j].value = "UNSPECIFIED" /\ (LeftOpen(j))'
  <2>1. j \in DOMAIN Entry /\ Entry[j].live
    BY <1>1, <1>5, <1>7
  <2>2. Entry'[j].value = HeldAfter(j, value) /\ Entry'[j].widget = Untouched
    BY <1>3, <2>1
  <2>3. HeldAfter(j, value) = "UNSPECIFIED"
    BY <1>1, <1>7, <2>1, <2>2 DEF Differs, Widget, Contains, Options, AskedValues, Untouched
  <2>4. LeftOpen(j)
    BY <1>1, <2>1, <2>3, LeftOpenForAll
  <2> QED
    BY <1>6, <2>1, <2>2, <2>3, <2>4
<1>8. ASSUME reruns' = 2
      PROVE  Differs(Entry'[i]) /\ (Entry'[i].live => Entry'[i].value = "UNSPECIFIED")
  <2>1. CASE ~Entry[i].live
    BY <1>4, <1>5, <2>1
  <2>2. CASE Entry[i].live
    <3>1. LeftOpen(i)
      BY <1>2, <1>8, <2>2 DEF SettleInv
    <3>2. Entry'[i].value = "UNSPECIFIED" /\ Entry'[i].widget = Untouched
      BY <1>1, <1>3, <2>2, <3>1 DEF LeftOpen
    <3> QED
      BY <3>2 DEF Differs, HasControl, NoStance, Widget, Contains, Options, Untouched
  <2> QED
    BY <2>1, <2>2
<1> QED
  BY <1>1, <1>7, <1>8 DEF SettleInv, SettlesAtOnce

LEMMA SettleStep ==
  ASSUME ConsoleInv, SettleInv, [ConsoleNext]_consoleVars
  PROVE  SettleInv'
<1>1. CASE UNCHANGED consoleVars
  BY <1>1 DEF consoleVars, SettleInv, SettlesAtOnce, LeftOpen, HeldAfter, Entry
<1>2. CASE ConsoleNext /\ ~RunScript
  <2>1. reruns' = 0
    BY <1>2, InteractionStep
  <2> QED
    BY <2>1 DEF SettleInv, SettlesAtOnce
<1>3. CASE RunScript
  <2> DEFINE differing == {i \in DOMAIN Entry : Drawn(i) /\ Differs(Entry[i])}
  <2>1. CASE differing = {}
    <3>1. UNCHANGED <<project, transcripts, reruns>>
      BY <1>3, <2>1 DEF RunScript
    <3> QED
      BY <3>1 DEF SettleInv, SettlesAtOnce, LeftOpen, HeldAfter, Entry
  <2>2. CASE differing # {}
    <3>1. Recorded(Min(differing)) /\ UNCHANGED project
      BY <1>3, <2>2 DEF RunScript
    <3>2. differing \in SUBSET Nat
      BY DEF ConsoleInv, ConsoleTypeOK, Entry
    <3>3. Min(differing) \in differing
      <4> HIDE DEF differing
      <4> QED
        BY <2>2, <3>2, MinIsThere
    <3> QED
      BY <3>1, <3>3, RecordedSettles
  <2> QED
    BY <2>1, <2>2
<1> QED
  BY <1>1, <1>2, <1>3

(* An entry is one event, unless the stance was left unspecified or the    *)
(* view outlived its agent.                                                *)
THEOREM EntriesSettle == ConsoleSpec => []SettlesAtOnce
<1>1. ConsoleInit => SettleInv
  BY DEF ConsoleInit, SettleInv, SettlesAtOnce
<1>2. SettleInv => SettlesAtOnce
  BY DEF SettleInv
<1> QED
  BY <1>1, <1>2, SettleStep, ConsoleInvAlways, PTL DEF ConsoleSpec
=============================================================================
