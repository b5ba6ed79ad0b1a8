----------------------------- MODULE Approvals -----------------------------
(***************************************************************************)
(* The approval service for workflow actions: approvals/service.py with    *)
(* its state machine, its schemas and its tier policy.                     *)
(*                                                                         *)
(* One ActionRecord per request; each public method is one action.  Every  *)
(* change of state is followed by an append to the workbench log, and the  *)
(* append may raise: then the method ends there, with the record already   *)
(* moved and the log one event short.  Validators and executors are called *)
(* back and may raise as well.                                             *)
(***************************************************************************)
EXTENDS Integers, Sequences

CONSTANTS
  Requests,     \* request ids
  People,       \* whoever may request or approve
  Kinds,        \* action kinds
  Executable,   \* the kinds with a registered executor
  Contents,     \* what a request may say: the fields of its fingerprint
  Floor,        \* tier_floors: the least tier of each kind
  TierRules,    \* tier_rules of the policy
  LogMayFail,   \* whether an append to the workbench log may raise
  MaxShown,     \* bound on how often a request is presented
  MaxNow      \* bound of the model's clock

LOW == 1
MEDIUM == 2
HIGH == 3
CRITICAL == 4
Tiers == LOW .. CRITICAL

RuleType == [required : Nat \ {0}, ttl : Nat, selfApproval : BOOLEAN]
ContentType == [kind : Kinds, payload : STRING, tier : Tiers, reversible : BOOLEAN]

ASSUME ContentsAssumption == Contents \subseteq ContentType /\ Executable \subseteq Kinds
ASSUME PolicyAssumption == Floor \in [Kinds -> Tiers] /\ TierRules \in [Tiers -> RuleType]
ASSUME BoundsAssumption ==
  LogMayFail \in BOOLEAN /\ MaxShown \in Nat /\ MaxNow \in Nat

VARIABLES
  status,     \* [Requests -> ActionStates], "UNKNOWN" before propose
  requester,  \* request.requested_by
  content,    \* the mutable request's current fingerprint
  required,   \* record.required_approvals
  shown,      \* record.action_hash: what was presented, and the how-manieth time
  approvals,  \* record.approvals
  logged,     \* the state of the latest event about the request in the log
  effects,    \* history: what its executor was run on, and under which approvals
  now

approvalVars == <<status, requester, content, required, shown, approvals, logged, effects, now>>

-----------------------------------------------------------------------------
ActionStates ==
  {"UNKNOWN", "DRAFT", "VALIDATING", "REJECTED", "AWAITING_APPROVAL",
   "APPROVED", "REVALIDATING", "APPROVAL_EXPIRED", "EXECUTING",
   "EXECUTED", "FAILED", "CANCELLED"}

MayMove(from, to) ==
  \/ from = "DRAFT" /\ to \in {"VALIDATING", "CANCELLED"}
  \/ from = "VALIDATING" /\ to \in {"AWAITING_APPROVAL", "REJECTED"}
  \/ from = "AWAITING_APPROVAL"
       /\ to \in {"AWAITING_APPROVAL", "APPROVED", "REJECTED", "CANCELLED",
                  "APPROVAL_EXPIRED"}
  \/ from = "APPROVED" /\ to \in {"REVALIDATING", "CANCELLED", "APPROVAL_EXPIRED"}
  \/ from = "REVALIDATING" /\ to \in {"EXECUTING", "APPROVAL_EXPIRED", "REJECTED"}
  \/ from = "APPROVAL_EXPIRED" /\ to \in {"VALIDATING", "CANCELLED"}
  \/ from = "EXECUTING" /\ to \in {"EXECUTED", "FAILED"}

Larger(a, b) == IF a > b THEN a ELSE b

\* Escalated, never de-escalated.
EffectiveTier(c) ==
  LET floored == Larger(c.tier, Floor[c.kind])
  IN IF c.reversible THEN floored ELSE Larger(floored, HIGH)

RuleFor(c) == TierRules[EffectiveTier(c)]

(* action_hash covers the fingerprint and presented_at, which differs from *)
(* one presentation to the next: the n-th one, here.                       *)
ActionHashType == [content : ContentType, n : Nat]
NotShown == [n |-> 0]
ApprovalRecordType == [hash : ActionHashType, approver : People, at : Nat, ttl : Nat]
EffectType == [content : ContentType, hash : ActionHashType, approvals : Seq(ApprovalRecordType)]

Approvers(i) == {approvals[i][k].approver : k \in 1 .. Len(approvals[i])}

Expired(a) == now - a.at > a.ttl

ApprovalsTypeOK ==
  /\ status \in [Requests -> ActionStates]
  /\ requester \in [Requests -> People]
  /\ content \in [Requests -> ContentType]
  /\ required \in [Requests -> Nat]
  /\ shown \in [Requests -> ActionHashType \union {NotShown}]
  /\ approvals \in [Requests -> Seq(ApprovalRecordType)]
  /\ logged \in [Requests -> ActionStates]
  /\ effects \in [Requests -> Seq(EffectType)]
  /\ now \in Nat

ApprovalsInit ==
  /\ status = [i \in Requests |-> "UNKNOWN"]
  /\ requester \in [Requests -> People]
  /\ content \in [Requests -> Contents]
  /\ required = [i \in Requests |-> 0]
  /\ shown = [i \in Requests |-> NotShown]
  /\ approvals = [i \in Requests |-> <<>>]
  /\ logged = [i \in Requests |-> "UNKNOWN"]
  /\ effects = [i \in Requests |-> <<>>]
  /\ now = 0

-----------------------------------------------------------------------------
(* _set_state as the last thing a method does: the record is in state `to',*)
(* and the log's latest event is either that one or, when the append       *)
(* raised, still `before'.                                                 *)
Ends(i, to, before) ==
  /\ status' = [status EXCEPT ![i] = to]
  /\ logged' \in {[logged EXCEPT ![i] = to]}
       \union IF LogMayFail THEN {[logged EXCEPT ![i] = before]} ELSE {}

(* The method ends in a state it meant to leave: the append of that state  *)
(* raised, or a callback did.                                              *)
Stops(i, at) ==
  /\ status' = [status EXCEPT ![i] = at]
  /\ logged' \in {[logged EXCEPT ![i] = at]}
       \union IF LogMayFail THEN {logged} ELSE {}

Propose(i) ==
  /\ status[i] = "UNKNOWN"
  /\ Ends(i, "DRAFT", logged[i])
  /\ required' = [required EXCEPT ![i] = RuleFor(content[i]).required]
  /\ UNCHANGED <<requester, content, shown, approvals, effects, now>>

\* The record holds the caller's ActionRequest object.
Mutate(i) ==
  /\ status[i] # "UNKNOWN"
  /\ \E c \in Contents \ {content[i]} : content' = [content EXCEPT ![i] = c]
  /\ UNCHANGED <<status, requester, required, shown, approvals, logged, effects, now>>

-----------------------------------------------------------------------------
(* Submission.  The approvals of an earlier presentation are kept.         *)

SubmissionStops(i) ==
  /\ Stops(i, "VALIDATING")
  /\ UNCHANGED <<required, shown>>

\* No executor, or a validator objects.
SubmissionBlocked(i) ==
  /\ Ends(i, "REJECTED", "VALIDATING")
  /\ UNCHANGED <<required, shown>>

Presented(i) ==
  /\ content[i].kind \in Executable
  /\ shown[i].n < MaxShown
  /\ required' = [required EXCEPT ![i] = RuleFor(content[i]).required]
  /\ shown' = [shown EXCEPT ![i] = [content |-> content[i], n |-> @.n + 1]]
  /\ Ends(i, "AWAITING_APPROVAL", "VALIDATING")

\* Mutation: a concluded request may be submitted again.
SubmitAgain(i) ==
  /\ status[i] # "UNKNOWN"
  /\ SubmissionStops(i) \/ SubmissionBlocked(i) \/ Presented(i)
  /\ UNCHANGED <<requester, content, approvals, effects, now>>

SubmitForApproval(i) ==
  /\ MayMove(status[i], "VALIDATING")
  /\ SubmissionStops(i) \/ SubmissionBlocked(i) \/ Presented(i)
  /\ UNCHANGED <<requester, content, approvals, effects, now>>

-----------------------------------------------------------------------------
(* Approval.                                                               *)

\* The hash presented is not the record's.
ApproveStaleHash(i) ==
  /\ Ends(i, "APPROVAL_EXPIRED", logged[i])
  /\ UNCHANGED approvals

\* The rule is that of the request as it is now.
SelfApproval(i, p) == ~RuleFor(content[i]).selfApproval /\ p = requester[i]

ApproveSelf(i, p) ==
  /\ SelfApproval(i, p)
  /\ Ends(i, "REJECTED", logged[i])
  /\ UNCHANGED approvals

\* Mutation: one person may approve twice.
ApproveTwice(i, p) ==
  /\ ~SelfApproval(i, p)
  /\ approvals' = [approvals EXCEPT ![i] = Append(@,
       [hash |-> shown[i], approver |-> p, at |-> now, ttl |-> RuleFor(content[i]).ttl])]
  /\ Ends(i, IF Len(approvals'[i]) >= required[i] THEN "APPROVED"
             ELSE "AWAITING_APPROVAL", logged[i])

ApproveRecorded(i, p) ==
  /\ ~SelfApproval(i, p)
  /\ p \notin Approvers(i)
  /\ approvals' = [approvals EXCEPT ![i] = Append(@,
       [hash |-> shown[i], approver |-> p, at |-> now, ttl |-> RuleFor(content[i]).ttl])]
  /\ Ends(i, IF Len(approvals'[i]) >= required[i] THEN "APPROVED"
             ELSE "AWAITING_APPROVAL", logged[i])

ApproveAction(i, p) ==
  /\ status[i] = "AWAITING_APPROVAL"
  /\ ApproveStaleHash(i) \/ ApproveSelf(i, p) \/ ApproveRecorded(i, p)
  /\ UNCHANGED <<requester, content, required, shown, effects, now>>

-----------------------------------------------------------------------------
(* Execution.                                                              *)

StillApproved(i) ==
  /\ \A k \in 1 .. Len(approvals[i]) : ~Expired(approvals[i][k])
  /\ content[i] = shown[i].content

\* An append or a validator raised.
ExecutionStops(i) ==
  /\ \/ Stops(i, "REVALIDATING")
     \/ /\ StillApproved(i)
        /\ LogMayFail
        /\ status' = [status EXCEPT ![i] = "EXECUTING"]
        /\ logged' = [logged EXCEPT ![i] = "REVALIDATING"]
  /\ UNCHANGED effects

ExecutionRefused(i) ==
  /\ \/ ~StillApproved(i) /\ Ends(i, "APPROVAL_EXPIRED", "REVALIDATING")
     \/ StillApproved(i) /\ Ends(i, "REJECTED", "REVALIDATING")
  /\ UNCHANGED effects

Effect(i) ==
  effects' = [effects EXCEPT ![i] = Append(@,
    [content |-> content[i], hash |-> shown[i], approvals |-> approvals[i]])]

\* Mutation: the effect comes before its announcement.
ExecutedUnannounced(i) ==
  /\ StillApproved(i)
  /\ Effect(i)
  /\ Ends(i, "EXECUTED", "REVALIDATING")

\* An executor that raises may have had its effect, or not.
Executed(i) ==
  /\ StillApproved(i)
  /\ \/ Effect(i) /\ Ends(i, "EXECUTED", "EXECUTING")
     \/ (Effect(i) \/ UNCHANGED effects) /\ Ends(i, "FAILED", "EXECUTING")

ExecuteAction(i) ==
  /\ status[i] = "APPROVED"
  /\ ExecutionStops(i) \/ ExecutionRefused(i) \/ Executed(i)
  /\ UNCHANGED <<requester, content, required, shown, approvals, now>>

CancelAction(i) ==
  /\ MayMove(status[i], "CANCELLED")
  /\ Ends(i, "CANCELLED", logged[i])
  /\ UNCHANGED <<requester, content, required, shown, approvals, effects, now>>

DayPasses ==
  /\ now < MaxNow
  /\ now' = now + 1
  /\ UNCHANGED <<status, requester, content, required, shown, approvals, logged, effects>>

MethodCall(i) ==
  \/ Propose(i)
  \/ Mutate(i)
  \/ SubmitForApproval(i)
  \/ \E p \in People : ApproveAction(i, p)
  \/ ExecuteAction(i)
  \/ CancelAction(i)

ApprovalsNext == (\E i \in Requests : MethodCall(i)) \/ DayPasses

ApprovalsSpec == ApprovalsInit /\ [][ApprovalsNext]_approvalVars

-----------------------------------------------------------------------------
(* Properties.                                                             *)

(* The executor of a request runs at most once, whatever raises, expires,  *)
(* is submitted again or is cancelled around it.                           *)
AtMostOneEffect == \A i \in Requests : Len(effects[i]) <= 1

(* An executor only runs on the content that was presented last, which at  *)
(* least one approver was shown, and on the approvals of as many different *)
(* people as the policy asks for that very content - however the request   *)
(* was changed, resubmitted and approved in pieces before.                 *)
EffectAuthorised(e) ==
  /\ e.content = e.hash.content
  /\ \E k \in 1 .. Len(e.approvals) : e.approvals[k].hash = e.hash
  /\ Len(e.approvals) >= RuleFor(e.content).required
  /\ \A j, k \in 1 .. Len(e.approvals) :
       e.approvals[j].approver = e.approvals[k].approver => j = k

EffectsAuthorised ==
  \A i \in Requests : \A k \in 1 .. Len(effects[i]) : EffectAuthorised(effects[i][k])

(* No effect is missing from the log: the executor is only called after the*)
(* event that announces it was written, so that after any failure the log  *)
(* still shows a request that had an effect as executing or concluded -    *)
(* never as one that is waiting to be approved or executed.                *)
EffectsAreOnFile ==
  \A i \in Requests :
    effects[i] # <<>> => logged[i] \in {"EXECUTING", "EXECUTED", "FAILED"}

(* "The approval binds to a hash of exactly what was shown" (schemas.py:7):*)
(* every approval an executor runs under was given to the content it runs  *)
(* on.                                                                     *)
ApprovalsBindToShown ==
  \A i \in Requests : \A k \in 1 .. Len(effects[i]) :
    LET e == effects[i][k] IN
    \A a \in 1 .. Len(e.approvals) : e.approvals[a].hash.content = e.content
=============================================================================
