---------------------------- MODULE Transactions ----------------------------
(***************************************************************************)
(* The transaction boundary: transactions/service.py with the whitelist of *)
(* transactions/state_machine.py, the preview of transactions/preview.py   *)
(* and the dispatch of execution/order_router.py.                          *)
(*                                                                         *)
(* One TransactionRecord per trade intent.  Every public method of         *)
(* TransactionService runs to completion on one thread, so it is one       *)
(* action here; what it reads from its providers (quote, portfolio, risk   *)
(* verdict) and what the broker answers are chosen by the action.  A       *)
(* provider or a broker that raises leaves the record in the state that    *)
(* the method had reached.                                                 *)
(***************************************************************************)
EXTENDS Integers, Sequences

CONSTANTS
  Intents,      \* trade intents (intent_id)
  Economics,    \* the economic fingerprints an intent may carry
  Terms,        \* everything of a fingerprint but size and limit price
  ValidTerms,   \* the terms validate_intent finds no error in
  Prices,       \* mid prices a quote may carry
  TTL,          \* approval_ttl_seconds
  MaxClock      \* bound of the model's clock

(* TradeIntent.economic_fingerprint(): sized by quantity or by notional,   *)
(* with a limit price or none (0), and all its other terms.                *)
FingerprintType ==
  [sizing : {"QUANTITY", "NOTIONAL"}, amount : Nat, limit : Nat, terms : Terms]

ASSUME EconomicsAssumption == Economics \subseteq FingerprintType
ASSUME PricesAssumption == Prices \subseteq Nat
ASSUME ClockAssumption == TTL \in Nat /\ MaxClock \in Nat

VARIABLES
  state,        \* [Intents -> States], "UNREGISTERED" before register_draft
  econ,         \* record.intent: the mutable intent's current fingerprint
  preview,      \* record.preview
  approval,     \* record.approval
  fingerprint,  \* record.approved_fingerprint
  orders,       \* orders sent for an intent, to the broker or handed off
  locked,       \* kill_switch.is_locked
  clock         \* wall clock

vars == <<state, econ, preview, approval, fingerprint, orders, locked, clock>>

-----------------------------------------------------------------------------
(* The whitelisted state machine.                                          *)

States == {"UNREGISTERED", "DRAFT", "VALIDATING", "REJECTED",
           "AWAITING_APPROVAL", "APPROVED", "REVALIDATING",
           "APPROVAL_EXPIRED", "SUBMITTING", "SUBMITTED",
           "PARTIALLY_FILLED", "FILLED", "CANCEL_REQUESTED", "CANCELLED",
           "ERROR", "KILL_SWITCHED"}

CanMove(from, to) ==
  \/ from = "DRAFT" /\ to \in {"VALIDATING", "CANCELLED"}
  \/ from = "VALIDATING"
       /\ to \in {"REJECTED", "AWAITING_APPROVAL", "KILL_SWITCHED", "ERROR"}
  \/ from = "AWAITING_APPROVAL"
       /\ to \in {"APPROVED", "REJECTED", "CANCELLED", "KILL_SWITCHED",
                  "APPROVAL_EXPIRED"}
  \/ from = "APPROVED"
       /\ to \in {"REVALIDATING", "CANCEL_REQUESTED", "KILL_SWITCHED"}
  \/ from = "REVALIDATING"
       /\ to \in {"SUBMITTING", "APPROVAL_EXPIRED", "REJECTED",
                  "KILL_SWITCHED", "ERROR"}
  \/ from = "APPROVAL_EXPIRED" /\ to \in {"VALIDATING", "CANCELLED"}
  \/ from = "SUBMITTING" /\ to \in {"SUBMITTED", "ERROR", "REJECTED"}
  \/ from = "SUBMITTED"
       /\ to \in {"PARTIALLY_FILLED", "FILLED", "CANCEL_REQUESTED", "ERROR"}
  \/ from = "PARTIALLY_FILLED" /\ to \in {"FILLED", "CANCEL_REQUESTED", "ERROR"}
  \/ from = "CANCEL_REQUESTED"
       /\ to \in {"CANCELLED", "FILLED", "PARTIALLY_FILLED", "ERROR"}

\* Mutation: _set_state without assert_transition.
MovedUnchecked(from, to) == to

\* _set_state: an illegal move raises and leaves the record where it was.
Moved(from, to) == IF CanMove(from, to) THEN to ELSE from

SetState(i, to) == state' = [state EXCEPT ![i] = to]

-----------------------------------------------------------------------------
(* Previews: what a human reviews.                                         *)

Liquidity == {"PASS", "WARN", "FAIL"}
Quotes == [mid : Prices, liquidity : Liquidity]

(* The risk evaluator's verdict.  The risk governor trips the kill switch  *)
(* while it evaluates ("TRIP"), and never passes a trade when it does.     *)
Verdicts == {"PASS", "FAIL", "TRIP"}

\* limit_price or quote.mid
Price(e, q) == IF e.limit # 0 THEN e.limit ELSE q.mid

Quantity(e, price) ==
  IF e.sizing = "QUANTITY" THEN e.amount
  ELSE IF price = 0 THEN 0 ELSE e.amount \div price

(* intent_hash covers the whole fingerprint and the estimated price.  The  *)
(* quote timestamp, user and risk record it also covers only make hashes   *)
(* of different previews differ: see Approve.                              *)
HashType == [economics : FingerprintType, price : Nat]

PreviewType == [hash : HashType, quantity : Nat, liquidity : Liquidity,
                risk : BOOLEAN, valid : BOOLEAN]
NoPreview == [hash |-> "NONE"]

BuildPreview(e, q, verdict) ==
  [hash      |-> [economics |-> e, price |-> Price(e, q)],
   quantity  |-> Quantity(e, Price(e, q)),
   liquidity |-> q.liquidity,
   risk      |-> verdict = "PASS",
   valid     |-> e.terms \in ValidTerms]

Blocked(p) == ~p.valid \/ ~p.risk \/ p.liquidity = "FAIL" \/ p.quantity = 0

\* |a - b| / b > MATERIAL_PRICE_DRIFT_PCT = 0.005, for b > 0
PriceDrifted(a, b) == b > 0 /\ (200 * (a - b) > b \/ 200 * (b - a) > b)

\* Mutation: a changed quantity is no drift.
DriftedButForQuantity(prior, fresh) ==
  \/ PriceDrifted(fresh.hash.price, prior.hash.price)
  \/ fresh.liquidity # prior.liquidity
  \/ fresh.risk # prior.risk

Drifted(prior, fresh) ==
  \/ PriceDrifted(fresh.hash.price, prior.hash.price)
  \/ fresh.liquidity # prior.liquidity
  \/ fresh.risk # prior.risk
  \/ fresh.quantity # prior.quantity

-----------------------------------------------------------------------------
(* Approvals and orders.                                                   *)

ApprovalType == [hash : HashType, at : Nat]
NoApproval == [hash |-> "NONE"]
NoFingerprint == [sizing |-> "NONE"]

ApprovalExpired(i) == clock - approval[i].at > TTL

OrderType == [channel : {"BROKER", "EXTERNAL"}, quantity : Nat, price : Nat,
              economics : FingerprintType, authority : ApprovalType, at : Nat]

\* The order cut from a fresh preview, with the approval it was sent under.
Order(i, channel, fresh) ==
  [channel |-> channel, quantity |-> fresh.quantity, price |-> fresh.hash.price,
   economics |-> econ[i], authority |-> approval[i], at |-> clock]

SendOrder(i, channel, fresh) ==
  orders' = [orders EXCEPT ![i] = Append(@, Order(i, channel, fresh))]

-----------------------------------------------------------------------------
TypeOK ==
  /\ state \in [Intents -> States]
  /\ econ \in [Intents -> FingerprintType]
  /\ preview \in [Intents -> PreviewType \union {NoPreview}]
  /\ approval \in [Intents -> ApprovalType \union {NoApproval}]
  /\ fingerprint \in [Intents -> FingerprintType \union {NoFingerprint}]
  /\ orders \in [Intents -> Seq(OrderType)]
  /\ locked \in BOOLEAN
  /\ clock \in Nat

Init ==
  /\ state = [i \in Intents |-> "UNREGISTERED"]
  /\ econ \in [Intents -> Economics]
  /\ preview = [i \in Intents |-> NoPreview]
  /\ approval = [i \in Intents |-> NoApproval]
  /\ fingerprint = [i \in Intents |-> NoFingerprint]
  /\ orders = [i \in Intents |-> <<>>]
  /\ locked = FALSE
  /\ clock = 0

-----------------------------------------------------------------------------
(* Drafting and preview.                                                   *)

RegisterDraft(i) ==
  /\ state[i] = "UNREGISTERED"
  /\ SetState(i, "DRAFT")
  /\ UNCHANGED <<econ, preview, approval, fingerprint, orders, locked, clock>>

(* The record holds the caller's TradeIntent object, not a copy: whoever   *)
(* still has a reference may change its economics at any time.             *)
MutateIntent(i) ==
  /\ state[i] # "UNREGISTERED"
  /\ \E e \in Economics \ {econ[i]} : econ' = [econ EXCEPT ![i] = e]
  /\ UNCHANGED <<state, preview, approval, fingerprint, orders, locked, clock>>

PreviewHalted(i) ==
  /\ locked
  /\ SetState(i, Moved("VALIDATING", "KILL_SWITCHED"))
  /\ UNCHANGED <<preview, locked>>

\* snapshot, evaluate or get_quote raised: the record stays in VALIDATING.
PreviewFailed(i) ==
  /\ ~locked
  /\ \E v \in Verdicts : locked' = (v = "TRIP")
  /\ SetState(i, "VALIDATING")
  /\ UNCHANGED preview

PreviewBuilt(i) ==
  /\ ~locked
  /\ \E v \in Verdicts, q \in Quotes :
       LET p == BuildPreview(econ[i], q, v) IN
       /\ locked' = (v = "TRIP")
       /\ preview' = [preview EXCEPT ![i] = p]
       /\ SetState(i, Moved("VALIDATING", IF Blocked(p) THEN "REJECTED"
                                          ELSE "AWAITING_APPROVAL"))

\* Mutation: the transition is asked for when the preview has been stored.
CreatePreviewMovedLast(i) ==
  /\ state[i] # "UNREGISTERED"
  /\ ~locked
  /\ \E v \in Verdicts, q \in Quotes :
       /\ locked' = (v = "TRIP")
       /\ preview' = [preview EXCEPT ![i] = BuildPreview(econ[i], q, v)]
  /\ SetState(i, Moved(Moved(state[i], "VALIDATING"), "AWAITING_APPROVAL"))
  /\ UNCHANGED <<econ, approval, fingerprint, orders, clock>>

CreatePreview(i) ==
  /\ CanMove(state[i], "VALIDATING")
  /\ PreviewHalted(i) \/ PreviewFailed(i) \/ PreviewBuilt(i)
  /\ UNCHANGED <<econ, approval, fingerprint, orders, clock>>

-----------------------------------------------------------------------------
(* Approval.  The presented hash is the current preview's or some other    *)
(* (of an older preview, say): nothing else about it matters.              *)

\* Mutation: the intent hash is taken for the fingerprint.
ApproveMixingHashes(i) ==
  /\ approval' = [approval EXCEPT ![i] = [hash |-> preview[i].hash, at |-> clock]]
  /\ fingerprint' = [fingerprint EXCEPT ![i] = preview[i].hash]
  /\ SetState(i, Moved(state[i], "APPROVED"))

(* The approval and the fingerprint of the CURRENT intent are stored before *)
(* the state is moved, and stay when the move turns out to be illegal.     *)
ApproveShown(i) ==
  /\ approval' = [approval EXCEPT ![i] = [hash |-> preview[i].hash, at |-> clock]]
  /\ fingerprint' = [fingerprint EXCEPT ![i] = econ[i]]
  /\ SetState(i, Moved(state[i], "APPROVED"))

ApproveOther(i) ==
  /\ SetState(i, Moved(state[i], "APPROVAL_EXPIRED"))
  /\ UNCHANGED <<approval, fingerprint>>

Approve(i) ==
  /\ preview[i] # NoPreview
  /\ ApproveShown(i) \/ ApproveOther(i)
  /\ UNCHANGED <<econ, preview, orders, locked, clock>>

-----------------------------------------------------------------------------
(* Revalidation, shared by execute and claim_for_external_execution.       *)

EntersRevalidation(i) ==
  /\ approval[i] # NoApproval
  /\ preview[i] # NoPreview
  /\ CanMove(state[i], "REVALIDATING")

\* Mutation: the kill switch is left to the router.
ApprovalStandsThoughHalted(i) == ~ApprovalExpired(i) /\ econ[i] = fingerprint[i]

ApprovalStands(i) ==
  /\ ~locked
  /\ ~ApprovalExpired(i)
  /\ econ[i] = fingerprint[i]

RevalidationHalted(i) ==
  /\ locked
  /\ SetState(i, Moved("REVALIDATING", "KILL_SWITCHED"))
  /\ UNCHANGED <<preview, locked>>

RevalidationExpired(i) ==
  /\ ~locked
  /\ ~ApprovalStands(i)
  /\ SetState(i, Moved("REVALIDATING", "APPROVAL_EXPIRED"))
  /\ UNCHANGED <<preview, locked>>

RevalidationFailed(i) ==
  /\ ApprovalStands(i)
  /\ \E v \in Verdicts : locked' = (v = "TRIP")
  /\ SetState(i, "REVALIDATING")
  /\ UNCHANGED preview

\* A fresh preview is built; it drifted or is blocked.
RevalidationRefused(i) ==
  /\ ApprovalStands(i)
  /\ \E v \in Verdicts, q \in Quotes :
       LET fresh == BuildPreview(econ[i], q, v) IN
       /\ Drifted(preview[i], fresh) \/ Blocked(fresh)
       /\ locked' = (v = "TRIP")
       /\ preview' = [preview EXCEPT ![i] = fresh]
       /\ SetState(i, Moved("REVALIDATING",
                            IF Drifted(preview[i], fresh)
                            THEN "APPROVAL_EXPIRED" ELSE "REJECTED"))

Refused(i) ==
  /\ \/ RevalidationHalted(i)
     \/ RevalidationExpired(i)
     \/ RevalidationFailed(i)
     \/ RevalidationRefused(i)
  /\ UNCHANGED orders

Cleared(i, fresh, v) ==
  /\ ApprovalStands(i)
  /\ ~Drifted(preview[i], fresh)
  /\ ~Blocked(fresh)
  /\ locked' = (v = "TRIP")
  /\ preview' = [preview EXCEPT ![i] = fresh]

-----------------------------------------------------------------------------
(* Execution: in process through the order router, or by hand-off.         *)

RouterForwards(fresh) == ~locked' /\ fresh.quantity > 0

\* The broker's answer; "RAISED" may come before or after it took the order.
BrokerReplies == {"ACCEPTED", "REJECTED", "RAISED"}

Route(i, fresh) ==
  \E reply \in IF RouterForwards(fresh) THEN BrokerReplies ELSE {"REJECTED"} :
    \/ /\ reply = "REJECTED"
       /\ SetState(i, Moved("SUBMITTING", "REJECTED"))
       /\ UNCHANGED orders
    \/ /\ reply = "ACCEPTED"
       /\ SetState(i, Moved("SUBMITTING", "SUBMITTED"))
       /\ SendOrder(i, "BROKER", fresh)
    \/ /\ reply = "RAISED"
       /\ SetState(i, "SUBMITTING")
       /\ UNCHANGED orders \/ SendOrder(i, "BROKER", fresh)

Execute(i) ==
  /\ EntersRevalidation(i)
  /\ \/ Refused(i)
     \/ \E v \in Verdicts, q \in Quotes :
          LET fresh == BuildPreview(econ[i], q, v) IN
          Cleared(i, fresh, v) /\ Route(i, fresh)
  /\ UNCHANGED <<econ, approval, fingerprint, clock>>

(* SUBMITTING is entered and left inside the call: nothing in between can   *)
(* raise.                                                                  *)
ClaimForExternalExecution(i) ==
  /\ EntersRevalidation(i)
  /\ \/ Refused(i)
     \/ \E v \in Verdicts, q \in Quotes :
          LET fresh == BuildPreview(econ[i], q, v) IN
          /\ Cleared(i, fresh, v)
          /\ SetState(i, Moved("SUBMITTING", "SUBMITTED"))
          /\ SendOrder(i, "EXTERNAL", fresh)
  /\ UNCHANGED <<econ, approval, fingerprint, clock>>

-----------------------------------------------------------------------------
(* Execution reports and cancellation.                                     *)

(* _REPORT_TARGET_BY_STATUS, without ACCEPTED: that report is only logged. *)
ReportStatuses == {"PARTIALLY_FILLED", "FILLED", "CANCELLED", "REJECTED", "ERROR"}
ReportTarget(status) == IF status = "REJECTED" THEN "ERROR" ELSE status

\* Mutation: a report is believed whatever the record says.
ReportBelieved(from, target) == target

(* A CANCELLED report first passes through CANCEL_REQUESTED where it may.  *)
(* A report the whitelist cannot absorb is logged and changes nothing.     *)
ReportedState(from, target) ==
  LET via == IF target = "CANCELLED" THEN Moved(from, "CANCEL_REQUESTED") ELSE from
  IN Moved(via, target)

RecordExecutionReport(i, status) ==
  /\ state[i] # "UNREGISTERED"
  /\ SetState(i, ReportedState(state[i], ReportTarget(status)))
  /\ UNCHANGED <<econ, preview, approval, fingerprint, orders, locked, clock>>

CancelTarget(from) ==
  IF from \in {"SUBMITTED", "PARTIALLY_FILLED"} THEN "CANCEL_REQUESTED" ELSE "CANCELLED"

Cancel(i) ==
  /\ CanMove(state[i], CancelTarget(state[i]))
  /\ SetState(i, CancelTarget(state[i]))
  /\ UNCHANGED <<econ, preview, approval, fingerprint, orders, locked, clock>>

-----------------------------------------------------------------------------
(* The environment: the kill switch (modelled by KillSwitch) and time.     *)

SwitchMoves ==
  /\ locked' = ~locked
  /\ UNCHANGED <<state, econ, preview, approval, fingerprint, orders, clock>>

Tick ==
  /\ clock < MaxClock
  /\ clock' = clock + 1
  /\ UNCHANGED <<state, econ, preview, approval, fingerprint, orders, locked>>

Operation(i) ==
  \/ RegisterDraft(i)
  \/ MutateIntent(i)
  \/ CreatePreview(i)
  \/ Approve(i)
  \/ Execute(i)
  \/ ClaimForExternalExecution(i)
  \/ \E s \in ReportStatuses : RecordExecutionReport(i, s)
  \/ Cancel(i)

Next == (\E i \in Intents : Operation(i)) \/ SwitchMoves \/ Tick

Spec == Init /\ [][Next]_vars

-----------------------------------------------------------------------------
(* Properties.                                                             *)

OrderStates == {"SUBMITTING", "SUBMITTED", "PARTIALLY_FILLED", "FILLED",
                "CANCEL_REQUESTED", "CANCELLED", "ERROR"}

(* However previews, approvals, reports, cancels and failures interleave,  *)
(* one intent is sent at most once, counting both the router and the       *)
(* hand-off ("only one claim can ever succeed", service.py:206).           *)
AtMostOneOrder == \A i \in Intents : Len(orders[i]) <= 1

(* A record reads as submitted or filled only if an order was sent, and an *)
(* intent whose order was sent never goes back to a state from which it    *)
(* could be previewed, approved or executed again, nor to one that says it *)
(* was refused.                                                            *)
StateTellsOfOrder ==
  \A i \in Intents :
    /\ state[i] \in {"SUBMITTED", "PARTIALLY_FILLED", "FILLED", "CANCEL_REQUESTED"}
         => orders[i] # <<>>
    /\ orders[i] # <<>> => state[i] \in OrderStates

(* Every order was sent while its approval was alive, for the quantity the *)
(* approved preview showed and within half a percent of its price - also   *)
(* when the intent was changed between preview and approval, or an approve *)
(* that raised has replaced approval and fingerprint.  Of the other terms  *)
(* this is not true: ApprovalBindsToReviewed.                              *)
OrderAuthorised(o) ==
  /\ o.at - o.authority.at <= TTL
  /\ o.quantity = Quantity(o.authority.hash.economics, o.authority.hash.price)
  /\ ~PriceDrifted(o.price, o.authority.hash.price)

OrdersAuthorised ==
  \A i \in Intents : \A k \in 1 .. Len(orders[i]) : OrderAuthorised(orders[i][k])

(* While a record is APPROVED, its approval is of the preview it holds and *)
(* not one left over from an earlier preview: approvals are never cleared, *)
(* approve stores them before it may raise, and previews are built again.  *)
ApprovalIsCurrent ==
  \A i \in Intents :
    state[i] = "APPROVED" =>
      /\ preview[i] # NoPreview
      /\ approval[i] # NoApproval
      /\ approval[i].hash = preview[i].hash

(* "Binds a human approval to the exact reviewed economics.  Any mutation  *)
(* [...] changes the hash and voids the approval" (schemas.py:241): an     *)
(* order carries the economics that its approver was shown.  Violated: the *)
(* fingerprint is taken when approve is called, of what the intent is by   *)
(* then.                                                                   *)
ApprovalBindsToReviewed ==
  \A i \in Intents : \A k \in 1 .. Len(orders[i]) :
    orders[i][k].economics = orders[i][k].authority.hash.economics

(* No order leaves while trading is halted, not even in the call whose own *)
(* risk evaluation trips the switch.                                       *)
NoOrderWhileHalted == [][orders' # orders => ~locked /\ ~locked']_vars
=============================================================================
