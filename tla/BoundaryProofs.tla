--------------------------- MODULE BoundaryProofs ---------------------------
(* Machine-checked proofs about Transactions, for any set of intents and   *)
(* economics, any prices, any approval TTL and an unbounded clock; and     *)
(* about ExecutionBoundary, for any trades, any number of requests on      *)
(* their way and any faults of the network and the executor.  Where EDGE   *)
(* restarts, what is proved of it says so.                                 *)
EXTENDS ExecutionBoundary, TLAPS

-----------------------------------------------------------------------------
(* Operators of the model.                                                 *)

(* Quantity yields a natural number: sizing never goes negative.           *)
LEMMA QuantityNat ==
  ASSUME NEW e \in FingerprintType, NEW p \in Nat
  PROVE  Quantity(e, p) \in Nat
<1>1. CASE e.sizing = "QUANTITY" \/ p = 0
  BY <1>1 DEF Quantity, FingerprintType
<1>2. CASE ~(e.sizing = "QUANTITY" \/ p = 0)
  <2>1. e.amount \in Nat /\ p \in Nat /\ p > 0
    BY <1>2 DEF FingerprintType
  <2>2. e.amount \div p \in Nat
    BY <2>1
  <2> QED
    BY <1>2, <2>2 DEF Quantity
<1> QED
  BY <1>1, <1>2

(* A preview built from a well-formed intent and quote is well-formed, and *)
(* it shows the quantity its own hash determines.                          *)
LEMMA PreviewBuiltType ==
  ASSUME NEW e \in FingerprintType, NEW q \in Quotes, NEW v \in Verdicts
  PROVE  /\ BuildPreview(e, q, v) \in PreviewType
         /\ BuildPreview(e, q, v) # NoPreview
         /\ BuildPreview(e, q, v).hash.economics = e
         /\ BuildPreview(e, q, v).quantity
              = Quantity(e, BuildPreview(e, q, v).hash.price)
         /\ BuildPreview(e, q, v).risk <=> v = "PASS"
<1>1. Price(e, q) \in Nat
  BY PricesAssumption DEF Price, Quotes, FingerprintType
<1>2. Quantity(e, Price(e, q)) \in Nat
  BY <1>1, QuantityNat
<1>3. BuildPreview(e, q, v) \in PreviewType
  BY <1>1, <1>2 DEF BuildPreview, PreviewType, HashType, Quotes
<1>4. BuildPreview(e, q, v).hash \in HashType
  BY <1>3 DEF PreviewType
<1>5. BuildPreview(e, q, v) # NoPreview
  BY DEF BuildPreview, NoPreview
<1> QED
  BY <1>3, <1>5 DEF BuildPreview

(* A stored preview is not the absent one, so its fields are there.        *)
LEMMA NoPreviewIsNone == NoPreview \notin PreviewType
BY DEF NoPreview, PreviewType

LEMMA NoApprovalIsNone == NoApproval \notin ApprovalType
BY DEF NoApproval, ApprovalType

(* Sending one more order for an intent keeps the order log well-formed.   *)
LEMMA SendOrderType ==
  ASSUME NEW i \in Intents, TypeOK, approval[i] \in ApprovalType,
         NEW c \in {"BROKER", "EXTERNAL"}, NEW fresh \in PreviewType,
         SendOrder(i, c, fresh)
  PROVE  /\ orders' \in [Intents -> Seq(OrderType)]
         /\ Order(i, c, fresh) \in OrderType
<1>1. fresh.quantity \in Nat /\ fresh.hash.price \in Nat
  BY DEF PreviewType, HashType
<1>2. econ[i] \in FingerprintType /\ clock \in Nat
  BY DEF TypeOK
<1>3. Order(i, c, fresh) \in OrderType
  BY <1>1, <1>2 DEF Order, OrderType
<1> QED
  BY <1>3 DEF TypeOK, SendOrder

LEMMA MovedType ==
  ASSUME NEW from \in States, NEW to \in States
  PROVE  Moved(from, to) \in States
BY DEF Moved

LEMMA SetStateType ==
  ASSUME TypeOK, NEW i \in Intents, NEW to \in States, SetState(i, to)
  PROVE  state' \in [Intents -> States]
BY DEF SetState, TypeOK

-----------------------------------------------------------------------------
(* Type correctness.                                                       *)

LEMMA InitType == Init => TypeOK
<1> SUFFICES ASSUME Init PROVE TypeOK
  OBVIOUS
<1>1. state \in [Intents -> States]
  BY DEF Init, States
<1>2. econ \in [Intents -> FingerprintType]
  BY EconomicsAssumption DEF Init
<1>3. orders \in [Intents -> Seq(OrderType)]
  BY DEF Init
<1> QED
  BY <1>1, <1>2, <1>3 DEF Init, TypeOK

LEMMA CreatePreviewType ==
  ASSUME TypeOK, NEW i \in Intents, CreatePreview(i)
  PROVE  TypeOK'
<1>1. CASE PreviewHalted(i)
  <2>1. Moved("VALIDATING", "KILL_SWITCHED") \in States
    BY MovedType DEF States
  <2> QED
    BY <1>1, <2>1, SetStateType DEF CreatePreview, PreviewHalted, TypeOK
<1>2. CASE PreviewFailed(i)
  <2>1. "VALIDATING" \in States
    BY DEF States
  <2> QED
    BY <1>2, <2>1, SetStateType DEF CreatePreview, PreviewFailed, TypeOK
<1>3. CASE PreviewBuilt(i)
  <2>1. PICK v \in Verdicts, q \in Quotes :
          LET p == BuildPreview(econ[i], q, v) IN
          /\ locked' = (v = "TRIP")
          /\ preview' = [preview EXCEPT ![i] = p]
          /\ SetState(i, Moved("VALIDATING", IF Blocked(p) THEN "REJECTED"
                                             ELSE "AWAITING_APPROVAL"))
    BY <1>3 DEF PreviewBuilt
  <2> DEFINE p == BuildPreview(econ[i], q, v)
             t == IF Blocked(p) THEN "REJECTED" ELSE "AWAITING_APPROVAL"
  <2>2. p \in PreviewType
    BY PreviewBuiltType DEF TypeOK
  <2>3. Moved("VALIDATING", t) \in States
    BY MovedType DEF States
  <2>4. state' \in [Intents -> States]
    BY <2>1, <2>3, SetStateType
  <2> QED
    BY <2>1, <2>2, <2>4 DEF CreatePreview, TypeOK
<1> QED
  BY <1>1, <1>2, <1>3 DEF CreatePreview

LEMMA ApproveType ==
  ASSUME TypeOK, NEW i \in Intents, Approve(i)
  PROVE  TypeOK'
<1>0. state[i] \in States
  BY DEF TypeOK
<1>1. preview[i] \in PreviewType
  BY DEF Approve, TypeOK
<1>2. CASE ApproveShown(i)
  <2>1. Moved(state[i], "APPROVED") \in States
    <3>1. "APPROVED" \in States
      BY DEF States
    <3> QED
      BY <1>0, <3>1, MovedType
  <2>2. [hash |-> preview[i].hash, at |-> clock] \in ApprovalType
    BY <1>1 DEF PreviewType, ApprovalType, TypeOK
  <2> QED
    BY <1>2, <2>1, <2>2, SetStateType DEF Approve, ApproveShown, TypeOK
<1>3. CASE ApproveOther(i)
  <2>1. Moved(state[i], "APPROVAL_EXPIRED") \in States
    <3>1. "APPROVAL_EXPIRED" \in States
      BY DEF States
    <3> QED
      BY <1>0, <3>1, MovedType
  <2> QED
    BY <1>3, <2>1, SetStateType DEF Approve, ApproveOther, TypeOK
<1> QED
  BY <1>2, <1>3 DEF Approve

(* What execute and claim have in common: a refused revalidation.          *)
LEMMA RefusedType ==
  ASSUME TypeOK, NEW i \in Intents, Refused(i),
         UNCHANGED <<econ, approval, fingerprint, clock>>
  PROVE  TypeOK'
<1>1. CASE RevalidationHalted(i)
  <2>1. Moved("REVALIDATING", "KILL_SWITCHED") \in States
    BY MovedType DEF States
  <2> QED
    BY <1>1, <2>1, SetStateType DEF Refused, RevalidationHalted, TypeOK
<1>2. CASE RevalidationExpired(i)
  <2>1. Moved("REVALIDATING", "APPROVAL_EXPIRED") \in States
    BY MovedType DEF States
  <2> QED
    BY <1>2, <2>1, SetStateType DEF Refused, RevalidationExpired, TypeOK
<1>3. CASE RevalidationFailed(i)
  <2>1. "REVALIDATING" \in States
    BY DEF States
  <2> QED
    BY <1>3, <2>1, SetStateType DEF Refused, RevalidationFailed, TypeOK
<1>4. CASE RevalidationRefused(i)
  <2>1. PICK v \in Verdicts, q \in Quotes :
          LET fresh == BuildPreview(econ[i], q, v) IN
          /\ locked' = (v = "TRIP")
          /\ preview' = [preview EXCEPT ![i] = fresh]
          /\ SetState(i, Moved("REVALIDATING",
                               IF Drifted(preview[i], fresh)
                               THEN "APPROVAL_EXPIRED" ELSE "REJECTED"))
    BY <1>4 DEF RevalidationRefused
  <2> DEFINE fresh == BuildPreview(econ[i], q, v)
             t == IF Drifted(preview[i], fresh) THEN "APPROVAL_EXPIRED" ELSE "REJECTED"
  <2>2. fresh \in PreviewType
    BY PreviewBuiltType DEF TypeOK
  <2>3. Moved("REVALIDATING", t) \in States
    BY MovedType DEF States
  <2>4. state' \in [Intents -> States]
    BY <2>1, <2>3, SetStateType
  <2> QED
    BY <2>1, <2>2, <2>4 DEF Refused, TypeOK
<1> QED
  BY <1>1, <1>2, <1>3, <1>4 DEF Refused

LEMMA ExecuteType ==
  ASSUME TypeOK, NEW i \in Intents, Execute(i)
  PROVE  TypeOK'
<1>0. UNCHANGED <<econ, approval, fingerprint, clock>> /\ approval[i] \in ApprovalType
  BY DEF Execute, EntersRevalidation, TypeOK
<1>1. CASE Refused(i)
  BY <1>0, <1>1, RefusedType
<1>2. ASSUME NEW v \in Verdicts, NEW q \in Quotes,
             Cleared(i, BuildPreview(econ[i], q, v), v),
             Route(i, BuildPreview(econ[i], q, v))
      PROVE  TypeOK'
  <2> DEFINE fresh == BuildPreview(econ[i], q, v)
  <2>1. fresh \in PreviewType
    BY PreviewBuiltType DEF TypeOK
  <2>2. state' \in [Intents -> States] /\ orders' \in [Intents -> Seq(OrderType)]
    <3>1. /\ Moved("SUBMITTING", "REJECTED") \in States
          /\ Moved("SUBMITTING", "SUBMITTED") \in States
          /\ "SUBMITTING" \in States
      BY MovedType DEF States
    <3>2. \E t \in States : SetState(i, t)
      BY <1>2, <3>1 DEF Route
    <3>3. UNCHANGED orders \/ SendOrder(i, "BROKER", fresh)
      BY <1>2 DEF Route
    <3>4. orders' \in [Intents -> Seq(OrderType)]
      BY <1>0, <2>1, <3>3, SendOrderType DEF TypeOK
    <3> QED
      BY <3>2, <3>4, SetStateType
  <2>3. preview' \in [Intents -> PreviewType \union {NoPreview}] /\ locked' \in BOOLEAN
    BY <1>2, <2>1 DEF Cleared, TypeOK
  <2> QED
    BY <1>0, <2>2, <2>3 DEF TypeOK
<1> QED
  BY <1>1, <1>2 DEF Execute

LEMMA ClaimType ==
  ASSUME TypeOK, NEW i \in Intents, ClaimForExternalExecution(i)
  PROVE  TypeOK'
<1>0. UNCHANGED <<econ, approval, fingerprint, clock>> /\ approval[i] \in ApprovalType
  BY DEF ClaimForExternalExecution, EntersRevalidation, TypeOK
<1>1. CASE Refused(i)
  BY <1>0, <1>1, RefusedType
<1>2. ASSUME NEW v \in Verdicts, NEW q \in Quotes,
             Cleared(i, BuildPreview(econ[i], q, v), v),
             SetState(i, Moved("SUBMITTING", "SUBMITTED")),
             SendOrder(i, "EXTERNAL", BuildPreview(econ[i], q, v))
      PROVE  TypeOK'
  <2> DEFINE fresh == BuildPreview(econ[i], q, v)
  <2>1. fresh \in PreviewType
    BY PreviewBuiltType DEF TypeOK
  <2>2. Moved("SUBMITTING", "SUBMITTED") \in States
    BY MovedType DEF States
  <2>3. state' \in [Intents -> States]
    BY <1>2, <2>2, SetStateType
  <2>4. orders' \in [Intents -> Seq(OrderType)]
    BY <1>0, <1>2, <2>1, SendOrderType
  <2>5. preview' \in [Intents -> PreviewType \union {NoPreview}] /\ locked' \in BOOLEAN
    BY <1>2, <2>1 DEF Cleared, TypeOK
  <2> QED
    BY <1>0, <2>3, <2>4, <2>5 DEF TypeOK
<1> QED
  BY <1>1, <1>2 DEF ClaimForExternalExecution

LEMMA ReportType ==
  ASSUME TypeOK, NEW i \in Intents, NEW s \in ReportStatuses,
         RecordExecutionReport(i, s)
  PROVE  TypeOK'
<1>1. state[i] \in States
  BY DEF TypeOK
<1>2. ReportTarget(s) \in States /\ "CANCEL_REQUESTED" \in States
  BY DEF ReportStatuses, ReportTarget, States
<1>3. ReportedState(state[i], ReportTarget(s)) \in States
  BY <1>1, <1>2, MovedType DEF ReportedState
<1> QED
  BY <1>3, SetStateType DEF RecordExecutionReport, TypeOK

LEMMA CancelType ==
  ASSUME TypeOK, NEW i \in Intents, Cancel(i)
  PROVE  TypeOK'
<1>1. CancelTarget(state[i]) \in States
  BY DEF CancelTarget, States
<1> QED
  BY <1>1, SetStateType DEF Cancel, TypeOK

LEMMA TypeStep == TypeOK /\ [Next]_vars => TypeOK'
<1> SUFFICES ASSUME TypeOK, [Next]_vars PROVE TypeOK'
  OBVIOUS
<1>1. ASSUME NEW i \in Intents, Operation(i) PROVE TypeOK'
  <2>1. CASE RegisterDraft(i)
    <3>1. "DRAFT" \in States
      BY DEF States
    <3> QED
      BY <2>1, <3>1, SetStateType DEF RegisterDraft, TypeOK
  <2>2. CASE MutateIntent(i)
    BY <2>2, EconomicsAssumption DEF MutateIntent, TypeOK
  <2>3. CASE CreatePreview(i)
    BY <2>3, CreatePreviewType
  <2>4. CASE Approve(i)
    BY <2>4, ApproveType
  <2>5. CASE Execute(i)
    BY <2>5, ExecuteType
  <2>6. CASE ClaimForExternalExecution(i)
    BY <2>6, ClaimType
  <2>7. CASE \E s \in ReportStatuses : RecordExecutionReport(i, s)
    BY <2>7, ReportType
  <2>8. CASE Cancel(i)
    BY <2>8, CancelType
  <2> QED
    BY <1>1, <2>1, <2>2, <2>3, <2>4, <2>5, <2>6, <2>7, <2>8 DEF Operation
<1>2. CASE SwitchMoves
  BY <1>2 DEF SwitchMoves, TypeOK
<1>3. CASE Tick
  BY <1>3 DEF Tick, TypeOK
<1>4. CASE UNCHANGED vars
  BY <1>4 DEF vars, TypeOK
<1> QED
  BY <1>1, <1>2, <1>3, <1>4 DEF Next

(* Every reachable state of every instance is well-typed.                  *)
THEOREM TypeCorrect == Spec => []TypeOK
BY InitType, TypeStep, PTL DEF Spec

-----------------------------------------------------------------------------
(* The safety invariants.  They are inductive together: that an intent is  *)
(* sent once needs StateTellsOfOrder (only an APPROVED record is sent, and *)
(* one that was sent never is APPROVED again); that an order is authorised *)
(* needs ApprovalIsCurrent (the preview the fresh one is compared with is  *)
(* the approved one).  RecordInv is their conjunction for one intent.      *)

RecordInv(i) ==
  /\ state[i] \in {"SUBMITTED", "PARTIALLY_FILLED", "FILLED", "CANCEL_REQUESTED"}
       => orders[i] # <<>>
  /\ orders[i] # <<>> => state[i] \in OrderStates
  /\ Len(orders[i]) <= 1
  /\ \A k \in 1 .. Len(orders[i]) : OrderAuthorised(orders[i][k])
  /\ preview[i] # NoPreview =>
       preview[i].quantity
         = Quantity(preview[i].hash.economics, preview[i].hash.price)
  /\ state[i] = "APPROVED" =>
       /\ preview[i] # NoPreview
       /\ approval[i] # NoApproval
       /\ approval[i].hash = preview[i].hash

IInv == TypeOK /\ \A i \in Intents : RecordInv(i)

LEMMA IInvImplies ==
  IInv => /\ AtMostOneOrder
          /\ StateTellsOfOrder
          /\ OrdersAuthorised
          /\ ApprovalIsCurrent
BY DEF IInv, RecordInv, AtMostOneOrder, StateTellsOfOrder, OrdersAuthorised,
       ApprovalIsCurrent

LEMMA RecordInit ==
  ASSUME Init, NEW i \in Intents
  PROVE  RecordInv(i)
BY DEF Init, RecordInv

(* A step that leaves a record's state, preview, approval and orders alone *)
(* keeps its invariant.                                                    *)
LEMMA RecordFrame ==
  ASSUME NEW j \in Intents, RecordInv(j),
         state'[j] = state[j], preview'[j] = preview[j],
         approval'[j] = approval[j], orders'[j] = orders[j]
  PROVE  RecordInv(j)'
BY DEF RecordInv, OrderAuthorised

(* An operation on one intent touches no other intent's record.            *)
LEMMA OperationFrame ==
  ASSUME TypeOK, NEW i \in Intents, Operation(i), NEW j \in Intents, j # i
  PROVE  /\ state'[j] = state[j] /\ preview'[j] = preview[j]
         /\ approval'[j] = approval[j] /\ orders'[j] = orders[j]
<1> USE DEF TypeOK, SetState, SendOrder
<1>1. CASE RegisterDraft(i) \/ MutateIntent(i) \/ Cancel(i)
  BY <1>1 DEF RegisterDraft, MutateIntent, Cancel
<1>2. CASE CreatePreview(i)
  BY <1>2 DEF CreatePreview, PreviewHalted, PreviewFailed, PreviewBuilt
<1>3. CASE Approve(i)
  BY <1>3 DEF Approve, ApproveShown, ApproveOther
<1>4. CASE Refused(i) /\ UNCHANGED <<econ, approval, fingerprint, clock>>
  BY <1>4 DEF Refused, RevalidationHalted, RevalidationExpired,
              RevalidationFailed, RevalidationRefused
<1>5. CASE Execute(i)
  BY <1>4, <1>5 DEF Execute, Cleared, Route
<1>6. CASE ClaimForExternalExecution(i)
  BY <1>4, <1>6 DEF ClaimForExternalExecution, Cleared
<1>7. CASE \E s \in ReportStatuses : RecordExecutionReport(i, s)
  BY <1>7 DEF RecordExecutionReport
<1> QED
  BY <1>1, <1>2, <1>3, <1>5, <1>6, <1>7 DEF Operation

(* Moving a record that has no order to a state that claims none.          *)
LEMMA NoOrderMove ==
  ASSUME TypeOK, NEW i \in Intents, RecordInv(i), state[i] \notin OrderStates,
         UNCHANGED orders, NEW to, SetState(i, to),
         to \notin {"SUBMITTED", "PARTIALLY_FILLED", "FILLED", "CANCEL_REQUESTED",
                    "APPROVED"},
         preview'[i] # NoPreview =>
           preview'[i].quantity
             = Quantity(preview'[i].hash.economics, preview'[i].hash.price)
  PROVE  RecordInv(i)'
<1>1. orders[i] = <<>> /\ orders'[i] = <<>>
  BY DEF RecordInv
<1>2. state'[i] = to
  BY DEF SetState, TypeOK
<1> QED
  BY <1>1, <1>2 DEF RecordInv

LEMMA CreatePreviewRecord ==
  ASSUME TypeOK, NEW i \in Intents, RecordInv(i), CreatePreview(i)
  PROVE  RecordInv(i)'
<1>1. state[i] \notin OrderStates /\ UNCHANGED orders
  BY DEF CreatePreview, CanMove, OrderStates
<1>2. CASE PreviewHalted(i)
  <2>1. Moved("VALIDATING", "KILL_SWITCHED") = "KILL_SWITCHED"
    BY DEF Moved, CanMove
  <2> QED
    BY <1>1, <1>2, <2>1, NoOrderMove DEF PreviewHalted, RecordInv
<1>3. CASE PreviewFailed(i)
  BY <1>1, <1>3, NoOrderMove DEF PreviewFailed, RecordInv
<1>4. CASE PreviewBuilt(i)
  <2>1. PICK v \in Verdicts, q \in Quotes :
          LET p == BuildPreview(econ[i], q, v) IN
          /\ preview' = [preview EXCEPT ![i] = p]
          /\ SetState(i, Moved("VALIDATING", IF Blocked(p) THEN "REJECTED"
                                             ELSE "AWAITING_APPROVAL"))
    BY <1>4 DEF PreviewBuilt
  <2> DEFINE p == BuildPreview(econ[i], q, v)
             t == IF Blocked(p) THEN "REJECTED" ELSE "AWAITING_APPROVAL"
  <2>2. preview'[i] = p
    BY <2>1 DEF TypeOK
  <2>3. p.quantity = Quantity(p.hash.economics, p.hash.price)
    <3>1. econ[i] \in FingerprintType
      BY DEF TypeOK
    <3> QED
      BY <3>1, PreviewBuiltType
  <2>4. Moved("VALIDATING", t) = t
    BY DEF Moved, CanMove
  <2> QED
    BY <1>1, <2>1, <2>2, <2>3, <2>4, NoOrderMove
<1> QED
  BY <1>2, <1>3, <1>4 DEF CreatePreview

LEMMA ApproveRecord ==
  ASSUME TypeOK, NEW i \in Intents, RecordInv(i), Approve(i)
  PROVE  RecordInv(i)'
<1>1. preview[i] \in PreviewType /\ UNCHANGED <<preview, orders>>
  BY DEF Approve, TypeOK
<1>2. CASE ApproveShown(i)
  <2>1. /\ approval'[i] = [hash |-> preview[i].hash, at |-> clock]
        /\ state'[i] = Moved(state[i], "APPROVED")
    BY <1>2 DEF ApproveShown, SetState, TypeOK
  <2>2. approval'[i] # NoApproval /\ approval'[i].hash = preview[i].hash
    BY <2>1 DEF NoApproval
  <2>3. CASE state[i] = "AWAITING_APPROVAL"
    <3>1. orders[i] = <<>> /\ state'[i] = "APPROVED"
      BY <2>1, <2>3 DEF RecordInv, OrderStates, Moved, CanMove
    <3> QED
      BY <1>1, <2>2, <3>1, Approve(i) DEF RecordInv, Approve
  <2>4. CASE state[i] # "AWAITING_APPROVAL"
    <3>1. state'[i] = state[i]
      BY <2>1, <2>4 DEF Moved, CanMove
    <3> QED
      BY <1>1, <2>2, <3>1, Approve(i) DEF RecordInv, OrderAuthorised, Approve
  <2> QED
    BY <2>3, <2>4
<1>3. CASE ApproveOther(i)
  <2>1. state'[i] = Moved(state[i], "APPROVAL_EXPIRED") /\ UNCHANGED approval
    BY <1>3 DEF ApproveOther, SetState, TypeOK
  <2>2. CASE state[i] \in {"AWAITING_APPROVAL", "REVALIDATING"}
    <3>1. state'[i] = "APPROVAL_EXPIRED" /\ orders[i] = <<>>
      BY <2>1, <2>2 DEF Moved, CanMove, RecordInv, OrderStates
    <3> QED
      BY <1>1, <2>1, <3>1 DEF RecordInv
  <2>3. CASE state[i] \notin {"AWAITING_APPROVAL", "REVALIDATING"}
    <3>1. state'[i] = state[i]
      BY <2>1, <2>3 DEF Moved, CanMove
    <3> QED
      BY <1>1, <2>1, <3>1, RecordFrame
  <2> QED
    BY <2>2, <2>3
<1> QED
  BY <1>2, <1>3 DEF Approve

(* A refused revalidation leaves an approved record without an order.      *)
LEMMA RefusedRecord ==
  ASSUME TypeOK, NEW i \in Intents, RecordInv(i), EntersRevalidation(i), Refused(i)
  PROVE  RecordInv(i)'
<1>1. state[i] \notin OrderStates /\ UNCHANGED orders
  BY DEF EntersRevalidation, Refused, CanMove, OrderStates
<1>2. CASE RevalidationHalted(i)
  <2>1. Moved("REVALIDATING", "KILL_SWITCHED") = "KILL_SWITCHED"
    BY DEF Moved, CanMove
  <2> QED
    BY <1>1, <1>2, <2>1, NoOrderMove DEF RevalidationHalted, RecordInv
<1>3. CASE RevalidationExpired(i)
  <2>1. Moved("REVALIDATING", "APPROVAL_EXPIRED") = "APPROVAL_EXPIRED"
    BY DEF Moved, CanMove
  <2> QED
    BY <1>1, <1>3, <2>1, NoOrderMove DEF RevalidationExpired, RecordInv
<1>4. CASE RevalidationFailed(i)
  BY <1>1, <1>4, NoOrderMove DEF RevalidationFailed, RecordInv
<1>5. CASE RevalidationRefused(i)
  <2>1. PICK v \in Verdicts, q \in Quotes :
          LET fresh == BuildPreview(econ[i], q, v) IN
          /\ preview' = [preview EXCEPT ![i] = fresh]
          /\ SetState(i, Moved("REVALIDATING",
                               IF Drifted(preview[i], fresh)
                               THEN "APPROVAL_EXPIRED" ELSE "REJECTED"))
    BY <1>5 DEF RevalidationRefused
  <2> DEFINE fresh == BuildPreview(econ[i], q, v)
             t == IF Drifted(preview[i], fresh) THEN "APPROVAL_EXPIRED" ELSE "REJECTED"
  <2>2. preview'[i] = fresh
    BY <2>1 DEF TypeOK
  <2>3. fresh.quantity = Quantity(fresh.hash.economics, fresh.hash.price)
    <3>1. econ[i] \in FingerprintType
      BY DEF TypeOK
    <3> QED
      BY <3>1, PreviewBuiltType
  <2>4. Moved("REVALIDATING", t) = t
    BY DEF Moved, CanMove
  <2> QED
    BY <1>1, <2>1, <2>2, <2>3, <2>4, NoOrderMove
<1> QED
  BY <1>2, <1>3, <1>4, <1>5 DEF Refused

(* The heart of the argument: an order cut from a preview that a           *)
(* revalidation cleared is covered by the approval on the record.          *)
LEMMA ClearedOrder ==
  ASSUME TypeOK, NEW i \in Intents, RecordInv(i), EntersRevalidation(i),
         NEW v \in Verdicts, NEW q \in Quotes,
         Cleared(i, BuildPreview(econ[i], q, v), v), NEW c
  PROVE  /\ orders[i] = <<>>
         /\ OrderAuthorised(Order(i, c, BuildPreview(econ[i], q, v)))
         /\ preview'[i] = BuildPreview(econ[i], q, v)
         /\ preview'[i].quantity
              = Quantity(preview'[i].hash.economics, preview'[i].hash.price)
<1> DEFINE fresh == BuildPreview(econ[i], q, v)
           o == Order(i, c, fresh)
<1>1. state[i] = "APPROVED"
  BY DEF EntersRevalidation, CanMove
<1>2. orders[i] = <<>> /\ approval[i].hash = preview[i].hash
  BY <1>1 DEF RecordInv, OrderStates
<1>3. /\ preview[i] \in PreviewType /\ approval[i] \in ApprovalType
      /\ econ[i] \in FingerprintType /\ clock \in Nat
  BY DEF EntersRevalidation, TypeOK
<1>4. fresh \in PreviewType /\ fresh.quantity = Quantity(fresh.hash.economics, fresh.hash.price)
  BY <1>3, PreviewBuiltType
<1>5. /\ o.quantity = fresh.quantity /\ o.price = fresh.hash.price
      /\ o.authority = approval[i] /\ o.at = clock
  BY DEF Order
<1>6. o.at - o.authority.at <= TTL
  <2>1. ~(clock - approval[i].at > TTL)
    BY DEF Cleared, ApprovalStands, ApprovalExpired
  <2>2. approval[i].at \in Nat
    BY <1>3 DEF ApprovalType
  <2> QED
    BY <1>3, <1>5, <2>1, <2>2, ClockAssumption
<1>7. o.quantity = Quantity(o.authority.hash.economics, o.authority.hash.price)
  <2>1. fresh.quantity = preview[i].quantity
    BY DEF Cleared, Drifted
  <2>2. preview[i].quantity = Quantity(preview[i].hash.economics, preview[i].hash.price)
    BY DEF EntersRevalidation, RecordInv
  <2> QED
    BY <1>2, <1>5, <2>1, <2>2
<1>8. ~PriceDrifted(o.price, o.authority.hash.price)
  BY <1>2, <1>5 DEF Cleared, Drifted
<1>9. preview'[i] = fresh
  BY DEF Cleared, TypeOK
<1> QED
  BY <1>2, <1>4, <1>6, <1>7, <1>8, <1>9 DEF OrderAuthorised

(* Sending that order.                                                     *)
LEMMA SentRecord ==
  ASSUME TypeOK, NEW i \in Intents, RecordInv(i), EntersRevalidation(i),
         NEW v \in Verdicts, NEW q \in Quotes,
         Cleared(i, BuildPreview(econ[i], q, v), v),
         NEW c \in {"BROKER", "EXTERNAL"},
         SendOrder(i, c, BuildPreview(econ[i], q, v)),
         NEW to \in {"SUBMITTING", "SUBMITTED"}, SetState(i, to)
  PROVE  RecordInv(i)'
<1> DEFINE o == Order(i, c, BuildPreview(econ[i], q, v))
<1>1. /\ orders[i] = <<>> /\ OrderAuthorised(o)
      /\ preview'[i].quantity
           = Quantity(preview'[i].hash.economics, preview'[i].hash.price)
  BY ClearedOrder
<1>2. orders'[i] = Append(orders[i], o)
  BY DEF SendOrder, TypeOK
<1>3. orders'[i] = <<o>>
  BY <1>1, <1>2
<1>4. /\ orders'[i] # <<>> /\ Len(orders'[i]) = 1 /\ orders'[i][1] = o
  BY <1>3
<1>5. \A k \in 1 .. Len(orders'[i]) : OrderAuthorised(orders'[i][k])
  BY <1>1, <1>4
<1>6. state'[i] = to
  BY DEF SetState, TypeOK
<1> QED
  BY <1>1, <1>4, <1>5, <1>6 DEF RecordInv, OrderStates, OrderAuthorised

LEMMA ExecuteRecord ==
  ASSUME TypeOK, NEW i \in Intents, RecordInv(i), Execute(i)
  PROVE  RecordInv(i)'
<1>1. CASE Refused(i)
  BY <1>1, RefusedRecord DEF Execute
<1>2. ASSUME NEW v \in Verdicts, NEW q \in Quotes,
             Cleared(i, BuildPreview(econ[i], q, v), v),
             Route(i, BuildPreview(econ[i], q, v))
      PROVE  RecordInv(i)'
  <2> DEFINE fresh == BuildPreview(econ[i], q, v)
  <2>1. EntersRevalidation(i)
    BY DEF Execute
  <2>2. /\ Moved("SUBMITTING", "REJECTED") = "REJECTED"
        /\ Moved("SUBMITTING", "SUBMITTED") = "SUBMITTED"
    BY DEF Moved, CanMove
  <2>3. CASE UNCHANGED orders
    <3>1. \/ SetState(i, "REJECTED") \/ SetState(i, "SUBMITTING")
          \/ SendOrder(i, "BROKER", fresh) /\ SetState(i, "SUBMITTED")
      BY <1>2, <2>2 DEF Route
    <3>2. state[i] \notin OrderStates
      BY <2>1 DEF EntersRevalidation, CanMove, OrderStates
    <3>3. preview'[i].quantity
            = Quantity(preview'[i].hash.economics, preview'[i].hash.price)
      BY <1>2, <2>1, ClearedOrder
    <3> QED
      BY <1>2, <2>1, <2>3, <3>1, <3>2, <3>3, NoOrderMove, SentRecord
  <2>4. CASE SendOrder(i, "BROKER", fresh) /\ ~ UNCHANGED orders
    <3>1. SetState(i, "SUBMITTED") \/ SetState(i, "SUBMITTING")
      BY <1>2, <2>2, <2>4 DEF Route
    <3> QED
      BY <1>2, <2>1, <2>4, <3>1, SentRecord
  <2> QED
    BY <1>2, <2>3, <2>4 DEF Route
<1> QED
  BY <1>1, <1>2 DEF Execute

LEMMA ClaimRecord ==
  ASSUME TypeOK, NEW i \in Intents, RecordInv(i), ClaimForExternalExecution(i)
  PROVE  RecordInv(i)'
<1>1. CASE Refused(i)
  BY <1>1, RefusedRecord DEF ClaimForExternalExecution
<1>2. ASSUME NEW v \in Verdicts, NEW q \in Quotes,
             Cleared(i, BuildPreview(econ[i], q, v), v),
             SetState(i, Moved("SUBMITTING", "SUBMITTED")),
             SendOrder(i, "EXTERNAL", BuildPreview(econ[i], q, v))
      PROVE  RecordInv(i)'
  <2>1. Moved("SUBMITTING", "SUBMITTED") = "SUBMITTED"
    BY DEF Moved, CanMove
  <2>2. EntersRevalidation(i)
    BY DEF ClaimForExternalExecution
  <2> QED
    BY <1>2, <2>1, <2>2, SentRecord
<1> QED
  BY <1>1, <1>2 DEF ClaimForExternalExecution

(* Reports and cancellations move an ordered record only among the order   *)
(* states, and never make one without an order claim it has one.           *)
LEMMA ReportRecord ==
  ASSUME TypeOK, NEW i \in Intents, RecordInv(i), NEW s \in ReportStatuses,
         RecordExecutionReport(i, s)
  PROVE  RecordInv(i)'
<1>1. UNCHANGED <<preview, approval, orders>>
      /\ state'[i] = ReportedState(state[i], ReportTarget(s))
  BY DEF RecordExecutionReport, SetState, TypeOK
<1>2. \/ state'[i] = state[i]
      \/ /\ state'[i] \in {"PARTIALLY_FILLED", "FILLED", "CANCELLED", "ERROR"}
         /\ state'[i] \in {"PARTIALLY_FILLED", "FILLED"} =>
              state[i] \in {"SUBMITTED", "PARTIALLY_FILLED", "CANCEL_REQUESTED"}
  BY <1>1 DEF ReportStatuses, ReportTarget, ReportedState, Moved, CanMove
<1>3. CASE state'[i] = state[i]
  BY <1>1, <1>3, RecordFrame
<1>4. CASE state'[i] # state[i]
  BY <1>1, <1>2, <1>4 DEF RecordInv, OrderStates, OrderAuthorised
<1> QED
  BY <1>3, <1>4

LEMMA CancelRecord ==
  ASSUME TypeOK, NEW i \in Intents, RecordInv(i), Cancel(i)
  PROVE  RecordInv(i)'
<1>1. UNCHANGED <<preview, approval, orders>> /\ state'[i] = CancelTarget(state[i])
  BY DEF Cancel, SetState, TypeOK
<1>2. \/ state'[i] = "CANCELLED"
      \/ /\ state'[i] = "CANCEL_REQUESTED"
         /\ state[i] \in {"SUBMITTED", "PARTIALLY_FILLED"}
  BY <1>1 DEF CancelTarget
<1> QED
  BY <1>1, <1>2 DEF RecordInv, OrderStates, OrderAuthorised

LEMMA OperationRecord ==
  ASSUME TypeOK, NEW i \in Intents, RecordInv(i), Operation(i)
  PROVE  RecordInv(i)'
<1>1. CASE RegisterDraft(i)
  <2>1. state[i] \notin OrderStates
    BY <1>1 DEF RegisterDraft, OrderStates
  <2> QED
    BY <1>1, <2>1, NoOrderMove DEF RegisterDraft, RecordInv
<1>2. CASE MutateIntent(i)
  BY <1>2, RecordFrame DEF MutateIntent
<1>3. CASE \E s \in ReportStatuses : RecordExecutionReport(i, s)
  BY <1>3, ReportRecord
<1> QED
  BY <1>1, <1>2, <1>3, CreatePreviewRecord, ApproveRecord, ExecuteRecord,
     ClaimRecord, CancelRecord DEF Operation

LEMMA IInvStep == IInv /\ [Next]_vars => IInv'
<1> SUFFICES ASSUME IInv, [Next]_vars PROVE IInv'
  OBVIOUS
<1>1. TypeOK /\ TypeOK'
  BY TypeStep DEF IInv
<1>2. ASSUME NEW j \in Intents PROVE RecordInv(j)'
  <2>1. RecordInv(j)
    BY DEF IInv
  <2>2. ASSUME NEW i \in Intents, Operation(i) PROVE RecordInv(j)'
    <3>1. CASE i = j
      BY <1>1, <2>1, <2>2, <3>1, OperationRecord
    <3>2. CASE i # j
      BY <1>1, <2>1, <2>2, <3>2, OperationFrame, RecordFrame
    <3> QED
      BY <3>1, <3>2
  <2>3. CASE SwitchMoves \/ Tick \/ UNCHANGED vars
    BY <2>1, <2>3, RecordFrame DEF SwitchMoves, Tick, vars
  <2> QED
    BY <2>2, <2>3 DEF Next
<1> QED
  BY <1>1, <1>2 DEF IInv

LEMMA IInvAlways == Spec => []IInv
<1>1. Init => IInv
  BY InitType, RecordInit DEF IInv
<1> QED
  BY <1>1, IInvStep, PTL DEF Spec

(* One intent is sent at most once, whatever fails or is repeated.         *)
THEOREM SentAtMostOnce == Spec => []AtMostOneOrder
BY IInvAlways, IInvImplies, PTL

(* What the state of a record says about its order is true.                *)
THEOREM StateIsTruthful == Spec => []StateTellsOfOrder
BY IInvAlways, IInvImplies, PTL

(* An APPROVED record is approved for the preview it holds.                *)
THEOREM ApprovalsAreCurrent == Spec => []ApprovalIsCurrent
BY IInvAlways, IInvImplies, PTL

(* Every order is covered by a live approval of a preview that showed its  *)
(* quantity and, within the tolerance, its price.                          *)
THEOREM OrdersAreAuthorised == Spec => []OrdersAuthorised
BY IInvAlways, IInvImplies, PTL

(* No order leaves while trading is halted.                                *)
THEOREM HaltStopsOrders == Spec => NoOrderWhileHalted
<1>1. ASSUME TypeOK, [Next]_vars, orders' # orders
      PROVE  ~locked /\ ~locked'
  <2>1. PICK i \in Intents : Execute(i) \/ ClaimForExternalExecution(i)
    BY <1>1 DEF Next, Operation, vars, RegisterDraft, MutateIntent, CreatePreview,
                Approve, RecordExecutionReport, Cancel, SwitchMoves, Tick
  <2>2. PICK v \in Verdicts, q \in Quotes : Cleared(i, BuildPreview(econ[i], q, v), v)
    BY <1>1, <2>1 DEF Execute, ClaimForExternalExecution, Refused
  <2>3. econ[i] \in FingerprintType
    BY <1>1 DEF TypeOK
  <2>4. v = "PASS"
    BY <2>2, <2>3, PreviewBuiltType DEF Cleared, Blocked
  <2> QED
    BY <2>2, <2>4 DEF Cleared, ApprovalStands
<1>2. TypeOK /\ [Next]_vars => [orders' # orders => ~locked /\ ~locked']_vars
  BY <1>1
<1> QED
  BY <1>2, TypeCorrect, PTL DEF Spec, NoOrderWhileHalted

-----------------------------------------------------------------------------
(* Types.                                                                  *)

Keys == Intents \X (FingerprintType \union {NoFingerprint})
Grants(i) ==
  {[answer |-> "OK", key |-> <<i, f>>] : f \in FingerprintType \union {NoFingerprint}}

Statuses == ReportStatuses \union {"ACCEPTED"}
ClaimMessages == [kind : {"claim"}, trade : Intents, stale : BOOLEAN]
ReportMessages == [kind : {"report"}, trade : Intents, status : Statuses, stale : BOOLEAN]

BusyStates == {"CLAIMING", "PLACING", "REPORTING", "CONFIRMING"}

ExecutorType ==
  /\ pc \in BusyStates \union {"IDLE", "LOOP"}
  /\ pc \in BusyStates => current \in Intents
  /\ pc \in {"REPORTING", "CONFIRMING"} => outcome \in {"ERROR", "FILLED", "ACCEPTED"}
  /\ worklist \subseteq Keys
  /\ claimed \subseteq Keys
  /\ pc = "CLAIMING" => reply \in {NoReply, Refusal} \union Grants(current)

BrokerType ==
  /\ placements \in [Intents -> Nat]
  /\ broker \in [Intents -> {"FILLED", "OPEN", Nothing}]

(* At most one request is waited for, and while it is there is no answer.  *)
Awaited(m) ==
  /\ reply = NoReply
  /\ \/ pc = "CLAIMING" /\ m = ClaimRequest(current)
     \/ pc = "CONFIRMING" /\ m = ReportRequest(current, outcome)

NetType ==
  /\ net \subseteq ClaimMessages \union ReportMessages
  /\ \A m \in net : m.stale \/ Awaited(m)

BoundaryType ==
  TypeOK /\ ExecutorType /\ BrokerType /\ NetType /\ edgeFails \in BOOLEAN

LEMMA BoundaryTypeInit == BoundaryInit => BoundaryType
<1> SUFFICES ASSUME BoundaryInit PROVE BoundaryType
  OBVIOUS
<1>1. TypeOK
  BY InitType DEF BoundaryInit
<1>2. edgeFails \in BOOLEAN
  <2>1. edgeFails \in {FALSE, MaxHandOffs > 0}
    BY DEF BoundaryInit
  <2>2. (MaxHandOffs > 0) \in BOOLEAN
    BY SMT
  <2> QED
    BY <2>1, <2>2, Zenon
<1>3. ExecutorType /\ BrokerType /\ NetType
  BY DEF BoundaryInit, ExecutorType, BrokerType, NetType, BusyStates
<1> QED
  BY <1>1, <1>2, <1>3 DEF BoundaryType

(* What a handled claim or report does to the records is an operation of   *)
(* the service, or nothing.                                                *)
LEMMA ClaimHandled ==
  ASSUME BoundaryType, NEW m, HandleClaim(m)
  PROVE  /\ m \in ClaimMessages
         /\ \/ /\ UNCHANGED vars
               /\ Answer(m, Refusal)
            \/ /\ state[m.trade] = "APPROVED"
               /\ ClaimForExternalExecution(m.trade)
               /\ Answer(m, IF state'[m.trade] = "SUBMITTED"
                            THEN Granted(m.trade) ELSE Refusal)
<1>1. m \in ClaimMessages
  BY DEF HandleClaim, BoundaryType, NetType, ClaimMessages, ReportMessages
<1> QED
  BY <1>1 DEF HandleClaim, recordVars, vars

LEMMA ReportHandled ==
  ASSUME BoundaryType, NEW m, HandleReport(m)
  PROVE  /\ m \in ReportMessages
         /\ \/ UNCHANGED vars
            \/ m.status \in ReportStatuses /\ RecordExecutionReport(m.trade, m.status)
         /\ reply' \in {reply, Refusal, Received}
         /\ m.stale => reply' = reply
<1>1. m \in ReportMessages
  BY DEF HandleReport, BoundaryType, NetType, ClaimMessages, ReportMessages
<1>2. m.status \in Statuses
  BY <1>1 DEF ReportMessages
<1> QED
  BY <1>1, <1>2 DEF HandleReport, RefuseReport, TakeReport, Answer, recordVars, vars, Statuses

LEMMA RestartType ==
  ASSUME TypeOK, EdgeRestart
  PROVE  TypeOK'
<1>1. econ' \in [Intents -> FingerprintType]
  BY EconomicsAssumption DEF EdgeRestart
<1>2. state' \in [Intents -> States]
  BY DEF EdgeRestart, States
<1> QED
  BY <1>1, <1>2 DEF EdgeRestart, TypeOK

(* Every step but a restart of EDGE is a step of the transaction service,  *)
(* or leaves its records alone.                                            *)
LEMMA RecordSteps ==
  ASSUME BoundaryType, BoundaryStep
  PROVE  [Next]_vars \/ EdgeRestart
<1>1. ASSUME NEW i \in Intents, EdgeOperation(i) PROVE [Next]_vars
  BY <1>1 DEF EdgeOperation, Next, Operation
<1>2. CASE EdgeEnvironment
  BY <1>2 DEF EdgeEnvironment, Next
<1>3. ASSUME NEW m \in net, HandleClaim(m) PROVE [Next]_vars
  BY <1>3, ClaimHandled DEF ClaimMessages, Next, Operation
<1>4. ASSUME NEW m \in net, HandleReport(m) PROVE [Next]_vars
  BY <1>4, ReportHandled DEF ReportMessages, Next, Operation
<1>5. CASE ExecutorStep
  BY <1>5 DEF ExecutorStep, Poll, SkipClaimed, EndOfList, SendClaim, ClaimAnswered,
              PlaceOrder, SendReport, ReportAnswered, recordVars, vars
<1>6. CASE Timeout \/ ExecutorDies \/ BrokerFills \/ \E m \in net : Lost(m)
  BY <1>6 DEF Timeout, ExecutorDies, Abandon, BrokerFills, Lost, recordVars, vars
<1> QED
  BY <1>1, <1>2, <1>3, <1>4, <1>5, <1>6 DEF BoundaryStep, Handle

LEMMA TypeOfRecords ==
  ASSUME BoundaryType, BoundaryStep
  PROVE  TypeOK'
BY RecordSteps, RestartType, TypeStep DEF BoundaryType

(* An answer only reaches the client that waits for it.                    *)
LEMMA AnswerType ==
  ASSUME BoundaryType, NEW m \in net, ~m.stale
  PROVE  /\ m.kind = "claim" => pc = "CLAIMING" /\ current = m.trade
         /\ m.kind = "report" => pc = "CONFIRMING"
         /\ \A n \in net \ {m} : n.stale
<1>1. \A n \in net : n.stale \/ Awaited(n)
  BY DEF BoundaryType, NetType
<1>2. CASE pc = "CLAIMING" /\ m = ClaimRequest(current)
  <2>1. m.kind = "claim" /\ m.trade = current
    BY <1>2 DEF ClaimRequest
  <2> QED
    BY <1>1, <1>2, <2>1 DEF Awaited
<1>3. CASE pc = "CONFIRMING" /\ m = ReportRequest(current, outcome)
  <2>1. m.kind = "report"
    BY <1>3 DEF ReportRequest
  <2> QED
    BY <1>1, <1>3, <2>1 DEF Awaited
<1> QED
  BY <1>1, <1>2, <1>3 DEF Awaited

LEMMA HandleType ==
  ASSUME BoundaryType, NEW m \in net, HandleClaim(m) \/ HandleReport(m)
  PROVE  ExecutorType' /\ BrokerType' /\ NetType'
<1>1. UNCHANGED <<executorVars, brokerVars>> /\ net' = net \ {m}
  BY DEF HandleClaim, HandleReport
<1>2. m \in ClaimMessages \union ReportMessages
  BY DEF BoundaryType, NetType
<1>3. m.stale => reply' = reply
  BY ReportHandled DEF HandleClaim, Answer
<1>4. pc = "CLAIMING" => reply' \in {NoReply, Refusal} \union Grants(current)
  <2>1. CASE m.stale
    BY <1>3, <2>1 DEF BoundaryType, ExecutorType
  <2>2. CASE ~m.stale /\ HandleReport(m)
    BY <2>2, AnswerType DEF HandleReport
  <2>3. CASE ~m.stale /\ HandleClaim(m)
    <3>1. m.trade = current /\ m.trade \in Intents
      BY <1>2, <2>3, AnswerType, ClaimHandled DEF HandleClaim, ClaimMessages
    <3>2. reply' \in {Refusal, Granted(m.trade)}
      BY <2>3 DEF HandleClaim, Answer
    <3>3. fingerprint[m.trade] \in FingerprintType \union {NoFingerprint}
      BY <3>1 DEF BoundaryType, TypeOK
    <3>4. Granted(m.trade) \in Grants(m.trade)
      BY <3>3 DEF Granted, Key, Grants
    <3> QED
      BY <3>1, <3>2, <3>4
  <2> QED
    BY <1>3, <2>1, <2>2, <2>3
<1>5. NetType'
  <2>1. CASE m.stale
    BY <1>1, <1>3, <2>1 DEF BoundaryType, NetType, Awaited, executorVars
  <2>2. CASE ~m.stale
    BY <1>1, <2>2, AnswerType DEF BoundaryType, NetType
  <2> QED
    BY <2>1, <2>2
<1> QED
  BY <1>1, <1>4, <1>5 DEF BoundaryType, ExecutorType, BrokerType, Grants, executorVars, brokerVars

(* Steps that leave the executor, the broker and the network alone.        *)
LEMMA ElsewhereType ==
  ASSUME BoundaryType, UNCHANGED <<executorVars, net, reply, brokerVars>>
  PROVE  ExecutorType' /\ BrokerType' /\ NetType'
BY DEF BoundaryType, ExecutorType, BrokerType, NetType, Awaited, executorVars, brokerVars

LEMMA AbandonType ==
  ASSUME BoundaryType, Abandon, claimed' \subseteq claimed
  PROVE  ExecutorType' /\ BrokerType' /\ NetType'
<1>1. \A m \in net : [m EXCEPT !.stale = TRUE] \in ClaimMessages \union ReportMessages
                     /\ [m EXCEPT !.stale = TRUE].stale
  BY DEF BoundaryType, NetType, ClaimMessages, ReportMessages
<1>2. NetType'
  BY <1>1 DEF Abandon, NetType
<1> QED
  BY <1>2 DEF Abandon, BoundaryType, ExecutorType, BrokerType, BusyStates, brokerVars

LEMMA ListType ==
  ASSUME BoundaryType, Poll \/ SkipClaimed \/ EndOfList
  PROVE  ExecutorType' /\ BrokerType' /\ NetType'
<1>1. Poll => worklist' \subseteq Keys
  <2>1. \A i \in Intents : Key(i) \in Keys
    BY DEF Key, Keys, BoundaryType, TypeOK
  <2> QED
    BY <2>1 DEF Poll, Executable
<1>2. pc \in {"IDLE", "LOOP"} /\ pc' \in {"IDLE", "LOOP"}
  BY DEF Poll, SkipClaimed, EndOfList
<1>3. UNCHANGED <<current, claimed, outcome, net, reply, brokerVars>>
  BY DEF Poll, SkipClaimed, EndOfList
<1>4. worklist' \subseteq Keys
  BY <1>1 DEF SkipClaimed, EndOfList, BoundaryType, ExecutorType
<1>5. NetType'
  BY <1>2, <1>3 DEF BoundaryType, NetType, Awaited
<1> QED
  BY <1>2, <1>3, <1>4, <1>5 DEF BoundaryType, ExecutorType, BrokerType, BusyStates, brokerVars

LEMMA SendType ==
  ASSUME BoundaryType, SendClaim \/ SendReport
  PROVE  ExecutorType' /\ BrokerType' /\ NetType'
<1>1. \A m \in net : m.stale
  BY DEF BoundaryType, NetType, Awaited, SendClaim, SendReport
<1>2. CASE SendClaim
  <2>1. PICK k \in worklist : worklist' = worklist \ {k} /\ current' = k[1]
                              /\ net' = net \union {ClaimRequest(k[1])}
    BY <1>2 DEF SendClaim
  <2>2. k[1] \in Intents
    BY DEF BoundaryType, ExecutorType, Keys
  <2>3. ClaimRequest(k[1]) \in ClaimMessages
    BY <2>2 DEF ClaimRequest, ClaimMessages
  <2>4. NetType'
    BY <1>1, <1>2, <2>1, <2>3 DEF BoundaryType, NetType, Awaited, SendClaim
  <2> QED
    BY <1>2, <2>1, <2>2, <2>4 DEF SendClaim, BoundaryType, ExecutorType, BrokerType,
                                  BusyStates, brokerVars
<1>3. CASE SendReport
  <2>1. ReportRequest(current, outcome) \in ReportMessages
    BY <1>3 DEF SendReport, BoundaryType, ExecutorType, BusyStates, ReportRequest,
                ReportMessages, Statuses, ReportStatuses
  <2>2. NetType'
    BY <1>1, <1>3, <2>1 DEF BoundaryType, NetType, Awaited, SendReport
  <2> QED
    BY <1>3, <2>2 DEF SendReport, BoundaryType, ExecutorType, BrokerType,
                      BusyStates, brokerVars
<1> QED
  BY <1>2, <1>3

LEMMA ClaimAnsweredType ==
  ASSUME BoundaryType, ClaimAnswered
  PROVE  ExecutorType' /\ BrokerType' /\ NetType'
<1>1. \A m \in net : m.stale
  BY DEF BoundaryType, NetType, Awaited, ClaimAnswered
<1>2. NetType'
  BY <1>1 DEF BoundaryType, NetType, ClaimAnswered
<1>3. CASE reply = Refusal
  BY <1>2, <1>3 DEF ClaimAnswered, BoundaryType, ExecutorType, BrokerType, BusyStates, brokerVars
<1>4. CASE reply # Refusal
  <2>1. current \in Intents /\ reply \in Grants(current)
    BY <1>4 DEF ClaimAnswered, BoundaryType, ExecutorType, BusyStates
  <2>2. reply.key \in Keys
    BY <2>1 DEF Grants, Keys
  <2> QED
    BY <1>2, <1>4, <2>1, <2>2 DEF ClaimAnswered, BoundaryType, ExecutorType, BrokerType,
                                  BusyStates, brokerVars
<1> QED
  BY <1>3, <1>4

LEMMA PlaceType ==
  ASSUME BoundaryType, PlaceOrder
  PROVE  ExecutorType' /\ BrokerType' /\ NetType'
<1>1. PICK result \in {"FILLED", "OPEN", Nothing}, raised \in BOOLEAN :
        /\ outcome' = IF raised THEN "ERROR"
                      ELSE IF result = "FILLED" THEN "FILLED" ELSE "ACCEPTED"
        /\ broker' = [broker EXCEPT ![current] = Done(current, result)]
        /\ placements' = [placements EXCEPT ![current] =
                            IF result = Nothing THEN @ ELSE @ + 1]
  BY DEF PlaceOrder
<1>2. current \in Intents
  BY DEF PlaceOrder, BoundaryType, ExecutorType, BusyStates
<1>3. Done(current, result) \in {"FILLED", "OPEN", Nothing}
  BY <1>2 DEF Done, BoundaryType, BrokerType
<1>4. BrokerType'
  BY <1>1, <1>2, <1>3 DEF BoundaryType, BrokerType
<1>5. NetType'
  BY DEF BoundaryType, NetType, Awaited, PlaceOrder
<1> QED
  BY <1>1, <1>2, <1>4, <1>5 DEF PlaceOrder, BoundaryType, ExecutorType, BusyStates

LEMMA ReportAnsweredType ==
  ASSUME BoundaryType, ReportAnswered
  PROVE  ExecutorType' /\ BrokerType' /\ NetType'
<1>1. \A m \in net : m.stale
  BY DEF BoundaryType, NetType, Awaited, ReportAnswered
<1>2. NetType'
  BY <1>1 DEF BoundaryType, NetType, ReportAnswered
<1> QED
  BY <1>2 DEF ReportAnswered, BoundaryType, ExecutorType, BrokerType, BusyStates, brokerVars

LEMMA BoundaryTypeStep ==
  ASSUME BoundaryType, [BoundaryNext]_<<boundaryVars, edgeFails>>
  PROVE  BoundaryType'
<1>1. CASE UNCHANGED <<boundaryVars, edgeFails>>
  BY <1>1, ElsewhereType DEF BoundaryType, boundaryVars, recordVars, TypeOK
<1>2. CASE BoundaryNext
  <2>1. BoundaryStep /\ edgeFails' \in BOOLEAN
    BY <1>2 DEF BoundaryNext, BoundaryType
  <2>2. TypeOK'
    BY <2>1, TypeOfRecords
  <2>3. ExecutorType' /\ BrokerType' /\ NetType'
    <3>1. CASE EdgeEnvironment \/ EdgeRestart \/ \E i \in Intents : EdgeOperation(i)
      BY <3>1, ElsewhereType DEF EdgeOperation, EdgeEnvironment, EdgeRestart
    <3>2. CASE Handle
      BY <3>2, HandleType DEF Handle
    <3>3. CASE ExecutorStep
      BY <3>3, ListType, SendType, ClaimAnsweredType, PlaceType, ReportAnsweredType
         DEF ExecutorStep
    <3>4. CASE Timeout \/ ExecutorDies
      BY <3>4, AbandonType DEF Timeout, ExecutorDies
    <3>5. CASE \E m \in net : Lost(m)
      BY <3>5 DEF Lost, BoundaryType, ExecutorType, BrokerType, NetType, Awaited,
                  executorVars, brokerVars
    <3>6. CASE BrokerFills
      BY <3>6 DEF BrokerFills, BoundaryType, ExecutorType, BrokerType, NetType, Awaited,
                  executorVars
    <3> QED
      BY <2>1, <3>1, <3>2, <3>3, <3>4, <3>5, <3>6 DEF BoundaryStep
  <2> QED
    BY <2>1, <2>2, <2>3 DEF BoundaryType
<1> QED
  BY <1>1, <1>2

LEMMA BoundaryTypeAlways == BoundarySpec => []BoundaryType
BY BoundaryTypeInit, BoundaryTypeStep, PTL DEF BoundarySpec

-----------------------------------------------------------------------------
(* Fills.  A fill is only ever reported of a trade the broker has filled:  *)
(* by the executor that was told so, and by every report of it that is     *)
(* still on its way, however late.  Nothing else makes a record FILLED,    *)
(* and the broker takes no fill back.                                      *)
FillInv ==
  /\ FilledIsReal
  /\ pc \in {"REPORTING", "CONFIRMING"} /\ outcome = "FILLED" => broker[current] = "FILLED"
  /\ \A m \in net : m \in ReportMessages /\ m.status = "FILLED" => broker[m.trade] = "FILLED"

LEMMA OperationNoFill ==
  ASSUME TypeOK, NEW i \in Intents, NEW j \in Intents, state'[j] = "FILLED",
         RegisterDraft(i) \/ MutateIntent(i) \/ CreatePreview(i) \/ Approve(i)
           \/ Cancel(i) \/ ClaimForExternalExecution(i)
  PROVE  state[j] = "FILLED"
<1> USE DEF TypeOK, SetState
<1>1. CASE RegisterDraft(i) \/ MutateIntent(i) \/ Cancel(i)
  BY <1>1 DEF RegisterDraft, MutateIntent, Cancel, CancelTarget
<1>2. CASE CreatePreview(i)
  BY <1>2 DEF CreatePreview, PreviewHalted, PreviewFailed, PreviewBuilt, Moved
<1>3. CASE Approve(i)
  BY <1>3 DEF Approve, ApproveShown, ApproveOther, Moved
<1>4. CASE ClaimForExternalExecution(i)
  BY <1>4 DEF ClaimForExternalExecution, Refused, RevalidationHalted, RevalidationExpired,
              RevalidationFailed, RevalidationRefused, Moved
<1> QED
  BY <1>1, <1>2, <1>3, <1>4

(* A record becomes FILLED by a report of the fill only.                   *)
LEMMA FilledByReport ==
  ASSUME BoundaryType, BoundaryStep, NEW j \in Intents, state'[j] = "FILLED"
  PROVE  \/ state[j] = "FILLED"
         \/ \E m \in net : /\ HandleReport(m) /\ m \in ReportMessages
                           /\ m.trade = j /\ m.status = "FILLED"
<1>1. ASSUME NEW i \in Intents, EdgeOperation(i) PROVE state[j] = "FILLED"
  BY <1>1, OperationNoFill DEF EdgeOperation, BoundaryType
<1>2. ASSUME NEW m \in net, HandleClaim(m) PROVE state[j] = "FILLED"
  BY <1>2, ClaimHandled, OperationNoFill DEF ClaimMessages, vars, BoundaryType
<1>3. ASSUME NEW m \in net, HandleReport(m)
      PROVE  state[j] = "FILLED" \/ (m \in ReportMessages /\ m.trade = j /\ m.status = "FILLED")
  <2>1. m \in ReportMessages
    BY <1>3, ReportHandled
  <2>2. CASE UNCHANGED vars
    BY <2>2 DEF vars
  <2>3. CASE m.status \in ReportStatuses /\ RecordExecutionReport(m.trade, m.status)
    <3>1. state' = [state EXCEPT ![m.trade] = ReportedState(@, ReportTarget(m.status))]
      BY <2>3 DEF RecordExecutionReport, SetState
    <3>2. CASE m.trade # j
      BY <3>1, <3>2 DEF BoundaryType, TypeOK
    <3>3. CASE m.trade = j /\ ReportTarget(m.status) # "FILLED"
      <4>1. state'[j] = ReportedState(state[j], ReportTarget(m.status))
        BY <3>1, <3>3 DEF BoundaryType, TypeOK
      <4> QED
        BY <3>3, <4>1 DEF ReportedState, Moved
    <3>4. CASE ReportTarget(m.status) = "FILLED"
      BY <2>1, <3>2, <3>4 DEF ReportTarget
    <3> QED
      BY <3>2, <3>3, <3>4
  <2> QED
    BY <1>3, <2>1, <2>2, <2>3, ReportHandled
<1>4. CASE EdgeRestart
  BY <1>4 DEF EdgeRestart
<1>5. CASE EdgeEnvironment \/ ExecutorStep \/ Timeout \/ ExecutorDies \/ BrokerFills
             \/ \E m \in net : Lost(m)
  <2>1. UNCHANGED state
    BY <1>5 DEF EdgeEnvironment, SwitchMoves, Tick, ExecutorStep, Poll, SkipClaimed, EndOfList,
                SendClaim, ClaimAnswered, PlaceOrder, SendReport, ReportAnswered, Timeout,
                ExecutorDies, Abandon, BrokerFills, Lost, recordVars
  <2> QED
    BY <2>1
<1> QED
  BY <1>1, <1>2, <1>3, <1>4, <1>5 DEF BoundaryStep, Handle

(* The broker takes no fill back.                                          *)
LEMMA FillsStay ==
  ASSUME BoundaryType, BoundaryStep, NEW j \in Intents, broker[j] = "FILLED"
  PROVE  broker'[j] = "FILLED"
<1>1. CASE PlaceOrder
  BY <1>1 DEF PlaceOrder, Done, BoundaryType, BrokerType, ExecutorType, BusyStates
<1>2. CASE BrokerFills
  BY <1>2 DEF BrokerFills, BoundaryType, BrokerType
<1>3. CASE UNCHANGED broker
  BY <1>3
<1> QED
  BY <1>1, <1>2, <1>3
     DEF BoundaryStep, Handle, HandleClaim, HandleReport, EdgeOperation, EdgeEnvironment,
         EdgeRestart, ExecutorStep, Poll, SkipClaimed, EndOfList, SendClaim, ClaimAnswered,
         SendReport, ReportAnswered, Timeout, ExecutorDies, Abandon, Lost, brokerVars

(* What the executor reports, it was told.                                 *)
LEMMA OutcomeIsReal ==
  ASSUME BoundaryType, BoundaryStep, FillInv, pc' \in {"REPORTING", "CONFIRMING"},
         outcome' = "FILLED"
  PROVE  broker'[current'] = "FILLED"
<1>1. CASE PlaceOrder
  <2>1. PICK result \in {"FILLED", "OPEN", Nothing}, raised \in BOOLEAN :
          /\ outcome' = IF raised THEN "ERROR"
                        ELSE IF result = "FILLED" THEN "FILLED" ELSE "ACCEPTED"
          /\ broker' = [broker EXCEPT ![current] = Done(current, result)]
    BY <1>1 DEF PlaceOrder
  <2>2. current \in Intents /\ current' = current
    BY <1>1 DEF PlaceOrder, BoundaryType, ExecutorType, BusyStates
  <2>3. Done(current, result) = "FILLED"
    BY <2>1 DEF Done, Nothing
  <2> QED
    BY <2>1, <2>2, <2>3 DEF BoundaryType, BrokerType
<1>2. CASE SendReport
  BY <1>2 DEF SendReport, FillInv, brokerVars
<1>3. CASE UNCHANGED <<pc, current, outcome>>
  BY <1>3, FillsStay DEF FillInv, BoundaryType, ExecutorType, BusyStates
<1> QED
  BY <1>1, <1>2, <1>3
     DEF BoundaryStep, Handle, HandleClaim, HandleReport, EdgeOperation, EdgeEnvironment,
         EdgeRestart, ExecutorStep, Poll, SkipClaimed, EndOfList, SendClaim, ClaimAnswered,
         ReportAnswered, Timeout, ExecutorDies, Abandon, Lost, BrokerFills, executorVars

(* Nor does a report change on its way, other than to grow stale.          *)
LEMMA ReportsAreReal ==
  ASSUME BoundaryType, BoundaryType', BoundaryStep, FillInv,
         NEW m \in net', m \in ReportMessages, m.status = "FILLED"
  PROVE  broker'[m.trade] = "FILLED"
<1>1. m.trade \in Intents
  BY DEF ReportMessages
<1>2. CASE m \in net
  BY <1>1, <1>2, FillsStay DEF FillInv
<1>3. CASE SendReport
  BY <1>2, <1>3 DEF SendReport, ReportRequest, FillInv, brokerVars
<1>4. CASE SendClaim
  BY <1>2, <1>4 DEF SendClaim, ClaimRequest, ReportMessages
<1>5. CASE Abandon
  <2>1. PICK n \in net : m = [n EXCEPT !.stale = TRUE]
    BY <1>5 DEF Abandon
  <2>2. n \in ReportMessages /\ n.trade = m.trade /\ n.status = m.status
    BY <2>1 DEF BoundaryType, NetType, ClaimMessages, ReportMessages
  <2> QED
    BY <1>5, <2>2 DEF FillInv, Abandon, brokerVars
<1> QED
  BY <1>2, <1>3, <1>4, <1>5
     DEF BoundaryStep, Handle, HandleClaim, HandleReport, EdgeOperation, EdgeEnvironment,
         EdgeRestart, ExecutorStep, Poll, SkipClaimed, EndOfList, ClaimAnswered, PlaceOrder,
         ReportAnswered, Timeout, ExecutorDies, Lost, BrokerFills, executorVars

LEMMA FillStep ==
  ASSUME BoundaryType, FillInv, [BoundaryNext]_<<boundaryVars, edgeFails>>
  PROVE  FillInv'
<1>1. CASE UNCHANGED <<boundaryVars, edgeFails>>
  BY <1>1 DEF FillInv, FilledIsReal, boundaryVars, recordVars, executorVars, brokerVars
<1>2. CASE BoundaryStep
  <2>1. BoundaryType'
    BY BoundaryTypeStep
  <2>2. FilledIsReal'
    BY <1>2, FilledByReport, FillsStay DEF FillInv, FilledIsReal
  <2> QED
    BY <1>2, <2>1, <2>2, OutcomeIsReal, ReportsAreReal DEF FillInv
<1> QED
  BY <1>1, <1>2 DEF BoundaryNext

(* EDGE believes no fill that did not happen, whatever is lost, late or    *)
(* answered to nobody, and whoever restarts.                               *)
THEOREM FillsAreReal == BoundarySpec => []FilledIsReal
<1>1. BoundaryInit => FillInv
  BY DEF BoundaryInit, Init, FillInv, FilledIsReal
<1>2. BoundaryType /\ FillInv /\ [BoundaryNext]_<<boundaryVars, edgeFails>> => FillInv'
  BY FillStep
<1>3. FillInv => FilledIsReal
  BY DEF FillInv
<1> QED
  BY <1>1, <1>2, <1>3, BoundaryTypeAlways, PTL DEF BoundarySpec

-----------------------------------------------------------------------------
(* Hand-offs.  As long as EDGE does not restart, its records are those of  *)
(* the transaction service, so that a trade is handed off once.  Whoever   *)
(* may still place a trade - the client that was granted it, before or     *)
(* after it has read the answer - holds that one hand-off, and a key is    *)
(* only claimed with it.                                                   *)

HandedOff(i) == orders[i] # <<>>
GrantOf(i) == pc = "CLAIMING" /\ current = i /\ reply \in Grants(i)
MayPlace(i) == GrantOf(i) \/ (pc = "PLACING" /\ current = i)

OnceInv(i) ==
  /\ placements[i] <= 1
  /\ placements[i] > 0 \/ MayPlace(i) => HandedOff(i)
  /\ MayPlace(i) => placements[i] = 0
  /\ \A k \in claimed : k[1] = i => HandedOff(i)
  /\ \A k, l \in claimed : k[1] = i /\ l[1] = i => k = l
  /\ GrantOf(i) => \A k \in claimed : k[1] # i

BoundaryInv == IInv /\ \A i \in Intents : OnceInv(i)

(* The transaction service under the boundary keeps its invariant.         *)
LEMMA RecordsStay ==
  ASSUME BoundaryType, IInv, ~edgeFails, BoundaryStep
  PROVE  IInv' /\ [Next]_vars
<1>1. [Next]_vars
  BY RecordSteps DEF EdgeRestart
<1> QED
  BY <1>1, IInvStep

(* No order is taken back.                                                 *)
LEMMA OrdersStay ==
  ASSUME TypeOK, [Next]_vars, NEW j \in Intents, HandedOff(j)
  PROVE  HandedOff(j)'
<1>1. ASSUME NEW i \in Intents, NEW c, NEW fresh, SendOrder(i, c, fresh)
      PROVE  HandedOff(j)'
  <2> DEFINE o == Order(i, c, fresh)
  <2>1. orders[j] \in Seq(OrderType \union {o})
    BY DEF TypeOK
  <2>2. orders'[j] = orders[j] \/ orders'[j] = Append(orders[j], o)
    BY <1>1 DEF SendOrder, TypeOK
  <2> HIDE DEF o
  <2>3. Len(Append(orders[j], o)) = Len(orders[j]) + 1 /\ Len(orders[j]) \in Nat
    BY <2>1
  <2>4. Append(orders[j], o) # <<>>
    BY <2>3
  <2> QED
    BY <2>2, <2>4 DEF HandedOff
<1>2. CASE UNCHANGED orders
  BY <1>2 DEF HandedOff
<1>3. UNCHANGED orders \/ \E i \in Intents, c \in {"BROKER", "EXTERNAL"} :
                            \E fresh : SendOrder(i, c, fresh)
  BY DEF Next, Operation, RegisterDraft, MutateIntent, CreatePreview, Approve, Execute, Route,
         ClaimForExternalExecution, Refused, RecordExecutionReport, Cancel, SwitchMoves, Tick, vars
<1> QED
  BY <1>1, <1>2, <1>3

(* A claim is granted for a trade not handed off before, and hands it off. *)
LEMMA GrantHandsOff ==
  ASSUME BoundaryType, IInv, ~edgeFails, NEW m \in net, HandleClaim(m),
         NEW i \in Intents, GrantOf(i)', ~GrantOf(i)
  PROVE  ~HandedOff(i) /\ HandedOff(i)'
<1>1. m \in ClaimMessages /\ m.trade \in Intents
  BY ClaimHandled DEF ClaimMessages
<1>2. pc = "CLAIMING" /\ current = i /\ reply' \in Grants(i)
  BY DEF HandleClaim, GrantOf, Grants, executorVars
<1>3. reply' # reply /\ reply' # Refusal
  BY <1>2 DEF GrantOf, Grants, Refusal
<1>4. ~m.stale /\ m.trade = i
  BY <1>1, <1>2, <1>3, AnswerType DEF HandleClaim, Answer
<1>5. state[i] = "APPROVED" /\ state'[i] = "SUBMITTED"
  BY <1>1, <1>3, <1>4, ClaimHandled DEF Answer
<1>6. IInv'
  BY RecordsStay DEF BoundaryStep, Handle
<1> QED
  BY <1>5, <1>6 DEF IInv, RecordInv, OrderStates, HandedOff

LEMMA OnceStep ==
  ASSUME BoundaryType, BoundaryType', BoundaryInv, ~edgeFails, BoundaryStep, NEW i \in Intents
  PROVE  OnceInv(i)'
<1>1. OnceInv(i) /\ TypeOK /\ [Next]_vars
  BY RecordsStay DEF BoundaryInv, BoundaryType
<1>2. HandedOff(i) => HandedOff(i)'
  BY <1>1, OrdersStay
<1>3. CASE UNCHANGED <<pc, current, reply, claimed, placements>>
  BY <1>1, <1>2, <1>3 DEF OnceInv, MayPlace, GrantOf, Grants
<1>4. CASE Handle
  <2>1. UNCHANGED <<pc, current, claimed, placements>>
    BY <1>4 DEF Handle, HandleClaim, HandleReport, executorVars, brokerVars
  <2>2. CASE GrantOf(i)' => GrantOf(i)
    BY <1>1, <1>2, <2>1, <2>2 DEF OnceInv, MayPlace, GrantOf
  <2>3. CASE GrantOf(i)' /\ ~GrantOf(i)
    <3>1. PICK m \in net : HandleClaim(m) \/ HandleReport(m)
      BY <1>4 DEF Handle
    <3>2. HandleClaim(m)
      BY <2>3, <3>1, ReportHandled
         DEF GrantOf, Grants, Refusal, Received, HandleReport, executorVars
    <3>3. ~HandedOff(i) /\ HandedOff(i)'
      BY <2>3, <3>2, GrantHandsOff DEF BoundaryInv
    <3>4. placements[i] = 0 /\ \A k \in claimed : k[1] # i
      BY <1>1, <3>3 DEF OnceInv, BoundaryType, BrokerType
    <3> QED
      BY <2>1, <2>3, <3>3, <3>4 DEF OnceInv, MayPlace, GrantOf
  <2> QED
    BY <2>2, <2>3
<1>5. CASE ClaimAnswered
  <2>1. CASE reply = Refusal
    BY <1>1, <1>2, <1>5, <2>1 DEF ClaimAnswered, OnceInv, MayPlace, GrantOf, brokerVars
  <2>2. CASE reply # Refusal
    <3>1. current \in Intents /\ reply \in Grants(current)
      BY <1>5, <2>2 DEF ClaimAnswered, BoundaryType, ExecutorType, BusyStates
    <3>2. reply.key[1] = current /\ GrantOf(current)
      BY <1>5, <3>1 DEF Grants, GrantOf, ClaimAnswered
    <3> QED
      BY <1>1, <1>2, <1>5, <2>2, <3>2
         DEF ClaimAnswered, OnceInv, MayPlace, GrantOf, brokerVars
  <2> QED
    BY <2>1, <2>2
<1>6. CASE PlaceOrder
  <2>1. current \in Intents /\ pc = "PLACING" /\ pc' = "REPORTING"
    BY <1>6 DEF PlaceOrder, BoundaryType, ExecutorType, BusyStates
  <2>2. CASE current = i
    <3>1. placements[i] = 0 /\ HandedOff(i)
      BY <1>1, <2>1, <2>2 DEF OnceInv, MayPlace
    <3>2. placements'[i] \in {0, 1}
      BY <1>6, <2>2, <3>1 DEF PlaceOrder, BoundaryType, BrokerType
    <3> QED
      BY <1>1, <1>2, <1>6, <2>1, <3>1, <3>2 DEF PlaceOrder, OnceInv, MayPlace, GrantOf
  <2>3. CASE current # i
    <3>1. placements'[i] = placements[i]
      BY <1>6, <2>1, <2>3 DEF PlaceOrder, BoundaryType, BrokerType
    <3> QED
      BY <1>1, <1>2, <1>6, <2>1, <3>1 DEF PlaceOrder, OnceInv, MayPlace, GrantOf
  <2> QED
    BY <2>2, <2>3
<1>7. CASE SendClaim \/ SendReport \/ ReportAnswered \/ Timeout \/ ExecutorDies
  <2>1. ~MayPlace(i)' /\ claimed' \subseteq claimed /\ UNCHANGED placements
    BY <1>7 DEF SendClaim, SendReport, ReportAnswered, Timeout, ExecutorDies, Abandon,
                MayPlace, GrantOf, Grants, NoReply, brokerVars
  <2> QED
    BY <1>1, <1>2, <2>1 DEF OnceInv, MayPlace
<1>8. CASE Poll \/ SkipClaimed \/ EndOfList
  <2>1. ~MayPlace(i)' /\ UNCHANGED <<claimed, placements>>
    BY <1>8 DEF Poll, SkipClaimed, EndOfList, MayPlace, GrantOf, brokerVars
  <2> QED
    BY <1>1, <1>2, <2>1 DEF OnceInv, MayPlace
<1> QED
  BY <1>3, <1>4, <1>5, <1>6, <1>7, <1>8
     DEF BoundaryStep, EdgeOperation, EdgeEnvironment, EdgeRestart, ExecutorStep, Lost,
         BrokerFills, executorVars, brokerVars

LEMMA BoundaryInvInit == BoundaryInit => BoundaryInv
<1> SUFFICES ASSUME BoundaryInit PROVE BoundaryInv
  OBVIOUS
<1>1. IInv
  BY InitType, RecordInit DEF BoundaryInit, IInv
<1>2. ASSUME NEW i \in Intents PROVE OnceInv(i)
  BY DEF BoundaryInit, OnceInv, MayPlace, GrantOf
<1> QED
  BY <1>1, <1>2 DEF BoundaryInv

LEMMA BoundaryInvStep ==
  ASSUME BoundaryType, BoundaryInv, ~edgeFails, [BoundaryNext]_<<boundaryVars, edgeFails>>
  PROVE  BoundaryInv'
<1>1. CASE UNCHANGED <<boundaryVars, edgeFails>>
  <2>1. IInv'
    BY <1>1, IInvStep DEF BoundaryInv, boundaryVars, recordVars, vars
  <2>2. ASSUME NEW i \in Intents PROVE OnceInv(i)'
    BY <1>1 DEF BoundaryInv, OnceInv, MayPlace, GrantOf, Grants, HandedOff, boundaryVars,
                recordVars, executorVars, brokerVars
  <2> QED
    BY <2>1, <2>2 DEF BoundaryInv
<1>2. CASE BoundaryStep
  <2>1. BoundaryType'
    BY BoundaryTypeStep
  <2>2. IInv'
    BY <1>2, RecordsStay DEF BoundaryInv
  <2> QED
    BY <1>2, <2>1, <2>2, OnceStep DEF BoundaryInv
<1> QED
  BY <1>1, <1>2 DEF BoundaryNext

LEMMA BoundaryInvAlways == BoundarySpec => [](BoundaryType /\ (edgeFails \/ BoundaryInv))
<1>1. BoundaryInit => BoundaryType /\ (edgeFails \/ BoundaryInv)
  BY BoundaryTypeInit, BoundaryInvInit
<1>2. BoundaryType /\ (edgeFails \/ BoundaryInv) /\ [BoundaryNext]_<<boundaryVars, edgeFails>>
        => (BoundaryType /\ (edgeFails \/ BoundaryInv))'
  <2> SUFFICES ASSUME BoundaryType, edgeFails \/ BoundaryInv,
                      [BoundaryNext]_<<boundaryVars, edgeFails>>
               PROVE  BoundaryType' /\ (edgeFails' \/ BoundaryInv')
    OBVIOUS
  <2>1. BoundaryType'
    BY BoundaryTypeStep
  <2>2. CASE edgeFails
    BY <2>1, <2>2, Zenon DEF BoundaryNext
  <2>3. CASE ~edgeFails
    BY <2>1, <2>3, BoundaryInvStep
  <2> QED
    BY <2>2, <2>3
<1> QED
  BY <1>1, <1>2, PTL DEF BoundarySpec

-----------------------------------------------------------------------------
(* An EDGE that does not restart is the transaction service to the letter: *)
(* whatever network and executor do, all that holds of the service holds   *)
(* of it behind the boundary.                                              *)
THEOREM BoundaryUsesService == BoundarySpec /\ ~edgeFails => Spec
<1>1. BoundaryInit => Init
  BY DEF BoundaryInit
<1>2. BoundaryType /\ ~edgeFails /\ [BoundaryNext]_<<boundaryVars, edgeFails>>
        => [Next]_vars /\ ~edgeFails'
  BY RecordSteps DEF BoundaryNext, EdgeRestart, boundaryVars, recordVars, vars
<1> QED
  BY <1>1, <1>2, BoundaryTypeAlways, PTL DEF BoundarySpec, Spec

(* As long as EDGE does not restart, no executor process claims a trade    *)
(* under two keys, whatever becomes of the intent in between.              *)
THEOREM TradesAreClaimedOnce == BoundarySpec /\ ~edgeFails => []TradesClaimedOnce
<1>1. BoundaryType /\ BoundaryInv => TradesClaimedOnce
  <2> SUFFICES ASSUME BoundaryType, BoundaryInv, NEW k \in claimed, NEW l \in claimed,
                      k[1] = l[1]
               PROVE  k = l
    BY DEF TradesClaimedOnce
  <2>1. k[1] \in Intents
    BY DEF BoundaryType, ExecutorType, Keys
  <2> QED
    BY <2>1 DEF BoundaryInv, OnceInv
<1>2. BoundarySpec /\ ~edgeFails => []~edgeFails
  <2>1. ~edgeFails /\ [BoundaryNext]_<<boundaryVars, edgeFails>> => ~edgeFails'
    BY DEF BoundaryNext
  <2> QED
    BY <2>1, PTL DEF BoundarySpec
<1> QED
  BY <1>1, <1>2, BoundaryInvAlways, PTL

-----------------------------------------------------------------------------
(* The boundary implements Dispatch.  What a trade is in the abstraction   *)
(* follows from its orders, its placements and whether it was closed; one  *)
(* step changes it for one trade at most.                                  *)

Phases == [i \in Intents |-> PhaseOf(i)]

(* A trade that was closed unsent stays so.                                *)
LEMMA ClosedStays ==
  ASSUME TypeOK, [Next]_vars, NEW j \in Intents, state[j] \in Closed, ~HandedOff(j)
  PROVE  state'[j] \in Closed /\ ~HandedOff(j)'
<1>1. ASSUME NEW i \in Intents, Operation(i), i # j PROVE UNCHANGED <<state[j], orders[j]>>
  BY <1>1, OperationFrame
<1>2. ASSUME Operation(j) PROVE UNCHANGED <<state[j], orders[j]>>
  <2> USE DEF TypeOK, SetState, CanMove, Closed
  <2>1. CASE RegisterDraft(j) \/ MutateIntent(j) \/ Cancel(j)
    BY <2>1 DEF RegisterDraft, MutateIntent, Cancel
  <2>2. CASE CreatePreview(j) \/ Execute(j) \/ ClaimForExternalExecution(j)
    BY <2>2 DEF CreatePreview, Execute, ClaimForExternalExecution, EntersRevalidation
  <2>3. CASE Approve(j)
    BY <2>3 DEF Approve, ApproveShown, ApproveOther, Moved
  <2>4. CASE \E s \in ReportStatuses : RecordExecutionReport(j, s)
    BY <2>4 DEF RecordExecutionReport, ReportedState, Moved
  <2> QED
    BY <1>2, <2>1, <2>2, <2>3, <2>4 DEF Operation
<1>3. UNCHANGED <<state[j], orders[j]>>
  BY <1>1, <1>2 DEF Next, SwitchMoves, Tick, vars
<1> QED
  BY <1>3 DEF HandedOff

(* What the records do of themselves closes a trade or sends it.           *)
LEMMA PhaseOfRecords ==
  ASSUME BoundaryType, BoundaryInv, ~edgeFails, ~edgeFails', [Next]_vars, NEW j \in Intents,
         placements'[j] = placements[j]
  PROVE  \/ PhaseOf(j)' = PhaseOf(j)
         \/ PhaseOf(j) = "open" /\ PhaseOf(j)' \in {"closed", "sent"}
<1>1. OnceInv(j) /\ placements[j] \in Nat
  BY DEF BoundaryInv, BoundaryType, BrokerType
<1>2. CASE HandedOff(j)
  <2>1. HandedOff(j)'
    BY <1>2, OrdersStay DEF BoundaryType
  <2> QED
    BY <1>2, <2>1 DEF PhaseOf, HandedOff
<1>3. CASE ~HandedOff(j)
  <2>1. placements[j] = 0
    BY <1>1, <1>3 DEF OnceInv
  <2>2. state[j] \in Closed => PhaseOf(j)' = PhaseOf(j)
    BY <1>3, <2>1, ClosedStays DEF PhaseOf, HandedOff, BoundaryType
  <2>3. state[j] \notin Closed => PhaseOf(j) = "open"
    BY <1>3, <2>1 DEF PhaseOf, HandedOff
  <2>4. PhaseOf(j)' \in {"open", "closed", "sent"}
    BY <2>1 DEF PhaseOf
  <2> QED
    BY <2>2, <2>3, <2>4
<1> QED
  BY <1>2, <1>3

(* A placement is the first, and of a trade sent before.                   *)
LEMMA PhaseOfPlacement ==
  ASSUME BoundaryType, BoundaryInv, ~edgeFails, ~edgeFails', PlaceOrder, NEW j \in Intents
  PROVE  \/ PhaseOf(j)' = PhaseOf(j)
         \/ j = current /\ PhaseOf(j) = "sent" /\ PhaseOf(j)' = "placed"
<1>1. current \in Intents /\ pc = "PLACING"
  BY DEF PlaceOrder, BoundaryType, ExecutorType, BusyStates
<1>2. UNCHANGED <<state, orders>>
  BY DEF PlaceOrder, recordVars
<1>3. CASE j # current
  BY <1>1, <1>2, <1>3 DEF PlaceOrder, BoundaryType, BrokerType, PhaseOf
<1>4. CASE j = current
  <2>1. placements[j] = 0 /\ HandedOff(j)
    BY <1>1, <1>4 DEF BoundaryInv, OnceInv, MayPlace
  <2>2. placements'[j] \in {0, 1}
    BY <1>4, <2>1 DEF PlaceOrder, BoundaryType, BrokerType
  <2> QED
    BY <1>2, <1>4, <2>1, <2>2 DEF PhaseOf, HandedOff
<1> QED
  BY <1>3, <1>4

(* One trade at a time.                                                    *)
LEMMA OneTradeMoves ==
  ASSUME BoundaryType, BoundaryInv, ~edgeFails, ~edgeFails', BoundaryStep, Intents # {}
  PROVE  \E i \in Intents : /\ \A j \in Intents \ {i} : PhaseOf(j)' = PhaseOf(j)
                            /\ \/ PhaseOf(i)' = PhaseOf(i)
                               \/ PhaseOf(i) = "open" /\ PhaseOf(i)' \in {"closed", "sent"}
                               \/ PhaseOf(i) = "sent" /\ PhaseOf(i)' = "placed"
<1>1. CASE PlaceOrder
  <2>1. current \in Intents
    BY <1>1 DEF PlaceOrder, BoundaryType, ExecutorType, BusyStates
  <2> QED
    BY <1>1, <2>1, PhaseOfPlacement
<1>2. CASE ~PlaceOrder
  <2>1. UNCHANGED placements
    BY <1>2 DEF BoundaryStep, Handle, HandleClaim, HandleReport, EdgeOperation, EdgeEnvironment,
                EdgeRestart, ExecutorStep, Poll, SkipClaimed, EndOfList, SendClaim, ClaimAnswered,
                SendReport, ReportAnswered, Timeout, ExecutorDies, Abandon, Lost,
                BrokerFills, brokerVars
  <2>2. [Next]_vars
    BY RecordSteps DEF EdgeRestart
  <2>3. PICK i \in Intents : \A j \in Intents \ {i} : UNCHANGED <<state[j], orders[j]>>
    <3>1. CASE \E i \in Intents : Operation(i)
      BY <3>1, OperationFrame DEF BoundaryType
    <3>2. CASE SwitchMoves \/ Tick \/ UNCHANGED vars
      BY <3>2 DEF SwitchMoves, Tick, vars
    <3> QED
      BY <2>2, <3>1, <3>2 DEF Next
  <2>4. \A j \in Intents \ {i} : PhaseOf(j)' = PhaseOf(j)
    BY <2>1, <2>3 DEF PhaseOf
  <2> QED
    BY <2>1, <2>2, <2>4, PhaseOfRecords
<1> QED
  BY <1>1, <1>2

LEMMA DispatchStep ==
  ASSUME BoundaryType, edgeFails \/ BoundaryInv, [BoundaryNext]_<<boundaryVars, edgeFails>>
  PROVE  [Abstract!Next]_Phases
<1>1. CASE UNCHANGED <<boundaryVars, edgeFails>>
  BY <1>1 DEF Phases, PhaseOf, boundaryVars, recordVars, brokerVars
<1>2. CASE edgeFails
  <2>1. edgeFails'
    BY <1>1, <1>2, Zenon DEF BoundaryNext
  <2> QED
    BY <1>2, <2>1 DEF Phases, PhaseOf
<1>3. CASE ~edgeFails /\ BoundaryNext
  <2>1. BoundaryStep /\ ~edgeFails'
    BY <1>3 DEF BoundaryNext
  <2>2. CASE Intents = {}
    BY <2>2 DEF Phases
  <2>3. CASE Intents # {}
    <3>1. PICK i \in Intents : /\ \A j \in Intents \ {i} : PhaseOf(j)' = PhaseOf(j)
                               /\ \/ PhaseOf(i)' = PhaseOf(i)
                                  \/ PhaseOf(i) = "open" /\ PhaseOf(i)' \in {"closed", "sent"}
                                  \/ PhaseOf(i) = "sent" /\ PhaseOf(i)' = "placed"
      BY <1>3, <2>1, <2>3, OneTradeMoves
    <3>2. Phases' = [Phases EXCEPT ![i] = PhaseOf(i)']
      BY <3>1 DEF Phases
    <3>3. PhaseOf(i)' = PhaseOf(i) => UNCHANGED Phases
      BY <3>1 DEF Phases
    <3> QED
      BY <3>1, <3>2, <3>3
         DEF Abstract!Next, Abstract!Close, Abstract!Send, Abstract!Place, Abstract!Goes, Phases
  <2> QED
    BY <2>2, <2>3
<1> QED
  BY <1>1, <1>2, <1>3

(* Every trade is closed unsent, or sent once and placed at most once.     *)
THEOREM BoundaryDispatches == BoundarySpec => ImplementsDispatch
<1>1. BoundaryInit => Abstract!Init
  BY DEF BoundaryInit, Init, Abstract!Init, PhaseOf, Closed
<1> QED
  BY <1>1, DispatchStep, BoundaryInvAlways, PTL
     DEF BoundarySpec, ImplementsDispatch, Abstract!Spec, Phases
=============================================================================
