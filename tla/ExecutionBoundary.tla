------------------------- MODULE ExecutionBoundary -------------------------
(***************************************************************************)
(* EDGE, the external executor and the broker: execution/gateway.py and    *)
(* api/execution_app.py in front of Transactions, and the poll - claim -   *)
(* place - report loop of execution/client.py on the other side of HTTP.   *)
(*                                                                         *)
(* A request is handled in one step on the event loop of EDGE.  The client *)
(* waits for the answer to each request before its next step, or gives up  *)
(* after its timeout: then the request may have been lost, its answer may  *)
(* have been lost, or EDGE may still handle it later.                      *)
(***************************************************************************)
EXTENDS Transactions, FiniteSets

CONSTANTS
  NetworkFails,   \* whether requests may time out
  ExecutorFails,  \* whether the executor process may die
  LateFills,      \* whether the broker fills orders after acknowledging them
  MaxHandOffs     \* EDGE restarts only while every trade was handed off less often

ASSUME FaultAssumption ==
  /\ NetworkFails \in BOOLEAN
  /\ ExecutorFails \in BOOLEAN
  /\ LateFills \in BOOLEAN
  /\ MaxHandOffs \in Nat

VARIABLES
  pc,        \* where run_once is
  worklist,  \* instructions of the last list_orders still to be looked at
  current,   \* the trade _execute_one is working on, or Nothing
  claimed,   \* self._claimed: idempotency keys, in memory only
  outcome,   \* the status to report
  net,       \* requests EDGE has not handled yet
  reply,     \* the answer on its way to the waiting client
  placements,\* history: how often a trade was placed at the broker
  broker,    \* what the broker did with it: the most, if placed more than once
  stored,    \* portfolio_store: the reports EDGE has accepted
  edgeFails  \* whether EDGE may restart: never changes

recordVars == <<state, econ, preview, approval, fingerprint, orders, locked, clock>>
executorVars == <<pc, worklist, current, claimed, outcome>>
brokerVars == <<placements, broker>>
boundaryVars == <<recordVars, executorVars, net, reply, brokerVars, stored>>

Nothing == "NOTHING"
\* instruction_id and idempotency_key: the trade and its approved fingerprint.
Key(i) == <<i, fingerprint[i]>>

(* A request the client no longer waits for is stale.                      *)
ClaimRequest(i) == [kind |-> "claim", trade |-> i, stale |-> FALSE]
ReportRequest(i, s) == [kind |-> "report", trade |-> i, status |-> s, stale |-> FALSE]

(* What a claim is answered with is the instruction as it is then.         *)
NoReply == [answer |-> "NONE"]
Refusal == [answer |-> "REFUSED"]
Received == [answer |-> "OK"]
Granted(i) == [answer |-> "OK", key |-> Key(i)]

BoundaryInit ==
  /\ Init
  /\ pc = "IDLE"
  /\ worklist = {}
  /\ current = Nothing
  /\ claimed = {}
  /\ outcome = Nothing
  /\ net = {}
  /\ reply = NoReply
  /\ placements = [i \in Intents |-> 0]
  /\ broker = [i \in Intents |-> Nothing]
  /\ stored = {}
  /\ edgeFails \in {FALSE, MaxHandOffs > 0}

-----------------------------------------------------------------------------
(* EDGE.                                                                   *)

\* executable(): what list_orders returns.
Executable ==
  IF locked THEN {}
  ELSE {i \in Intents : /\ state[i] = "APPROVED"
                        /\ preview[i] # NoPreview
                        /\ approval[i] # NoApproval
                        /\ ~ApprovalExpired(i)}

Answer(m, r) == reply' = IF m.stale THEN reply ELSE r

(* gateway.claim: anything but a record left SUBMITTED is an error answer. *)
HandleClaim(m) ==
  /\ m \in net /\ m.kind = "claim"
  /\ net' = net \ {m}
  /\ \/ /\ state[m.trade] # "APPROVED"
        /\ UNCHANGED recordVars
        /\ Answer(m, Refusal)
     \/ /\ state[m.trade] = "APPROVED"
        /\ ClaimForExternalExecution(m.trade)
        /\ Answer(m, IF state'[m.trade] = "SUBMITTED" THEN Granted(m.trade) ELSE Refusal)
  /\ UNCHANGED <<executorVars, brokerVars, stored>>

\* A restarted EDGE does not know the trade.
RefuseReport(m) ==
  /\ state[m.trade] = "UNREGISTERED"
  /\ UNCHANGED <<recordVars, stored>>
  /\ Answer(m, Refusal)

\* Mutation: a trade somebody asked to cancel takes no more reports.
TakeReportUnlessCancelling(m) ==
  /\ state[m.trade] # "UNREGISTERED"
  /\ IF m.status = "ACCEPTED" \/ state[m.trade] = "CANCEL_REQUESTED"
     THEN UNCHANGED recordVars
     ELSE RecordExecutionReport(m.trade, m.status)
  /\ stored' = stored \union {<<m.trade, m.status>>}
  /\ Answer(m, Received)

\* gateway.report: the record first, then the portfolio store.
TakeReport(m) ==
  /\ state[m.trade] # "UNREGISTERED"
  /\ IF m.status = "ACCEPTED" THEN UNCHANGED recordVars
     ELSE RecordExecutionReport(m.trade, m.status)
  /\ stored' = stored \union {<<m.trade, m.status>>}
  /\ Answer(m, Received)

HandleReport(m) ==
  /\ m \in net /\ m.kind = "report"
  /\ net' = net \ {m}
  /\ RefuseReport(m) \/ TakeReport(m)
  /\ UNCHANGED <<executorVars, brokerVars>>

(* Everything that happens to records other than through the executor.     *)
EdgeOperation(i) ==
  /\ \/ RegisterDraft(i)
     \/ MutateIntent(i)
     \/ CreatePreview(i)
     \/ Approve(i)
     \/ Cancel(i)
  /\ UNCHANGED <<executorVars, net, reply, brokerVars, stored>>

EdgeEnvironment ==
  /\ SwitchMoves \/ Tick
  /\ UNCHANGED <<executorVars, net, reply, brokerVars, stored>>

(* EDGE keeps its records in memory: a restart forgets them all, and trades *)
(* may be drafted again under the ids they had.                            *)
EdgeRestart ==
  /\ edgeFails
  /\ \A i \in Intents : Len(orders[i]) < MaxHandOffs
  /\ state' = [i \in Intents |-> "UNREGISTERED"]
  /\ econ' \in [Intents -> Economics]
  /\ preview' = [i \in Intents |-> NoPreview]
  /\ approval' = [i \in Intents |-> NoApproval]
  /\ fingerprint' = [i \in Intents |-> NoFingerprint]
  /\ UNCHANGED <<orders, locked, clock, executorVars, net, reply, brokerVars, stored>>

-----------------------------------------------------------------------------
(* The executor.                                                           *)

Poll ==
  /\ pc = "IDLE"
  /\ Executable # {}
  /\ pc' = "LOOP"
  /\ worklist' = {Key(i) : i \in Executable}
  /\ UNCHANGED <<recordVars, current, claimed, outcome, net, reply, brokerVars, stored>>

\* Instructions whose key this process has claimed are skipped.
SkipClaimed ==
  /\ pc = "LOOP"
  /\ worklist \intersect claimed # {}
  /\ worklist' = worklist \ claimed
  /\ UNCHANGED <<recordVars, pc, current, claimed, outcome, net, reply, brokerVars, stored>>

EndOfList ==
  /\ pc = "LOOP"
  /\ worklist = {}
  /\ pc' = "IDLE"
  /\ UNCHANGED <<recordVars, worklist, current, claimed, outcome, net, reply,
                 brokerVars, stored>>

\* Mutation: a key counts as claimed as soon as the claim is asked for.
SendClaimEagerly ==
  /\ pc = "LOOP"
  /\ \E k \in worklist \ claimed :
       /\ worklist' = worklist \ {k}
       /\ current' = k[1]
       /\ claimed' = claimed \union {k}
       /\ net' = net \union {ClaimRequest(k[1])}
  /\ pc' = "CLAIMING"
  /\ reply' = NoReply
  /\ UNCHANGED <<recordVars, outcome, brokerVars, stored>>

SendClaim ==
  /\ pc = "LOOP"
  /\ \E k \in worklist \ claimed :
       /\ worklist' = worklist \ {k}
       /\ current' = k[1]
       /\ net' = net \union {ClaimRequest(k[1])}
  /\ pc' = "CLAIMING"
  /\ reply' = NoReply
  /\ UNCHANGED <<recordVars, claimed, outcome, brokerVars, stored>>

\* Mutation: an error answer is not noticed.
ClaimTakenAsGranted ==
  /\ pc = "CLAIMING"
  /\ reply # NoReply
  /\ reply' = NoReply
  /\ pc' = "PLACING"
  /\ claimed' = claimed \union {Key(current)}
  /\ UNCHANGED <<recordVars, worklist, current, outcome, net, brokerVars, stored>>

ClaimAnswered ==
  /\ pc = "CLAIMING"
  /\ reply # NoReply
  /\ reply' = NoReply
  /\ IF reply # Refusal
     THEN /\ pc' = "PLACING"
          /\ claimed' = claimed \union {reply.key}
          /\ UNCHANGED current
     ELSE pc' = "LOOP" /\ current' = Nothing /\ UNCHANGED claimed
  /\ UNCHANGED <<recordVars, worklist, outcome, net, brokerVars, stored>>

\* What the broker has done with a trade, one more placement included.
Done(i, result) ==
  IF broker[i] = "FILLED" \/ result = Nothing THEN broker[i] ELSE result

\* Mutation: an acknowledged order is reported as filled.
PlaceOrderAssumingFill ==
  /\ pc = "PLACING"
  /\ pc' = "REPORTING"
  /\ outcome' = "FILLED"
  /\ \E result \in {"FILLED", "OPEN"} : broker' = [broker EXCEPT ![current] = Done(current, result)]
  /\ placements' = [placements EXCEPT ![current] = @ + 1]
  /\ UNCHANGED <<recordVars, worklist, current, claimed, net, reply, stored>>

(* place_order: filled at once, left open or refused, which the client     *)
(* reports as accepted too, or an exception, raised before or after the    *)
(* broker took the order.                                                  *)
PlaceOrder ==
  /\ pc = "PLACING"
  /\ pc' = "REPORTING"
  /\ \E result \in {"FILLED", "OPEN", Nothing}, raised \in BOOLEAN :
       /\ outcome' = IF raised THEN "ERROR"
                     ELSE IF result = "FILLED" THEN "FILLED" ELSE "ACCEPTED"
       /\ broker' = [broker EXCEPT ![current] = Done(current, result)]
       /\ placements' = [placements EXCEPT ![current] =
                           IF result = Nothing THEN @ ELSE @ + 1]
  /\ UNCHANGED <<recordVars, worklist, current, claimed, net, reply, stored>>

SendReport ==
  /\ pc = "REPORTING"
  /\ pc' = "CONFIRMING"
  /\ net' = net \union {ReportRequest(current, outcome)}
  /\ reply' = NoReply
  /\ UNCHANGED <<recordVars, worklist, current, claimed, outcome, brokerVars, stored>>

\* A refused report raises, and ends run_once.
ReportAnswered ==
  /\ pc = "CONFIRMING"
  /\ reply # NoReply
  /\ IF reply # Refusal THEN pc' = "LOOP" /\ UNCHANGED worklist
     ELSE pc' = "IDLE" /\ worklist' = {}
  /\ current' = Nothing
  /\ outcome' = Nothing
  /\ reply' = NoReply
  /\ UNCHANGED <<recordVars, claimed, net, brokerVars, stored>>

(* The client gives up on its request, or its process dies: run_once is    *)
(* left by an exception and nothing is retried; a new process also has     *)
(* forgotten which keys it claimed.                                        *)
Abandon ==
  /\ pc' = "IDLE"
  /\ worklist' = {}
  /\ current' = Nothing
  /\ outcome' = Nothing
  /\ reply' = NoReply
  /\ net' = {[m EXCEPT !.stale = TRUE] : m \in net}
  /\ UNCHANGED <<recordVars, brokerVars, stored>>

Timeout ==
  /\ NetworkFails
  /\ pc \in {"CLAIMING", "CONFIRMING"}
  /\ Abandon
  /\ UNCHANGED claimed

ExecutorDies ==
  /\ ExecutorFails
  /\ pc # "IDLE" \/ claimed # {}
  /\ Abandon
  /\ claimed' = {}

Lost(m) ==
  /\ m \in net /\ m.stale
  /\ net' = net \ {m}
  /\ UNCHANGED <<recordVars, executorVars, reply, brokerVars, stored>>

BrokerFills ==
  /\ LateFills
  /\ \E i \in Intents : broker[i] = "OPEN" /\ broker' = [broker EXCEPT ![i] = "FILLED"]
  /\ UNCHANGED <<recordVars, executorVars, net, reply, placements, stored>>

ExecutorStep ==
  \/ Poll
  \/ SkipClaimed
  \/ EndOfList
  \/ SendClaim
  \/ ClaimAnswered
  \/ PlaceOrder
  \/ SendReport
  \/ ReportAnswered

Handle == \E m \in net : HandleClaim(m) \/ HandleReport(m)

BoundaryStep ==
  \/ \E i \in Intents : EdgeOperation(i)
  \/ EdgeEnvironment
  \/ EdgeRestart
  \/ Handle
  \/ ExecutorStep
  \/ Timeout
  \/ ExecutorDies
  \/ \E m \in net : Lost(m)
  \/ BrokerFills

BoundaryNext == BoundaryStep /\ UNCHANGED edgeFails

BoundarySpec == BoundaryInit /\ [][BoundaryNext]_<<boundaryVars, edgeFails>>

(* run_once is called in a loop and EDGE answers: no step of either that   *)
(* stays possible is put off for ever.  Nothing is assumed of people.      *)
FairBoundary == BoundarySpec /\ WF_boundaryVars(ExecutorStep) /\ WF_boundaryVars(Handle)

-----------------------------------------------------------------------------
(* Properties.                                                             *)

(* A trade is placed at the broker only after its one hand-off, and only   *)
(* once, however often the executor dies, polls again or loses an answer;  *)
(* a trade that was closed first is never sent.  Of an EDGE that restarts  *)
(* this is not claimed: its trades count as open for ever.                 *)
Closed == {"REJECTED", "CANCELLED", "ERROR", "KILL_SWITCHED"}

PhaseOf(i) ==
  IF edgeFails THEN "open"
  ELSE IF placements[i] > 1 THEN "placed again"
  ELSE IF placements[i] = 1 THEN "placed"
  ELSE IF orders[i] # <<>> THEN "sent"
  ELSE IF state[i] \in Closed THEN "closed" ELSE "open"

Abstract == INSTANCE Dispatch WITH
              Trades <- Intents, phase <- [i \in Intents |-> PhaseOf(i)]

ImplementsDispatch == Abstract!Spec

(* "Each trade is claimed exactly once (idempotency_key dedupes retries)"  *)
(* (client.py:20): an executor process has claimed no trade twice.         *)
(* Violated when EDGE restarts: the key is made of the trade and its       *)
(* approved fingerprint, so a trade drafted again with other economics has *)
(* another.                                                                *)
TradesClaimedOnce == \A k, l \in claimed : k[1] = l[1] => k = l

(* EDGE never reports a fill the broker does not have.                     *)
FilledIsReal == \A i \in Intents : state[i] = "FILLED" => broker[i] = "FILLED"

(* While trading is not halted, an approved live trade does not wait for   *)
(* ever: it is claimed, refused, expires or is taken back.                 *)
ApprovedIsPickedUp ==
  \A i \in Intents : (i \in Executable) ~> (i \notin Executable)

(* When nothing fails and fills come with the acknowledgement, EDGE comes  *)
(* to a conclusion about every order the broker has filled.                *)
FillReachesEdge ==
  \A i \in Intents :
    (broker[i] = "FILLED") ~> (state[i] \in {"FILLED", "CANCELLED", "ERROR"})
=============================================================================
