---------------------------- MODULE MCDecisions ----------------------------
(* What people decide on: orders, workflow actions, and the console.  The  *)
(* transaction service and the approval service do not call each other;    *)
(* Console has an abstraction of each.  So a behaviour of this instance is *)
(* one of an order, of a request or of the page, while nothing is shown or *)
(* proposed elsewhere.                                                     *)
EXTENDS MCTransactions, MCApprovals

(* What an intent is for does not matter to a request or a page.           *)
NoIntent == Init /\ econ = CHOOSE e \in [Intents -> Economics] : TRUE

OrdersOrActionsInit == Init /\ DecisionsInit /\ (NoIntent \/ Nothing)

OrdersOrActionsNext ==
  \/ Nothing /\ ConsoleInit /\ Next /\ UNCHANGED <<approvalVars, consoleVars>>
  \/ NoIntent /\ DecisionsNext /\ UNCHANGED vars

OrdersOrActionsSpec ==
  OrdersOrActionsInit /\ [][OrdersOrActionsNext]_<<vars, approvalVars, consoleVars>>
=============================================================================
