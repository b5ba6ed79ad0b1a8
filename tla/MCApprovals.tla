---------------------------- MODULE MCApprovals ----------------------------
(* Approvals with a request that may be an easy one (one approval, the     *)
(* requester's own will do), or be changed into an irreversible one (two,  *)
(* none of them the requester's) or into one nobody has an executor for;   *)
(* and the console that people decide in.  The console takes from the      *)
(* approvals only what is pending, so a behaviour of this instance is one  *)
(* of the requests while the page has not been drawn, or one of the page   *)
(* while nobody has proposed anything.                                     *)
EXTENDS Approvals, Console

MCFloor == [SOURCE |-> LOW, RISK |-> HIGH, RESET |-> CRITICAL]

MCTierRules ==
  [t \in Tiers |-> IF t < HIGH
                   THEN [required |-> 1, ttl |-> 1, selfApproval |-> TRUE]
                   ELSE [required |-> 2, ttl |-> 0, selfApproval |-> FALSE]]

MCContents ==
  {[kind |-> "SOURCE", payload |-> "a", tier |-> LOW, reversible |-> TRUE],
   [kind |-> "SOURCE", payload |-> "b", tier |-> LOW, reversible |-> FALSE],
   [kind |-> "RISK", payload |-> "b", tier |-> MEDIUM, reversible |-> TRUE],
   [kind |-> "RESET", payload |-> "a", tier |-> LOW, reversible |-> TRUE]}

(* The people and contents drawn for the requests do not matter to a page. *)
Nothing ==
  /\ ApprovalsInit
  /\ \A r \in Requests : /\ requester[r] = CHOOSE person \in People : TRUE
                         /\ content[r] = CHOOSE c \in Contents : TRUE

DecisionsInit == ApprovalsInit /\ ConsoleInit

DecisionsNext ==
  \/ ConsoleInit /\ ApprovalsNext /\ UNCHANGED consoleVars
  \/ Nothing /\ ConsoleNext /\ UNCHANGED approvalVars

DecisionsSpec == DecisionsInit /\ [][DecisionsNext]_<<approvalVars, consoleVars>>
=============================================================================
