----------------------------- MODULE MCBoundary -----------------------------
(* ExecutionBoundary with one fixed economics per trade: changes of the    *)
(* intent are MCTransactions' subject, faults and interleavings are this   *)
(* one's.  Of MCVariants a trade drafted again may have the other.         *)
EXTENDS ExecutionBoundary

MCEconomics ==
  {[sizing |-> "QUANTITY", amount |-> 2, limit |-> 0, terms |-> "reviewed"]}

MCVariants ==
  MCEconomics
  \union {[sizing |-> "QUANTITY", amount |-> 3, limit |-> 0, terms |-> "reviewed"]}
=============================================================================
