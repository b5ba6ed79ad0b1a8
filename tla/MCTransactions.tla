--------------------------- MODULE MCTransactions ---------------------------
(* Transactions on a small instance: one intent sized by notional, whose   *)
(* quantity moves with the price, and variants of it in size, in terms and *)
(* in limit price.  At prices 200, 201 and 202 a move of one is within the *)
(* half-percent tolerance and a move of two is not; 402 buys 2, 2 and 1.   *)
EXTENDS Transactions

MCEconomics ==
  {[sizing |-> "NOTIONAL", amount |-> 402, limit |-> 0, terms |-> "reviewed"],
   [sizing |-> "NOTIONAL", amount |-> 402, limit |-> 0, terms |-> "altered"],
   [sizing |-> "QUANTITY", amount |-> 2, limit |-> 201, terms |-> "reviewed"],
   [sizing |-> "QUANTITY", amount |-> 3, limit |-> 0, terms |-> "invalid"]}
=============================================================================
