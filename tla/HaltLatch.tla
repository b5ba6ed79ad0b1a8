------------------------------ MODULE HaltLatch ------------------------------
(***************************************************************************)
(* What the emergency kill switch promises, without files, restarts or     *)
(* rejection counters: a latch that anything may close and that only two   *)
(* different authorised roles, both signing after it was last closed, open.*)
(***************************************************************************)
EXTENDS FiniteSets, Naturals

CONSTANT Roles      \* the roles whose signature counts

VARIABLES halted, signatures

Init == halted = FALSE /\ signatures = {}

Trip == halted' = TRUE /\ signatures' = {}

Sign(r) ==
  /\ halted
  /\ r \notin signatures
  /\ IF Cardinality(signatures \union {r}) >= 2
     THEN halted' = FALSE /\ signatures' = {}
     ELSE halted' = TRUE /\ signatures' = signatures \union {r}

Next == Trip \/ \E r \in Roles : Sign(r)

Spec == Init /\ [][Next]_<<halted, signatures>>
=============================================================================
