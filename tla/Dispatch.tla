------------------------------ MODULE Dispatch ------------------------------
(***************************************************************************)
(* What the execution boundary promises about each trade: it is either     *)
(* closed without ever being sent, or sent once, and placed at the broker  *)
(* at most once after it was sent.                                         *)
(***************************************************************************)
CONSTANT Trades

VARIABLE phase

Init == phase = [t \in Trades |-> "open"]

Goes(t, from, to) == phase[t] = from /\ phase' = [phase EXCEPT ![t] = to]

Close(t) == Goes(t, "open", "closed")
Send(t)  == Goes(t, "open", "sent")
Place(t) == Goes(t, "sent", "placed")

Next == \E t \in Trades : Close(t) \/ Send(t) \/ Place(t)

Spec == Init /\ [][Next]_phase
=============================================================================
