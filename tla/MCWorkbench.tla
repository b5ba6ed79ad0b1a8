----------------------------- MODULE MCWorkbench -----------------------------
(* Workbench with one project: the seeded thesis, and perhaps one that the *)
(* agent opens; demoting and invalidating conditions.                      *)
EXTENDS Workbench

CONSTANTS p1, demote, invalidate

MCHome == [t \in Theses |-> p1]
MCOnBreach == [c \in Conditions |-> IF c = invalidate THEN "INVALIDATE" ELSE "DEMOTE"]
=============================================================================
