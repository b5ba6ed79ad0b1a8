----------------------------- MODULE MCConsole -----------------------------
(* The console by itself, for the trace that takes its page away.          *)
EXTENDS Console
=============================================================================
