----------------------------- MODULE MCPeriodic ------------------------------
(* A small instance of Periodic: seconds of three ticks and a counter that *)
(* wraps in the middle of the fourteenth second.                           *)
EXTENDS Periodic
=============================================================================
