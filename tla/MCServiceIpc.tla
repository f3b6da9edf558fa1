---------------------------- MODULE MCServiceIpc -----------------------------
(* A small instance of ServiceIpc: the list holds up to four messages, and *)
(* blocks are lost until there is room for none.                           *)
EXTENDS ServiceIpc
=============================================================================
