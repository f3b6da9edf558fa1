------------------------------ MODULE MCMistApps ------------------------------
(* Small instances of MistApps: friend requests, queries, and a heap that  *)
(* drops messages or one that never does.                                  *)
EXTENDS MistApps
=============================================================================
