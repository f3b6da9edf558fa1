----------------------------- MODULE MCMainLoop ------------------------------
(* Small instances of MainLoop: one or two relays, a pool of two contexts. *)
EXTENDS MainLoop

CONSTANTS r1, r2

OneRelay == <<r1>>
TwoRelays == <<r1, r2>>
=============================================================================
