---- MODULE MCEventQueue ----
(* Small instances of EventQueue: three slots, two values of an event. *)
EXTENDS EventQueue
====
