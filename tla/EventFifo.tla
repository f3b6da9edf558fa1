------------------------------ MODULE EventFifo ------------------------------
(***************************************************************************)
(* What event.c promises to the main loop: the events the port and the     *)
(* Wish core raise are handed to wish_message_processor_task one at a      *)
(* time, each exactly once, in the order in which they were raised, and an *)
(* event does not change while the task works on it.  How the events are   *)
(* stored (a ring of EVENT_QUEUE_LEN slots) is the business of EventQueue. *)
(* The list of port_service_ipc.c makes the same promise about messages    *)
(* (ServiceIpc): "event" is then a message and "the task" its receiver.    *)
(***************************************************************************)
EXTENDS Sequences

CONSTANTS
  Event,    \* the values of struct wish_event
  NoEvent   \* no event is being processed

VARIABLES
  pending,  \* the events raised and not yet fetched, oldest first
  serving   \* the event wish_message_processor_task works on, or NoEvent

vars == <<pending, serving>>

Init ==
  /\ pending = <<>>
  /\ serving = NoEvent

(* An event is raised, by the main loop or by the task itself. *)
Raise(e) ==
  /\ pending' = Append(pending, e)
  /\ UNCHANGED serving

(* The main loop takes the oldest event and calls the task with it. *)
Serve ==
  /\ serving = NoEvent
  /\ pending # <<>>
  /\ serving' = Head(pending)
  /\ pending' = Tail(pending)

(* The task returns. *)
Done ==
  /\ serving # NoEvent
  /\ serving' = NoEvent
  /\ UNCHANGED pending

Next ==
  \/ \E e \in Event : Raise(e)
  \/ Serve
  \/ Done

Spec == Init /\ [][Next]_vars
=============================================================================
