----------------------------- MODULE EventQueue ------------------------------
(***************************************************************************)
(* The ring of event.c between wish_message_processor_notify and           *)
(* wish_get_next_event, with the loop of port_main.c that drains it.       *)
(*                                                                         *)
(* wish_get_next_event returns a pointer into the ring and releases the    *)
(* slot before the caller has read it: the event that is being processed   *)
(* lives in a slot the ring regards as free, and the task that processes   *)
(* it may itself raise events.  The model keeps the pointer (`ev`), so     *)
(* that an overwritten event is seen as such.                              *)
(***************************************************************************)
EXTENDS Integers, Sequences

CONSTANTS
  Event,            \* the values of struct wish_event that are raised
  Blank,            \* the zero-filled struct of a slot never written
  NoEvent,          \* the NULL that wish_get_next_event returns
  EVENT_QUEUE_LEN,  \* slots of the ring (40 in event.c)
  MaxLoad           \* bound: events pending or in service at any time

ASSUME EventQueueAssumption ==
  /\ EVENT_QUEUE_LEN \in Nat \ {0}
  /\ MaxLoad \in Nat
  /\ Blank \notin Event
  /\ NoEvent \notin Event \cup {Blank}
  /\ NoEvent \notin 0 .. EVENT_QUEUE_LEN - 1

VARIABLES
  event_read,       \* the slot the next event is fetched from
  event_write,      \* the slot the next event is stored in
  num_curr_events,  \* the events stored and not yet fetched
  events,           \* the ring
  ev                \* the slot the caller's pointer refers to, or NoEvent

vars == <<event_read, event_write, num_curr_events, events, ev>>

Slot == 0 .. EVENT_QUEUE_LEN - 1

TypeOK ==
  /\ event_read \in Slot
  /\ event_write \in Slot
  /\ num_curr_events \in Nat
  /\ events \in [Slot -> Event \cup {Blank}]
  /\ ev \in Slot \cup {NoEvent}

(* Static storage: every variable starts as zero. *)
Init ==
  /\ event_read = 0
  /\ event_write = 0
  /\ num_curr_events = 0
  /\ events = [s \in Slot |-> Blank]
  /\ ev = NoEvent

Load == num_curr_events + (IF ev = NoEvent THEN 0 ELSE 1)

(* Mutant: the message comes one event late. *)
ReportsLate == num_curr_events' > EVENT_QUEUE_LEN + 1

(* The message of event.c:21; the event is stored all the same. *)
ReportsOverflow == num_curr_events' > EVENT_QUEUE_LEN

(* Mutant: event_write is not wrapped around. *)
NotifyWithoutWrap(e) ==
  /\ Load < MaxLoad
  /\ events' = [events EXCEPT ![event_write] = e]
  /\ event_write' = event_write + 1
  /\ num_curr_events' = num_curr_events + 1
  /\ UNCHANGED <<event_read, ev>>

(* Mutant: event_write is advanced before the event is copied. *)
NotifyAdvancesFirst(e) ==
  /\ Load < MaxLoad
  /\ event_write' = (event_write + 1) % EVENT_QUEUE_LEN
  /\ events' = [events EXCEPT ![event_write'] = e]
  /\ num_curr_events' = num_curr_events + 1
  /\ UNCHANGED <<event_read, ev>>

(* Mutant: an overflow is counted no further. *)
NotifySaturates(e) ==
  /\ Load < MaxLoad
  /\ events' = [events EXCEPT ![event_write] = e]
  /\ event_write' = (event_write + 1) % EVENT_QUEUE_LEN
  /\ num_curr_events' = IF num_curr_events = EVENT_QUEUE_LEN
                        THEN num_curr_events ELSE num_curr_events + 1
  /\ UNCHANGED <<event_read, ev>>

(***************************************************************************)
(* The event is copied into the ring whatever the ring holds.  It is       *)
(* called by the loop over the connections, and by the core while it       *)
(* processes an event.  The first conjunct is the model's bound.           *)
(***************************************************************************)
wish_message_processor_notify(e) ==
  /\ Load < MaxLoad
  /\ events' = [events EXCEPT ![event_write] = e]
  /\ event_write' = (event_write + 1) % EVENT_QUEUE_LEN
  /\ num_curr_events' = num_curr_events + 1
  /\ UNCHANGED <<event_read, ev>>

(* The slot is released here, before the event in it is used. *)
wish_get_next_event ==
  /\ ev = NoEvent
  /\ num_curr_events # 0
  /\ ev' = event_read
  /\ event_read' = (event_read + 1) % EVENT_QUEUE_LEN
  /\ num_curr_events' = num_curr_events - 1
  /\ UNCHANGED <<event_write, events>>

(* wish_message_processor_task returns to the drain loop. *)
TaskReturns ==
  /\ ev # NoEvent
  /\ ev' = NoEvent
  /\ UNCHANGED <<event_read, event_write, num_curr_events, events>>

Next ==
  \/ \E e \in Event : wish_message_processor_notify(e)
  \/ wish_get_next_event
  \/ TaskReturns

Spec == Init /\ [][Next]_vars

-----------------------------------------------------------------------------

(***************************************************************************)
(* The two cursors and the counter always agree, even after the ring has   *)
(* overflowed: event_write is num_curr_events slots ahead of event_read,   *)
(* and the event in service sits in the slot just behind event_read.       *)
(***************************************************************************)
CursorsAgree ==
  /\ event_write = (event_read + num_curr_events) % EVENT_QUEUE_LEN
  /\ ev # NoEvent => event_read = (ev + 1) % EVENT_QUEUE_LEN

(* The slots that hold events raised and not yet fetched. *)
PendingSlots ==
  {(event_read + k) % EVENT_QUEUE_LEN : k \in 0 .. num_curr_events - 1}

(***************************************************************************)
(* An event that has not been fetched is overwritten only by a call that   *)
(* prints "Event queue overflow." (event.c:20-21): no event is lost        *)
(* without a trace in the log.                                             *)
(***************************************************************************)
LossIsReported ==
  [][\A s \in PendingSlots : events'[s] # events[s] => ReportsOverflow]_vars

(***************************************************************************)
(* The pending events as the reader of the ring will find them.            *)
(***************************************************************************)
PendingEvents ==
  [k \in 1 .. num_curr_events |->
     events[(event_read + k - 1) % EVENT_QUEUE_LEN]]

Fifo == INSTANCE EventFifo WITH
          pending <- PendingEvents,
          serving <- IF ev = NoEvent THEN NoEvent ELSE events[ev]

(* The ring is asked to hold no more than it has slots, the event in       *)
(* service included, before the step and after it.                         *)
FitsRing == Load =< EVENT_QUEUE_LEN /\ Load' =< EVENT_QUEUE_LEN

(***************************************************************************)
(* While no more than EVENT_QUEUE_LEN events are pending or in service     *)
(* the ring keeps the promise of EventFifo: nothing is lost, repeated or   *)
(* reordered, and an event is not overwritten under the task that          *)
(* processes it (event.c:16-34, port_main.c:374-385).  An overflow is not  *)
(* remembered: once the load fits again, the ring is a queue again.        *)
(***************************************************************************)
RingIsFifo == Fifo!Init /\ [][FitsRing => Fifo!Next]_vars

=============================================================================
