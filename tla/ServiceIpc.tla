----------------------------- MODULE ServiceIpc ------------------------------
(***************************************************************************)
(* The list of messages between the built-in applications and the Wish     *)
(* core (port_service_ipc.c).  Each pass of the main loop hands one        *)
(* message to its receiver; the receiver answers, or sends more, from      *)
(* inside the call, while its own message is still at the head of the      *)
(* list.  Sending takes two blocks of the heap, one of a fixed size and    *)
(* one as long as the message; when one of them cannot be had, the message *)
(* is dropped, and the block that was had is not given back.  Whether a    *)
(* malloc() fails depends on the length and on everything else on the      *)
(* board, and so may happen at any time.                                   *)
(***************************************************************************)
EXTENDS Integers, Sequences

CONSTANTS
  App,         \* the built-in applications (wish_app_t)
  Data,        \* the contents of messages
  NULL,        \* port_service_ipc_task is not in a receiver
  HeapBlocks   \* bound: blocks this file can have at a time

ASSUME ServiceIpcAssumption ==
  /\ HeapBlocks \in Nat
  /\ NULL \notin [type : {"APP_TO_CORE", "CORE_TO_APP"}, app : App, data : Data]

VARIABLES
  ipc_event_queue,  \* the list, oldest message first
  event,            \* the message whose receiver has been called, or NULL
  heap              \* blocks allocated by this file and not freed

vars == <<ipc_event_queue, event, heap>>

IpcEvent == [type : {"APP_TO_CORE", "CORE_TO_APP"}, app : App, data : Data]

TypeOK ==
  /\ ipc_event_queue \in Seq(IpcEvent)
  /\ event \in IpcEvent \cup {NULL}
  /\ heap \in 0 .. HeapBlocks

InitWith(messages) ==
  /\ ipc_event_queue = messages
  /\ event = NULL
  /\ heap = 2 * Len(messages)

Init == InitWith(<<>>)

-----------------------------------------------------------------------------

(* malloc() succeeded so many times. *)
Allocate(blocks) ==
  /\ heap + blocks <= HeapBlocks
  /\ heap' = heap + blocks

(* Mutant: the message is put in front of the list. *)
SendPrepends(type, app, data) ==
  /\ \/ /\ Allocate(2)
        /\ ipc_event_queue' =
             <<[type |-> type, app |-> app, data |-> data]>> \o ipc_event_queue
     \/ Allocate(0) /\ UNCHANGED ipc_event_queue
  /\ UNCHANGED event

(* Mutant: the result of the second malloc() is not looked at. *)
SendUnchecked(type, app, data) ==
  /\ \/ /\ Allocate(1) \/ Allocate(2)
        /\ ipc_event_queue' =
             Append(ipc_event_queue, [type |-> type, app |-> app, data |-> data])
     \/ Allocate(0) /\ UNCHANGED ipc_event_queue
  /\ UNCHANGED event

(* Mutant: the blocks are taken for granted. *)
SendWithoutCheck(type, app, data) ==
  /\ Len(ipc_event_queue) < HeapBlocks
  /\ ipc_event_queue' =
       Append(ipc_event_queue, [type |-> type, app |-> app, data |-> data])
  /\ heap' = heap + 2
  /\ UNCHANGED event

(***************************************************************************)
(* One malloc() for the event, one of len bytes for its data.  If only the *)
(* first succeeds, which the length may cause again and again, the         *)
(* function returns without freeing it.                                    *)
(***************************************************************************)
Send(type, app, data) ==
  /\ \/ /\ Allocate(2)
        /\ ipc_event_queue' =
             Append(ipc_event_queue, [type |-> type, app |-> app, data |-> data])
     \/ /\ Allocate(1) \/ Allocate(0)
        /\ UNCHANGED ipc_event_queue
  /\ UNCHANGED event

send_app_to_core(app, data) == Send("APP_TO_CORE", app, data)
send_core_to_app(app, data) == Send("CORE_TO_APP", app, data)

(* port_service_ipc_task up to the call of the receiver. *)
TaskCalls ==
  /\ event = NULL
  /\ ipc_event_queue # <<>>
  /\ event' = Head(ipc_event_queue)
  /\ UNCHANGED <<ipc_event_queue, heap>>

(* The receiver has returned: LL_DELETE, and both blocks are freed. *)
TaskReturns ==
  /\ event # NULL
  /\ event' = NULL
  /\ ipc_event_queue' = Tail(ipc_event_queue)
  /\ heap' = heap - 2

Next ==
  \/ \E app \in App, data \in Data :
       \/ send_app_to_core(app, data)
       \/ send_core_to_app(app, data)
  \/ TaskCalls
  \/ TaskReturns

Spec == Init /\ [][Next]_vars

-----------------------------------------------------------------------------

(***************************************************************************)
(* Every message in the list, the one being received included, has both    *)
(* its blocks, although the list is appended to while the receiver runs    *)
(* and sends fail half way (port_service_ipc.c:90-106).                    *)
(***************************************************************************)
MessagesHaveMemory ==
  /\ 2 * Len(ipc_event_queue) <= heap
  /\ event # NULL => /\ ipc_event_queue # <<>>
                     /\ event = Head(ipc_event_queue)

(***************************************************************************)
(* What is not dropped is received in the order in which it was sent,      *)
(* across both directions and all applications, each message once, and it  *)
(* does not change under its receiver: the list implements EventFifo, the  *)
(* promise of the event queue.  A dropped message is a stuttering step.    *)
(***************************************************************************)
Fifo == INSTANCE EventFifo WITH
          Event <- IpcEvent,
          NoEvent <- NULL,
          pending <- IF event = NULL THEN ipc_event_queue
                                     ELSE Tail(ipc_event_queue),
          serving <- event

QueueIsFifo == Fifo!Spec
=============================================================================
