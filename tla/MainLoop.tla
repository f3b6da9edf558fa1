------------------------------ MODULE MainLoop -------------------------------
(***************************************************************************)
(* The loop of port_main.c, which composes the connections (PortNet), the  *)
(* relay clients (RelayClient) and the event queue (EventFifo): one pass   *)
(* builds the descriptor sets, calls select, visits the discovery socket,  *)
(* the relays, the contexts and the server socket in this order, drains    *)
(* the events, and runs the periodic work.                                 *)
(*                                                                         *)
(* Everything happens in one task, but not atomically: whenever the loop   *)
(* calls into the Wish core, the core may call back into the port, open    *)
(* and close connections and relays and raise events, while the descriptor *)
(* sets and the loop's position stay what they were.  `caller` says which  *)
(* call the core is in.  What the core is taken not to do is named by      *)
(* constants, which are those of PortNet and RelayClient, and by CoreBurst.*)
(***************************************************************************)
EXTENDS Integers, Sequences

CONSTANTS
  PoolSize,           \* WISH_PORT_CONTEXT_POOL_SZ
  RelayDb,            \* core->relay_db, a list
  NamedHost,          \* the relays given by a host name
  Fd,                 \* the descriptors for connections and relays
  ServerFd, WldFd,    \* the server's and the discovery socket
  Free, BadFd, NULL,
  EVENT_QUEUE_LEN,    \* the slots of event.c's ring
  CoreBurst,          \* bound: events the core raises in one pass of the loop
  OpenOnSignal,       \* the signals in which the core may open sockets, of
                      \* "connected" and "disconnected"
  OpenStates, CloseStates, ReopenInCallback  \* see RelayClient

Ctx == 0 .. PoolSize - 1
Relays == {RelayDb[k] : k \in 1 .. Len(RelayDb)}

(***************************************************************************)
(* The calls into the core: the discovery message, the relay that was      *)
(* connected or has a byte, the relay that was lost, the connection that   *)
(* was set up, was lost or was accepted, the event, and the work at the    *)
(* end of a pass.                                                          *)
(***************************************************************************)
Call == {"wld", "relay", "relay_lost", "connected", "disconnected",
         "accepted", "task", "periodic", "ipc"}

ASSUME MainLoopAssumption ==
  /\ PoolSize \in Nat \ {0}
  /\ EVENT_QUEUE_LEN \in Nat \ {0}
  /\ CoreBurst \in Nat
  /\ RelayDb \in Seq(Relays) /\ NamedHost \subseteq Relays
  /\ Ctx \cap Relays = {}
  /\ Free \notin Ctx \cup Relays
  /\ BadFd \notin Fd
  /\ NULL \notin Fd \cup Ctx \cup {BadFd}
  /\ {ServerFd, WldFd} \cap (Fd \cup {BadFd, NULL}) = {}
  /\ OpenOnSignal \subseteq {"connected", "disconnected"}

VARIABLES
  sock, context_state, transport_state, send_arg, sockfd,  \* PortNet
  relay_state, relay_sockfd, closing,                      \* RelayClient
  pending, serving,                                        \* EventFifo
  rfds, wfds,  \* the descriptors select has reported
  pc,          \* where the loop is
  at,          \* the relay or the context it visits
  caller,      \* the call the core has not returned from, or "none"
  burst,       \* the events the core may still raise in this pass
  dropped,     \* history: reported descriptors the core has closed since
  fresh,       \* history: other reported descriptors opened again since
  early        \* history: the contexts of the events that the core raised
               \* outside wish_message_processor_task, until all is drained

netVars == <<sock, context_state, transport_state, send_arg, sockfd>>
relayVars == <<relay_state, relay_sockfd, closing>>
eventVars == <<pending, serving>>
loopVars == <<rfds, wfds, pc, at>>
history == <<dropped, fresh, early>>
vars == <<netVars, relayVars, eventVars, loopVars, caller, burst, history>>

Net == INSTANCE PortNet WITH
  Other <- Relays, OpenOnDisconnect <- "disconnected" \in OpenOnSignal
Rel == INSTANCE RelayClient WITH Relay <- Relays, Other <- Ctx
Events == INSTANCE EventFifo WITH Event <- Ctx, NoEvent <- NULL

ASSUME RelayAssumption ==
  /\ OpenStates \subseteq Rel!State /\ CloseStates \subseteq Rel!State
  /\ ReopenInCallback \in BOOLEAN

TypeOK ==
  /\ Net!TypeOK
  /\ Rel!TypeOK
  /\ pending \in Seq(Ctx)
  /\ serving \in Ctx \cup {NULL}
  /\ rfds \subseteq Fd \cup {ServerFd, WldFd}
  /\ wfds \subseteq Fd
  /\ dropped \subseteq Fd /\ fresh \subseteq Fd /\ early \subseteq Ctx
  /\ pc \in {"select", "wld", "relay", "relay_close", "conn", "close_again",
             "accept", "drain", "periodic", "ipc"}
  /\ at \in Nat
  /\ caller \in Call \cup {"none"}
  /\ burst \in 0 .. CoreBurst

Init ==
  /\ Net!Init /\ sock = [fd \in Fd |-> Free]
  /\ Rel!Init
  /\ Events!Init
  /\ rfds = {} /\ wfds = {}
  /\ dropped = {} /\ fresh = {} /\ early = {}
  /\ pc = "select" /\ at = 0
  /\ caller = "none" /\ burst = CoreBurst

-----------------------------------------------------------------------------
(* select *)

(* Mutant: send_arg is not compared with NULL. *)
WatchedUnchecked == {c \in Ctx : context_state[c] # "FREE"}

(***************************************************************************)
(* A context without a send_arg is reported on the console and left out.   *)
(* The code gives the negative descriptor of a failed accept() to FD_SET   *)
(* and FD_ISSET unchecked; that it is then never ready is what the macros  *)
(* of the network processor's driver are taken to do.                      *)
(***************************************************************************)
Watched == {c \in Ctx : context_state[c] # "FREE" /\ send_arg[c] \in Fd}

ReadSet ==
  {ServerFd, WldFd}
    \cup {relay_sockfd[r] : r \in {q \in Relays : relay_state[q] = "OPEN"}}
    \cup {send_arg[c] : c \in {d \in Watched : transport_state[d] # "CONNECTING"}}

(* Mutant: only the relays are watched for writability. *)
WriteSetOfRelays ==
  {relay_sockfd[r] : r \in {q \in Relays : relay_state[q] = "CONNECTING"}}

WriteSet ==
  {relay_sockfd[r] : r \in {q \in Relays : relay_state[q] = "CONNECTING"}}
    \cup {send_arg[c] : c \in {d \in Watched : transport_state[d] = "CONNECTING"}}

Goto(place, k) == pc' = place /\ at' = k

(* A descriptor is ready. *)
Select ==
  /\ pc = "select" /\ caller = "none"
  /\ rfds' \in SUBSET (ReadSet \ {BadFd})
  /\ wfds' \in SUBSET (WriteSet \ {BadFd})
  /\ rfds' \cup wfds' # {}
  /\ Goto("wld", 0)
  /\ dropped' = {} /\ fresh' = {}
  /\ burst' = CoreBurst
  /\ UNCHANGED <<netVars, relayVars, eventVars, caller, early>>

(* After 100 ms without, or on an error, the loop goes on with the events. *)
SelectTimeout ==
  /\ pc = "select" /\ caller = "none"
  /\ rfds' = {} /\ wfds' = {}
  /\ Goto("drain", 0)
  /\ dropped' = {} /\ fresh' = {}
  /\ burst' = CoreBurst
  /\ UNCHANGED <<netVars, relayVars, eventVars, caller, early>>

-----------------------------------------------------------------------------
(* The descriptors in the order in which the loop visits them. *)

(* A local discovery message is given to the core; wld_fd is not looked at *)
(* again in this pass.                                                     *)
ReadAdvert ==
  /\ pc = "wld" /\ caller = "none"
  /\ caller' = IF WldFd \in rfds THEN "wld" ELSE "none"
  /\ rfds' = rfds \ {WldFd}
  /\ Goto("relay", 1)
  /\ UNCHANGED <<netVars, relayVars, eventVars, wfds, burst, history>>

Writable(r) == relay_state[r] = "CONNECTING" /\ relay_sockfd[r] \in wfds
Readable(r) == Rel!Active(r) /\ relay_sockfd[r] \in rfds

(* Mutant: a relay that failed to connect keeps its socket. *)
VisitRelayLeaks ==
  /\ pc = "relay" /\ caller = "none"
  /\ at \in 1 .. Len(RelayDb)
  /\ LET r == RelayDb[at] IN
       \/ Writable(r) /\ Rel!Enter(r, "WAIT_RECONNECT")
       \/ ~Writable(r) /\ UNCHANGED relay_state
  /\ Goto("relay", at + 1)
  /\ UNCHANGED <<netVars, relay_sockfd, closing, eventVars, rfds, wfds>>
  /\ UNCHANGED <<caller, burst, history>>

(***************************************************************************)
(* The next relay of the list.  wish_relay_client_periodic is called when  *)
(* the connection is established and when a byte has arrived; when the     *)
(* connection is lost the core is told, and the socket closed after that.  *)
(***************************************************************************)
VisitRelay ==
  /\ pc = "relay" /\ caller = "none"
  /\ at \in 1 .. Len(RelayDb)
  /\ LET r == RelayDb[at] IN
       \/ /\ Writable(r)
          /\ Rel!ConnectAgain(r)
          /\ caller' = IF relay_state'[r] = "OPEN" THEN "relay"
                       ELSE IF r \in closing' THEN "relay_lost" ELSE "none"
       \/ /\ ~Writable(r) /\ Readable(r)
          /\ Rel!ReadByte(r)
          /\ caller' \in IF r \in closing' THEN {"relay_lost"}
                         ELSE {"relay", "none"}
       \/ /\ ~Writable(r) /\ ~Readable(r)
          /\ UNCHANGED <<sock, relayVars, caller>>
  /\ IF closing' = {} THEN Goto("relay", at + 1) ELSE Goto("relay_close", at)
  /\ UNCHANGED <<context_state, transport_state, send_arg, sockfd>>
  /\ UNCHANGED <<eventVars, rfds, wfds, burst, history>>

(* Mutant: wish_relay_client_periodic is called on the failure path too. *)
CloseRelayPeriodic ==
  /\ pc = "relay_close" /\ caller = "none"
  /\ Rel!CloseAfterCallback(RelayDb[at])
  /\ Goto("relay", at + 1)
  /\ caller' = "relay"
  /\ UNCHANGED <<context_state, transport_state, send_arg, sockfd>>
  /\ UNCHANGED <<eventVars, rfds, wfds, burst, history>>

(* close(relay->sockfd) of the relay that was lost. *)
CloseRelay ==
  /\ pc = "relay_close" /\ caller = "none"
  /\ Rel!CloseAfterCallback(RelayDb[at])
  /\ Goto("relay", at + 1)
  /\ UNCHANGED <<context_state, transport_state, send_arg, sockfd>>
  /\ UNCHANGED <<eventVars, rfds, wfds, caller, burst, history>>

RelaysDone ==
  /\ pc = "relay" /\ caller = "none"
  /\ at > Len(RelayDb)
  /\ Goto("conn", 0)
  /\ UNCHANGED <<netVars, relayVars, eventVars, rfds, wfds, caller, burst>>
  /\ UNCHANGED history

(***************************************************************************)
(* The next context of the pool.  A descriptor is never in both sets, so   *)
(* that at most one of the two branches is taken.  Reading is put off when *)
(* the ring buffer is full, and an error of recv() is ignored; a connect() *)
(* that succeeds in a connection that was not connecting is only printed.  *)
(***************************************************************************)
VisitConnection ==
  /\ pc = "conn" /\ caller = "none"
  /\ at \in Ctx
  /\ \/ /\ \/ send_arg[at] \notin rfds \cup wfds
           \/ send_arg[at] \in rfds
           \/ send_arg[at] \in wfds /\ transport_state[at] # "CONNECTING"
        /\ Goto("conn", at + 1)
        /\ UNCHANGED <<netVars, eventVars, caller>>
     \/ /\ send_arg[at] \in rfds
        /\ Goto("conn", at + 1)
        /\ \/ Events!Raise(at) /\ UNCHANGED <<netVars, caller>>
           \/ Net!PeerClosed(at) /\ caller' = "disconnected" /\ UNCHANGED eventVars
     \/ /\ send_arg[at] \in wfds
        /\ \/ /\ Net!connected_cb(at)
              /\ caller' = "connected"
              /\ Goto("conn", at + 1)
           \/ /\ Net!connect_fail_cb(at)
              /\ caller' = "disconnected"
              /\ Goto("close_again", at)
        /\ UNCHANGED eventVars
  /\ UNCHANGED <<relayVars, rfds, wfds, burst, history>>

CloseAgain ==
  /\ pc = "close_again" /\ caller = "none"
  /\ Net!CloseAgain
  /\ Goto("conn", at + 1)
  /\ UNCHANGED <<relayVars, eventVars, rfds, wfds, caller, burst, history>>

(* Of the sets only the bit of server_fd is still looked at in this pass. *)
ConnectionsDone ==
  /\ pc = "conn" /\ caller = "none"
  /\ at \notin Ctx
  /\ Goto("accept", 0)
  /\ rfds' = rfds \cap {ServerFd} /\ wfds' = {}
  /\ dropped' = {} /\ fresh' = {}
  /\ UNCHANGED <<netVars, relayVars, eventVars, caller, burst, early>>

(* Mutant: a connection that finds the pool full is not closed. *)
AcceptLeaks ==
  /\ pc = "accept" /\ caller = "none"
  /\ \E fd \in Fd : IF \A c \in Ctx : context_state[c] # "FREE"
                     THEN Net!Open(fd, 0) ELSE UNCHANGED sock
  /\ Goto("drain", 0)
  /\ rfds' = {}
  /\ UNCHANGED <<context_state, transport_state, send_arg, sockfd>>
  /\ UNCHANGED <<relayVars, eventVars, wfds, caller, burst, history>>

Accept ==
  /\ pc = "accept" /\ caller = "none"
  /\ \/ ServerFd \notin rfds /\ UNCHANGED <<netVars, caller>>
     \/ /\ ServerFd \in rfds
        /\ Net!AcceptConnection
        /\ caller' = IF context_state' = context_state THEN "none"
                     ELSE "accepted"
  /\ Goto("drain", 0)
  /\ rfds' = {}
  /\ UNCHANGED <<relayVars, eventVars, wfds, burst, history>>

-----------------------------------------------------------------------------
(* After the descriptors. *)

(* Mutant: one event in each pass of the loop. *)
DrainOne ==
  /\ pc = "drain" /\ caller = "none"
  /\ \/ Events!Serve /\ caller' = "task"
     \/ pending = <<>> /\ UNCHANGED <<eventVars, caller>>
  /\ Goto("periodic", 0)
  /\ UNCHANGED <<netVars, relayVars, rfds, wfds, burst, history>>

(* while (1): fetch an event and process it, until there is none. *)
Drain ==
  /\ pc = "drain" /\ caller = "none"
  /\ \/ /\ Events!Serve
        /\ caller' = "task"
        /\ UNCHANGED <<pc, at, early>>
     \/ /\ pending = <<>>
        /\ Goto("periodic", 0)
        /\ early' = {}
        /\ UNCHANGED <<eventVars, caller>>
  /\ UNCHANGED <<netVars, relayVars, rfds, wfds, burst, dropped, fresh>>

(* wish_time_report_periodic, when a second has gone by. *)
Periodic ==
  /\ pc = "periodic" /\ caller = "none"
  /\ caller' \in {"periodic", "none"}
  /\ Goto("ipc", 0)
  /\ UNCHANGED <<netVars, relayVars, eventVars, rfds, wfds, burst, history>>

(* port_service_ipc_task, when the application or the core has a message. *)
ServiceIpc ==
  /\ pc = "ipc" /\ caller = "none"
  /\ caller' \in {"ipc", "none"}
  /\ Goto("select", 0)
  /\ UNCHANGED <<netVars, relayVars, eventVars, rfds, wfds, burst, history>>

-----------------------------------------------------------------------------
(* What the core does before it returns to the loop. *)

(* The history of the descriptors that select has reported. *)
Reported == (rfds \cup wfds) \cap Fd

Opened ==
  /\ fresh' = fresh \cup
       {fd \in Reported \ dropped : sock[fd] = Free /\ sock'[fd] # Free}
  /\ UNCHANGED dropped

Dropped ==
  /\ dropped' = dropped \cup
       {fd \in Reported : sock[fd] # Free /\ sock'[fd] = Free}
  /\ UNCHANGED fresh

CoreMayOpen ==
  /\ caller # "none"
  /\ caller \in {"connected", "disconnected"} => caller \in OpenOnSignal

(* A connect() that succeeds at once makes the port signal TCP_CONNECTED   *)
(* from here; the event the core may raise then is a CoreNotifies.         *)
CoreOpens(c) ==
  /\ CoreMayOpen
  /\ Net!wish_open_connection(c) \/ Net!wish_open_connection_dns(c)
  /\ Opened
  /\ UNCHANGED <<relayVars, eventVars, loopVars, caller, burst, early>>

CoreCloses(c) ==
  /\ caller # "none"
  /\ Net!wish_close_connection(c)
  /\ Dropped
  /\ UNCHANGED <<relayVars, eventVars, loopVars, caller, burst, early>>

(* The core raises an event about a connection, in whatever call it is. *)
CoreNotifies(c) ==
  /\ caller # "none"
  /\ burst > 0
  /\ context_state[c] # "FREE"
  /\ Events!Raise(c)
  /\ burst' = burst - 1
  /\ early' = IF caller = "task" THEN early ELSE early \cup {c}
  /\ UNCHANGED <<netVars, relayVars, loopVars, caller, dropped, fresh>>

CoreOpensRelay(r) ==
  /\ CoreMayOpen
  /\ Rel!wish_relay_client_open(r)
  /\ Opened
  /\ UNCHANGED <<context_state, transport_state, send_arg, sockfd>>
  /\ UNCHANGED <<eventVars, loopVars, caller, burst, early>>

CoreClosesRelay(r) ==
  /\ caller # "none"
  /\ Rel!wish_relay_client_close(r)
  /\ Dropped
  /\ UNCHANGED <<context_state, transport_state, send_arg, sockfd>>
  /\ UNCHANGED <<eventVars, loopVars, caller, burst, early>>

CoreReturns ==
  /\ caller # "none"
  /\ caller' = "none"
  /\ IF caller = "task" THEN Events!Done ELSE UNCHANGED eventVars
  /\ UNCHANGED <<netVars, relayVars, loopVars, burst, history>>

-----------------------------------------------------------------------------

Loop ==
  \/ Select \/ SelectTimeout
  \/ ReadAdvert
  \/ VisitRelay
  \/ CloseRelay
  \/ RelaysDone
  \/ VisitConnection
  \/ CloseAgain
  \/ ConnectionsDone
  \/ Accept
  \/ Drain
  \/ Periodic
  \/ ServiceIpc
  \/ CoreReturns

Core ==
  \/ \E c \in Ctx : CoreOpens(c) \/ CoreCloses(c) \/ CoreNotifies(c)
  \/ \E r \in Relays : CoreOpensRelay(r) \/ CoreClosesRelay(r)

Next == Loop \/ Core

Spec == Init /\ [][Next]_vars

-----------------------------------------------------------------------------
(* Safety *)

(* The relays and the contexts the loop has still to visit in this pass. *)
RelaysToVisit ==
  IF pc = "relay" THEN {RelayDb[k] : k \in {j \in 1 .. Len(RelayDb) : j >= at}}
  ELSE IF pc = "relay_close"
       THEN {RelayDb[k] : k \in {j \in 1 .. Len(RelayDb) : j > at}}
  ELSE IF pc = "wld" THEN Relays ELSE {}

ContextsToVisit ==
  IF pc = "conn" THEN {c \in Ctx : c >= at}
  ELSE IF pc = "close_again" THEN {c \in Ctx : c > at}
  ELSE IF pc \in {"wld", "relay", "relay_close"} THEN Ctx ELSE {}

(***************************************************************************)
(* What select has reported is still true when the loop acts on it, but    *)
(* for descriptors that the core itself has closed since: a descriptor     *)
(* that the loop closed is not handed out again and taken for ready, and a *)
(* writable socket is one whose connect() is under way ("normally we don't *)
(* select for socket writability", port_main.c:277).                       *)
(***************************************************************************)
NoStaleReadiness ==
  /\ \A c \in ContextsToVisit : send_arg[c] \in Reported \ dropped =>
       /\ send_arg[c] \notin fresh
       /\ send_arg[c] \in wfds <=> transport_state[c] = "CONNECTING"
  /\ \A r \in RelaysToVisit :
       Rel!Active(r) /\ relay_sockfd[r] \in Reported \ dropped =>
         /\ relay_sockfd[r] \notin fresh
         /\ relay_sockfd[r] \in wfds <=> relay_state[r] = "CONNECTING"

(***************************************************************************)
(* The events pending and in service fit in the ring of event.c, so that   *)
(* nothing of what EventQueue says beyond its capacity happens: a pass     *)
(* adds one event for each context and the core's own, and starts with     *)
(* what the core raised after the events of the last pass were drained     *)
(* (event.c:16-23, port_main.c:374-395).                                   *)
(***************************************************************************)
EventsWithinRing ==
  Len(pending) + (IF serving = NULL THEN 0 ELSE 1) =< EVENT_QUEUE_LEN

(***************************************************************************)
(* The loop itself never releases a context to which an event refers that  *)
(* has not been processed, if the port or wish_message_processor_task      *)
(* raised the event: the task is given a context that is gone only if the  *)
(* core released it or raised the event in some other call                 *)
(* (port_main.c:262-274, 374-385).                                         *)
(***************************************************************************)
LoopKeepsEventContext ==
  [][caller = "none" =>
       \A k \in DOMAIN pending :
         pending[k] \notin early /\ context_state[pending[k]] # "FREE" =>
           context_state'[pending[k]] # "FREE"]_vars

(***************************************************************************)
(* The connections and the relays behave in the loop as their own modules  *)
(* say, so that the theorems about PortNet and RelayClient hold of the     *)
(* sockets they share.                                                     *)
(***************************************************************************)
ConnectionsImplemented == Net!Spec
RelaysImplemented == Rel!Spec

-----------------------------------------------------------------------------
(* Liveness *)

(* select reports the end of a connect() that is under way. *)
ReportConnect(c) == Select /\ send_arg[c] \in wfds'

(***************************************************************************)
(* The task is scheduled and the core returns from every call; select has  *)
(* a timeout of 100 ms and reports a connect() that has ended, well or     *)
(* not, each time it is asked.                                             *)
(***************************************************************************)
Fairness ==
  /\ WF_vars(Loop)
  /\ \A c \in Ctx : SF_vars(ReportConnect(c))

LiveSpec == Spec /\ Fairness

(***************************************************************************)
(* A connection that is being set up is established or given up, whatever  *)
(* the other sockets and the core do meanwhile (port_main.c:276-309).      *)
(***************************************************************************)
ConnectResolves ==
  \A c \in Ctx :
    transport_state[c] = "CONNECTING" ~> transport_state[c] # "CONNECTING"

=============================================================================
