---------------------------- MODULE MainLoopProofs ----------------------------
(***************************************************************************)
(* Theorems about the main loop, for any pool of contexts, list of relays  *)
(* and set of descriptors, and whatever the core does in its calls unless  *)
(* a theorem says otherwise.                                               *)
(***************************************************************************)
EXTENDS MainLoop, SequenceTheorems, TLAPS

NetP == INSTANCE PortNetProofs WITH
  Other <- Relays, OpenOnDisconnect <- "disconnected" \in OpenOnSignal
RelP == INSTANCE RelayClientProofs WITH Relay <- Relays, Other <- Ctx

USE MainLoopAssumption, RelayAssumption

(* What the core is taken not to do in the theorems about the sockets: to  *)
(* open one while it is told that a connection was lost, to close a relay  *)
(* that waits, and to touch the relay it is told has been lost.            *)
CoreKeepsOff ==
  /\ "disconnected" \notin OpenOnSignal
  /\ "WAIT_RECONNECT" \notin CloseStates
  /\ ~ReopenInCallback

(* Where the loop is while the core has not returned from a call. *)
Places ==
  [wld |-> {"relay"}, relay |-> {"relay"}, relay_lost |-> {"relay_close"},
   connected |-> {"conn"}, disconnected |-> {"conn", "close_again"},
   accepted |-> {"drain"}, task |-> {"drain"},
   periodic |-> {"ipc"}, ipc |-> {"select"}]

(* The loop waits for the core; between a callback and the close() that    *)
(* follows it stands the relay or the descriptor to be closed; an event is *)
(* in service as long as the core is in the message processor.             *)
Phases ==
  /\ caller # "none" => pc \in Places[caller]
  /\ caller = "wld" => at = 1
  /\ pc = "relay_close" => at \in 1 .. Len(RelayDb) /\ closing = {RelayDb[at]}
  /\ pc # "relay_close" => closing = {}
  /\ sockfd # NULL => pc = "close_again"
  /\ pc = "close_again" => at \in Ctx
  /\ pc = "conn" => at <= PoolSize
  /\ serving # NULL <=> caller = "task"

(* What needs no assumption about the core, and what needs CoreKeepsOff.   *)
Shape == TypeOK /\ Phases

Sockets ==
  /\ Net!SocketOwnership
  /\ NetP!SecondCloseHarmless
  /\ RelP!StateTellsSocket
  /\ Rel!ActiveOwnsSocket

IInv == Shape /\ Sockets

-----------------------------------------------------------------------------
(* The instances of the theorems about PortNet and RelayClient. *)

LEMMA SameNet ==
  /\ Net!TypeOK <=> NetP!TypeOK
  /\ Net!SocketOwnership <=> NetP!SocketOwnership
  /\ Net!Next <=> NetP!Next
  /\ (UNCHANGED Net!vars) <=> (UNCHANGED NetP!vars)
<1>1. /\ Net!TypeOK <=> NetP!TypeOK
      /\ (UNCHANGED Net!vars) <=> (UNCHANGED NetP!vars)
  BY DEF NetP!TypeOK, Net!TypeOK, NetP!Transport, Net!Transport,
         NetP!vars, Net!vars, NetP!ctxVars, Net!ctxVars
<1>2. Net!SocketOwnership <=> NetP!SocketOwnership
  BY DEF NetP!SocketOwnership, Net!SocketOwnership
<1>3. Net!Next <=> NetP!Next
  BY DEF NetP!Next, Net!Next, NetP!Transport, Net!Transport,
         NetP!wish_open_connection, Net!wish_open_connection,
         NetP!wish_open_connection_dns, Net!wish_open_connection_dns,
         NetP!wish_close_connection, Net!wish_close_connection,
         NetP!connected_cb, Net!connected_cb,
         NetP!connect_fail_cb, Net!connect_fail_cb,
         NetP!PeerClosed, Net!PeerClosed, NetP!CloseAgain, Net!CloseAgain,
         NetP!AcceptConnection, Net!AcceptConnection,
         NetP!OtherSocket, Net!OtherSocket, NetP!Open, Net!Open,
         NetP!Close, Net!Close, NetP!Occupy, Net!Occupy,
         NetP!Release, Net!Release, NetP!MayOpen, Net!MayOpen,
         NetP!ctxVars, Net!ctxVars
<1>4. QED BY <1>1, <1>2, <1>3

LEMMA SameRel ==
  /\ Rel!TypeOK <=> RelP!TypeOK
  /\ Rel!ActiveOwnsSocket <=> RelP!ActiveOwnsSocket
  /\ Rel!Next <=> RelP!Next
  /\ (UNCHANGED Rel!vars) <=> (UNCHANGED RelP!vars)
<1>1. /\ Rel!TypeOK <=> RelP!TypeOK
      /\ (UNCHANGED Rel!vars) <=> (UNCHANGED RelP!vars)
  BY DEF RelP!TypeOK, Rel!TypeOK, RelP!State, Rel!State,
         RelP!vars, Rel!vars, RelP!relayVars, Rel!relayVars
<1>2. Rel!ActiveOwnsSocket <=> RelP!ActiveOwnsSocket
  BY DEF RelP!ActiveOwnsSocket, Rel!ActiveOwnsSocket, RelP!Active, Rel!Active
<1>3. Rel!Next <=> RelP!Next
  BY DEF RelP!Next, Rel!Next, RelP!CoreMayTouch, Rel!CoreMayTouch,
         RelP!wish_relay_client_open, Rel!wish_relay_client_open,
         RelP!port_relay_client_open, Rel!port_relay_client_open,
         RelP!port_dns_start_resolving_relay_client,
         Rel!port_dns_start_resolving_relay_client,
         RelP!wish_relay_client_close, Rel!wish_relay_client_close,
         RelP!ConnectAgain, Rel!ConnectAgain, RelP!ReadByte, Rel!ReadByte,
         RelP!Lose, Rel!Lose, RelP!CloseAfterCallback, Rel!CloseAfterCallback,
         RelP!CloseSocket, Rel!CloseSocket, RelP!Enter, Rel!Enter,
         RelP!Active, Rel!Active, RelP!OtherSocket, Rel!OtherSocket,
         RelP!relayVars, Rel!relayVars, RelP!vars, Rel!vars
<1>4. QED BY <1>1, <1>2, <1>3

LEMMA NetTypes ==
  ASSUME Net!TypeOK, Net!Next \/ UNCHANGED Net!vars PROVE Net!TypeOK'
<1>1. NetP!TypeOK /\ (NetP!Next \/ UNCHANGED NetP!vars)
  BY SameNet
<1>2. NetP!TypeOK'
  BY <1>1, NetP!StepTypeOK
<1>3. QED
  BY <1>2 DEF NetP!TypeOK, Net!TypeOK, NetP!Transport, Net!Transport

LEMMA NetInvariant ==
  ASSUME Net!TypeOK, Net!SocketOwnership, NetP!SecondCloseHarmless,
         CoreKeepsOff, Net!Next \/ UNCHANGED Net!vars
  PROVE  (Net!SocketOwnership /\ NetP!SecondCloseHarmless)'
<1>1. NetP!IInv /\ (NetP!Next \/ UNCHANGED NetP!vars)
  BY SameNet DEF NetP!IInv
<1>2. NetP!IInv /\ (NetP!Next \/ UNCHANGED NetP!vars) => NetP!IInv'
  BY NetP!StepIInv DEF CoreKeepsOff
<1>3. NetP!IInv'
  BY <1>1, <1>2
<1>4. QED
  BY <1>3 DEF NetP!IInv, NetP!SocketOwnership, Net!SocketOwnership

LEMMA RelTypes ==
  ASSUME Rel!TypeOK, Rel!Next \/ UNCHANGED Rel!vars PROVE Rel!TypeOK'
<1>1. RelP!TypeOK /\ (RelP!Next \/ UNCHANGED RelP!vars)
  BY SameRel
<1>2. RelP!TypeOK'
  BY <1>1, RelP!StepTypeOK DEF Rel!State, RelP!State
<1>3. QED BY <1>2 DEF RelP!TypeOK, Rel!TypeOK, RelP!State, Rel!State

LEMMA RelInvariant ==
  ASSUME Rel!TypeOK, RelP!StateTellsSocket, Rel!ActiveOwnsSocket,
         CoreKeepsOff, Rel!Next \/ UNCHANGED Rel!vars
  PROVE  (RelP!StateTellsSocket /\ Rel!ActiveOwnsSocket)'
<1>1. RelP!IInv /\ (RelP!Next \/ UNCHANGED RelP!vars)
  BY SameRel DEF RelP!IInv
<1>2. RelP!IInv /\ (RelP!Next \/ UNCHANGED RelP!vars) => RelP!IInv'
  BY RelP!StepIInv DEF CoreKeepsOff, Rel!State, RelP!State
<1>3. RelP!IInv'
  BY <1>1, <1>2
<1>4. QED
  BY <1>3 DEF RelP!IInv, RelP!ActiveOwnsSocket, Rel!ActiveOwnsSocket,
              RelP!Active, Rel!Active

-----------------------------------------------------------------------------
(* The loop's own variables, and the place in the loop. *)

LoopTypes ==
  /\ rfds \subseteq Fd \cup {ServerFd, WldFd}
  /\ wfds \subseteq Fd
  /\ dropped \subseteq Fd /\ fresh \subseteq Fd /\ early \subseteq Ctx
  /\ pc \in {"select", "wld", "relay", "relay_close", "conn", "close_again",
             "accept", "drain", "periodic", "ipc"}
  /\ at \in Nat
  /\ caller \in Call \cup {"none"}
  /\ burst \in 0 .. CoreBurst

(* The descriptors select may report. *)
LEMMA SetTypes ==
  ASSUME TypeOK
  PROVE  /\ ReadSet \subseteq Fd \cup {ServerFd, WldFd, BadFd}
         /\ WriteSet \subseteq Fd \cup {BadFd}
<1>1. \A r \in Relays : relay_sockfd[r] \in Fd \cup {BadFd}
  BY DEF TypeOK, Rel!TypeOK
<1>2. \A c \in Watched : send_arg[c] \in Fd
  BY DEF Watched
<1>3. QED BY <1>1, <1>2 DEF ReadSet, WriteSet

(* What changes neither the loop's place nor the call the core is in.      *)
LEMMA SamePlace ==
  ASSUME Phases, UNCHANGED <<pc, at, caller, serving, closing>>,
         sockfd' \in {sockfd, NULL}
  PROVE  Phases'
BY DEF Phases

(* What only the history and the count of the core's events see. *)
LEMMA HistoryTypes ==
  ASSUME LoopTypes, loopVars' = loopVars, caller' = caller,
         burst' \in 0 .. CoreBurst,
         Opened \/ Dropped \/ UNCHANGED <<dropped, fresh>>,
         early' \subseteq Ctx
  PROVE  LoopTypes'
BY DEF LoopTypes, loopVars, Opened, Dropped, Reported

LEMMA LoopStep == ASSUME Shape, Next PROVE LoopTypes' /\ Phases'
<1>0. /\ LoopTypes /\ Phases /\ CoreBurst \in Nat /\ PoolSize \in Nat
      /\ Len(RelayDb) \in Nat
  BY LenProperties DEF Shape, TypeOK, LoopTypes
<1> USE DEF LoopTypes, Goto, Call, history
<1>1. CASE Select \/ SelectTimeout
  <2>1. LoopTypes'
    BY <1>0, <1>1, SetTypes DEF Select, SelectTimeout, Shape
  <2>2. Phases'
    BY <1>0, <1>1
       DEF Select, SelectTimeout, Phases, netVars, relayVars, eventVars, Ctx
  <2>3. QED BY <2>1, <2>2
<1>2. CASE ReadAdvert
  BY <1>0, <1>2 DEF ReadAdvert, Phases, Places, netVars, relayVars, eventVars
<1>3. CASE VisitRelay
  <2>1. /\ closing = {} /\ caller = "none" /\ pc = "relay"
        /\ at \in 1 .. Len(RelayDb)
        /\ UNCHANGED <<serving, sockfd, rfds, wfds, burst, dropped, fresh, early>>
    BY <1>0, <1>3 DEF VisitRelay, eventVars, Phases
  <2>2. \/ /\ closing' = {} /\ pc' = "relay" /\ at' = at + 1
           /\ caller' \in {"relay", "none"}
        \/ /\ closing' = {RelayDb[at]} /\ pc' = "relay_close" /\ at' = at
           /\ caller' = "relay_lost"
    <3>1. CASE UNCHANGED <<sock, relayVars, caller>>
      BY <1>3, <2>1, <3>1 DEF VisitRelay, relayVars
    <3>2. CASE /\ Rel!ConnectAgain(RelayDb[at])
               /\ caller' = IF relay_state'[RelayDb[at]] = "OPEN" THEN "relay"
                            ELSE IF RelayDb[at] \in closing' THEN "relay_lost"
                            ELSE "none"
      <4>1. RelayDb[at] \in Relays /\ relay_state \in [Relays -> Rel!State]
        BY <2>1 DEF Relays, Shape, TypeOK, Rel!TypeOK
      <4>2. \/ UNCHANGED closing
            \/ /\ closing' = {RelayDb[at]}
               /\ relay_state'[RelayDb[at]] = "WAIT_RECONNECT"
        BY <3>2, <4>1 DEF Rel!ConnectAgain, Rel!Lose, Rel!Enter, Rel!vars,
                          Rel!relayVars
      <4>3. QED BY <1>3, <2>1, <3>2, <4>2 DEF VisitRelay
    <3>3. CASE /\ Rel!ReadByte(RelayDb[at])
               /\ caller' \in IF RelayDb[at] \in closing' THEN {"relay_lost"}
                              ELSE {"relay", "none"}
      <4>1. UNCHANGED closing \/ closing' = {RelayDb[at]}
        BY <3>3 DEF Rel!ReadByte, Rel!Lose, Rel!vars, Rel!relayVars
      <4>2. QED BY <1>3, <2>1, <3>3, <4>1 DEF VisitRelay
    <3>4. QED BY <1>3, <3>1, <3>2, <3>3 DEF VisitRelay
  <2>3. LoopTypes'
    BY <1>0, <2>1, <2>2
  <2>4. Phases'
    BY <1>0, <2>1, <2>2 DEF Phases, Places
  <2>5. QED BY <2>3, <2>4
<1>4. CASE CloseRelay
  <2>1. /\ closing' = {} /\ pc' = "relay" /\ at' = at + 1 /\ caller = "none"
        /\ UNCHANGED <<serving, sockfd, rfds, wfds, caller, burst>>
        /\ UNCHANGED <<dropped, fresh, early>>
    BY <1>4 DEF CloseRelay, Rel!CloseAfterCallback, eventVars
  <2>2. at \in Nat
    BY <1>0
  <2>3. sockfd = NULL /\ serving = NULL
    BY <1>0, <1>4 DEF CloseRelay, Phases
  <2>4. LoopTypes'
    BY <1>0, <2>1, <2>2
  <2>5. Phases'
    BY <2>1, <2>3 DEF Phases
  <2>6. QED BY <2>4, <2>5
<1>5. CASE RelaysDone
  BY <1>0, <1>5 DEF RelaysDone, Phases, netVars, relayVars, eventVars
<1>6. CASE VisitConnection
  <2>1. at \in Ctx /\ at + 1 \in Nat /\ at + 1 <= PoolSize
    BY <1>6 DEF VisitConnection, Ctx
  <2>2. serving' = serving /\ serving = NULL /\ closing' = closing /\ closing = {}
    BY <1>0, <1>6
       DEF VisitConnection, Phases, Events!Raise, eventVars, relayVars
  <2>3. \/ /\ pc' = "conn" /\ at' = at + 1 /\ sockfd' = sockfd
           /\ caller' \in {"none", "connected", "disconnected"}
        \/ pc' = "close_again" /\ at' = at /\ caller' = "disconnected"
    BY <1>6
       DEF VisitConnection, netVars, Net!PeerClosed, Net!connected_cb
  <2>4. UNCHANGED <<rfds, wfds, dropped, fresh, early, burst>> /\ pc = "conn"
        /\ caller = "none"
    BY <1>6 DEF VisitConnection
  <2>5. QED BY <1>0, <2>1, <2>2, <2>3, <2>4 DEF Phases, Places
<1>7. CASE CloseAgain
  <2>1. at \in Ctx /\ at + 1 \in Nat /\ at + 1 <= PoolSize
    BY <1>0, <1>7 DEF CloseAgain, Phases, Ctx
  <2>2. sockfd' = NULL /\ closing' = closing
    BY <1>7 DEF CloseAgain, Net!CloseAgain, relayVars
  <2>3. QED BY <1>0, <1>7, <2>1, <2>2 DEF CloseAgain, Phases, eventVars
<1>8. CASE ConnectionsDone
  BY <1>0, <1>8 DEF ConnectionsDone, Phases, netVars, relayVars, eventVars
<1>9. CASE Accept
  <2>1. sockfd' = sockfd /\ caller' \in {"none", "accepted"}
    BY <1>9 DEF Accept, netVars, Net!AcceptConnection
  <2>2. QED
    BY <1>0, <1>9, <2>1 DEF Accept, Phases, Places, eventVars, relayVars
<1>10. CASE Drain
  <2>1. CASE Events!Serve /\ caller' = "task" /\ UNCHANGED <<pc, at, early>>
    <3>1. serving' # NULL
      BY <2>1, HeadTailProperties DEF Events!Serve, Shape, TypeOK
    <3>2. QED
      BY <1>0, <1>10, <2>1, <3>1 DEF Drain, Phases, Places, netVars, relayVars
  <2>2. CASE /\ Goto("periodic", 0) /\ early' = {}
             /\ UNCHANGED <<eventVars, caller>>
    BY <1>0, <1>10, <2>2 DEF Drain, Phases, netVars, relayVars, eventVars
  <2>3. QED BY <1>10, <2>1, <2>2 DEF Drain
<1>11. CASE Periodic
  BY <1>0, <1>11 DEF Periodic, Phases, Places, netVars, relayVars, eventVars
<1>12. CASE ServiceIpc
  BY <1>0, <1>12 DEF ServiceIpc, Phases, Places, netVars, relayVars, eventVars
<1>13. CASE CoreReturns
  <2>1. serving' = NULL
    BY <1>0, <1>13 DEF CoreReturns, Phases, Events!Done, eventVars
  <2>2. QED
    BY <1>0, <1>13, <2>1
       DEF CoreReturns, Phases, netVars, relayVars, loopVars
<1>14. ASSUME NEW c \in Ctx, CoreOpens(c) PROVE LoopTypes' /\ Phases'
  <2>1. sockfd' = sockfd
    BY <1>14
       DEF CoreOpens, Net!wish_open_connection, Net!wish_open_connection_dns
  <2>2. Phases'
    BY <1>0, <1>14, <2>1, SamePlace
       DEF CoreOpens, loopVars, eventVars, relayVars
  <2>3. LoopTypes'
    BY <1>0, <1>14, HistoryTypes DEF CoreOpens
  <2>4. QED BY <2>2, <2>3
<1>15. ASSUME NEW c \in Ctx, CoreCloses(c) PROVE LoopTypes' /\ Phases'
  <2>1. sockfd' = sockfd
    BY <1>15 DEF CoreCloses, Net!wish_close_connection
  <2>2. Phases'
    BY <1>0, <1>15, <2>1, SamePlace
       DEF CoreCloses, loopVars, eventVars, relayVars
  <2>3. LoopTypes'
    BY <1>0, <1>15, HistoryTypes DEF CoreCloses
  <2>4. QED BY <2>2, <2>3
<1>16. ASSUME NEW c \in Ctx, CoreNotifies(c) PROVE LoopTypes' /\ Phases'
  <2>1. Phases'
    BY <1>0, <1>16, SamePlace
       DEF CoreNotifies, loopVars, netVars, relayVars, Events!Raise
  <2>2. burst' \in 0 .. CoreBurst /\ early' \subseteq Ctx
    BY <1>0, <1>16 DEF CoreNotifies
  <2>3. LoopTypes'
    BY <1>0, <1>16, <2>2, HistoryTypes DEF CoreNotifies
  <2>4. QED BY <2>1, <2>3
<1>17. ASSUME NEW r \in Relays, CoreOpensRelay(r) \/ CoreClosesRelay(r)
       PROVE  LoopTypes' /\ Phases'
  <2>1. closing' = closing
    BY <1>17
       DEF CoreOpensRelay, CoreClosesRelay, Rel!wish_relay_client_open,
           Rel!wish_relay_client_close
  <2>2. Phases'
    BY <1>0, <1>17, <2>1, SamePlace
       DEF CoreOpensRelay, CoreClosesRelay, loopVars, eventVars
  <2>3. LoopTypes'
    BY <1>0, <1>17, HistoryTypes DEF CoreOpensRelay, CoreClosesRelay
  <2>4. QED BY <2>2, <2>3
<1>18. QED
  BY <1>1, <1>2, <1>3, <1>4, <1>5, <1>6, <1>7, <1>8, <1>9, <1>10, <1>11,
     <1>12, <1>13, <1>14, <1>15, <1>16, <1>17 DEF Next, Loop, Core

-----------------------------------------------------------------------------
(* Every step of the loop is a step of each of its parts, or none. *)

NetStep ==
  /\ UNCHANGED relayVars
  /\ \/ UNCHANGED netVars
     \/ \E c \in Ctx :
          \/ Net!wish_open_connection(c) \/ Net!wish_open_connection_dns(c)
          \/ Net!wish_close_connection(c)
          \/ Net!connected_cb(c) \/ Net!connect_fail_cb(c) \/ Net!PeerClosed(c)
     \/ Net!CloseAgain \/ Net!AcceptConnection

RelStep ==
  /\ UNCHANGED <<context_state, transport_state, send_arg, sockfd>>
  /\ \/ UNCHANGED <<sock, relayVars>>
     \/ \E r \in Relays :
          \/ CoreMayOpen /\ Rel!wish_relay_client_open(r)
          \/ Rel!wish_relay_client_close(r)
          \/ Rel!ConnectAgain(r) \/ Rel!ReadByte(r) \/ Rel!CloseAfterCallback(r)

LEMMA Sides == ASSUME Shape, Next PROVE NetStep \/ RelStep
<1>1. CASE Select \/ SelectTimeout \/ ReadAdvert \/ RelaysDone \/ ConnectionsDone
           \/ Drain \/ Periodic \/ ServiceIpc \/ CoreReturns
           \/ \E c \in Ctx : CoreNotifies(c)
  BY <1>1
     DEF NetStep, Select, SelectTimeout, ReadAdvert, RelaysDone,
         ConnectionsDone, Drain, Periodic, ServiceIpc, CoreReturns, CoreNotifies
<1>2. CASE VisitRelay
  BY <1>2 DEF RelStep, VisitRelay, Relays
<1>3. CASE CloseRelay
  <2>1. RelayDb[at] \in Relays
    BY <1>3 DEF CloseRelay, Shape, Phases, Relays
  <2>2. QED BY <1>3, <2>1 DEF CloseRelay, RelStep
<1>4. CASE VisitConnection
  BY <1>4 DEF VisitConnection, NetStep
<1>5. CASE CloseAgain
  BY <1>5 DEF CloseAgain, NetStep
<1>6. CASE Accept
  BY <1>6 DEF Accept, NetStep
<1>7. ASSUME NEW c \in Ctx, CoreOpens(c) \/ CoreCloses(c) PROVE NetStep
  BY <1>7 DEF CoreOpens, CoreCloses, NetStep
<1>8. ASSUME NEW r \in Relays, CoreOpensRelay(r) \/ CoreClosesRelay(r)
      PROVE  RelStep
  BY <1>8 DEF CoreOpensRelay, CoreClosesRelay, RelStep
<1>9. QED
  BY <1>1, <1>2, <1>3, <1>4, <1>5, <1>6, <1>7, <1>8 DEF Next, Loop, Core

LEMMA NetIsNet == NetStep => Net!Next \/ UNCHANGED Net!vars
BY DEF NetStep, Net!Next, netVars, Net!vars, Net!ctxVars

LEMMA RelIsRel == RelStep => Rel!Next \/ UNCHANGED Rel!vars
BY DEF RelStep, Rel!Next, relayVars, Rel!vars, Rel!relayVars

(* What the invariant says of the sockets. *)
LEMMA Facts ==
  ASSUME IInv
  PROVE  /\ sock \in [Fd -> Ctx \cup Relays \cup {Free}]
         /\ send_arg \in [Ctx -> Fd \cup {BadFd, NULL}]
         /\ sockfd \in Fd \cup {NULL}
         /\ \A c \in Ctx : send_arg[c] \in Fd => sock[send_arg[c]] = c
         /\ sockfd # NULL => sock[sockfd] = Free /\ pc = "close_again"
         /\ relay_state \in [Relays -> Rel!State]
         /\ relay_sockfd \in [Relays -> Fd \cup {BadFd}]
         /\ \A r \in Relays :
              relay_state[r] \in {"CONNECTING", "OPEN"} \/ r \in closing =>
                relay_sockfd[r] \in Fd /\ sock[relay_sockfd[r]] = r
         /\ \A r \in Relays :
              relay_state[r] \in {"INITIAL", "RESOLVING"} =>
                relay_sockfd[r] = BadFd
BY DEF IInv, Shape, TypeOK, Phases, Sockets, Net!TypeOK, Rel!TypeOK,
       Net!SocketOwnership, NetP!SecondCloseHarmless, Rel!ActiveOwnsSocket,
       Rel!Active, RelP!StateTellsSocket

(* A relay opens a socket or closes its own. *)
LEMMA StepNet ==
  ASSUME IInv, Next, CoreKeepsOff PROVE Net!Next \/ UNCHANGED Net!vars
<1>1. CASE NetStep
  BY <1>1, NetIsNet
<1>2. CASE RelStep
  <2>0. UNCHANGED <<context_state, transport_state, send_arg, sockfd>>
    BY <1>2 DEF RelStep
  <2>1. CASE UNCHANGED sock
    BY <2>0, <2>1 DEF Net!vars, Net!ctxVars
  <2>2. ASSUME NEW r \in Relays, Rel!CloseSocket(r),
               \/ relay_state[r] \in CloseStates
               \/ r \in closing
        PROVE  Net!Next \/ UNCHANGED Net!vars
    <3>1. CASE relay_sockfd[r] \notin Fd
      BY <2>1, <2>2, <3>1 DEF Rel!CloseSocket
    <3>2. CASE relay_sockfd[r] \in Fd
      <4>1. \/ relay_state[r] \in {"CONNECTING", "OPEN"} \/ r \in closing
            \/ relay_state[r] \in {"INITIAL", "RESOLVING"}
        BY <2>2, Facts DEF CoreKeepsOff, Rel!State
      <4>2. sock[relay_sockfd[r]] = r
        BY <3>2, <4>1, Facts
      <4>3. QED
        BY <2>0, <2>2, <3>2, <4>2
           DEF Rel!CloseSocket, Net!Next, Net!OtherSocket, Net!Close, Net!ctxVars
    <3>3. QED BY <3>1, <3>2
  <2>3. ASSUME NEW r \in Relays, CoreMayOpen, Rel!wish_relay_client_open(r)
        PROVE  Net!Next \/ UNCHANGED Net!vars
    <3>1. sockfd = NULL
      BY <2>3, Facts
         DEF CoreMayOpen, CoreKeepsOff, IInv, Shape, TypeOK, Phases, Places, Call
    <3>2. CASE \E fd \in Fd : sock[fd] = Free /\ sock' = [sock EXCEPT ![fd] = r]
      BY <2>0, <3>1, <3>2
         DEF Net!Next, Net!OtherSocket, Net!Open, Net!MayOpen, Net!ctxVars
    <3>3. \/ UNCHANGED sock
          \/ \E fd \in Fd : sock[fd] = Free /\ sock' = [sock EXCEPT ![fd] = r]
      BY <2>3
         DEF Rel!wish_relay_client_open, Rel!port_relay_client_open,
             Rel!port_dns_start_resolving_relay_client
    <3>4. QED BY <2>1, <3>2, <3>3
  <2>4. ASSUME NEW r \in Relays, Rel!ConnectAgain(r) \/ Rel!ReadByte(r)
        PROVE  UNCHANGED sock
    BY <2>4 DEF Rel!ConnectAgain, Rel!ReadByte, Rel!Lose, Rel!vars
  <2>5. QED
    BY <1>2, <2>1, <2>2, <2>3, <2>4
       DEF RelStep, Rel!wish_relay_client_close, Rel!CloseAfterCallback
<1>3. QED BY <1>1, <1>2, Sides DEF IInv

LEMMA StepRel == ASSUME IInv, Next PROVE Rel!Next \/ UNCHANGED Rel!vars
<1>0. ASSUME UNCHANGED relayVars,
             \/ UNCHANGED sock
             \/ \E fd \in Fd, holder \in Ctx \cup {Free} :
                  /\ sock[fd] \in Ctx \cup {Free}
                  /\ sock' = [sock EXCEPT ![fd] = holder]
      PROVE  Rel!Next \/ UNCHANGED Rel!vars
  BY <1>0 DEF relayVars, Rel!Next, Rel!OtherSocket, Rel!vars, Rel!relayVars
<1>1. ASSUME NEW c \in Ctx, Net!Close(send_arg[c])
      PROVE  \/ UNCHANGED sock
             \/ \E fd \in Fd, holder \in Ctx \cup {Free} :
                  /\ sock[fd] \in Ctx \cup {Free}
                  /\ sock' = [sock EXCEPT ![fd] = holder]
  <2>1. CASE send_arg[c] \in Fd
    <3>1. sock[send_arg[c]] = c /\ sock' = [sock EXCEPT ![send_arg[c]] = Free]
      BY <1>1, <2>1, Facts DEF Net!Close
    <3>2. sock[send_arg[c]] \in Ctx \cup {Free} /\ Free \in Ctx \cup {Free}
      BY <3>1
    <3>3. QED BY <2>1, <3>1, <3>2
  <2>2. CASE send_arg[c] \notin Fd
    BY <1>1, <2>2 DEF Net!Close
  <2>3. QED BY <2>1, <2>2
<1>2. ASSUME NEW fd \in Fd, NEW c \in Ctx, Net!Open(fd, c)
      PROVE  \E f \in Fd, holder \in Ctx \cup {Free} :
               /\ sock[f] \in Ctx \cup {Free}
               /\ sock' = [sock EXCEPT ![f] = holder]
  BY <1>2 DEF Net!Open
<1>3. CASE NetStep
  <2>0. UNCHANGED relayVars
    BY <1>3 DEF NetStep
  <2>1. ASSUME NEW c \in Ctx, \/ Net!wish_close_connection(c)
                              \/ Net!connect_fail_cb(c) \/ Net!PeerClosed(c)
        PROVE  Net!Close(send_arg[c])
    BY <2>1
       DEF Net!wish_close_connection, Net!connect_fail_cb, Net!PeerClosed
  <2>2. ASSUME NEW c \in Ctx, \/ Net!wish_open_connection(c)
                              \/ Net!wish_open_connection_dns(c)
                              \/ Net!connected_cb(c)
        PROVE  UNCHANGED sock \/ \E fd \in Fd : Net!Open(fd, c)
    BY <2>2
       DEF Net!wish_open_connection, Net!wish_open_connection_dns,
           Net!connected_cb
  <2>3. CASE Net!CloseAgain
    <3>1. sockfd \in Fd /\ sock[sockfd] = Free
      BY <2>3, Facts DEF Net!CloseAgain
    <3>2. sock' = [sock EXCEPT ![sockfd] = Free]
      BY <2>3, <3>1 DEF Net!CloseAgain, Net!Close
    <3>3. QED BY <1>0, <2>0, <3>1, <3>2
  <2>4. CASE Net!AcceptConnection
    <3>1. UNCHANGED sock \/ \E fd \in Fd, c \in Ctx : Net!Open(fd, c)
      BY <2>4 DEF Net!AcceptConnection
    <3>2. QED BY <1>0, <1>2, <2>0, <3>1
  <2>5. CASE UNCHANGED netVars
    BY <1>0, <2>0, <2>5 DEF netVars
  <2>6. ASSUME NEW c \in Ctx,
               \/ Net!wish_open_connection(c) \/ Net!wish_open_connection_dns(c)
               \/ Net!wish_close_connection(c)
               \/ Net!connected_cb(c) \/ Net!connect_fail_cb(c)
               \/ Net!PeerClosed(c)
        PROVE  Rel!Next \/ UNCHANGED Rel!vars
    BY <1>0, <1>1, <1>2, <2>0, <2>1, <2>2, <2>6
  <2>7. QED BY <1>3, <2>3, <2>4, <2>5, <2>6 DEF NetStep
<1>4. QED BY <1>3, RelIsRel, Sides DEF IInv

(* The sockets have the same type on both sides. *)
LEMMA StepTypes == ASSUME Shape, Next PROVE (Net!TypeOK /\ Rel!TypeOK)'
<1>1. CASE NetStep
  <2>1. Net!TypeOK'
    BY <1>1, NetIsNet, NetTypes DEF Shape, TypeOK
  <2>2. QED
    BY <1>1, <2>1
       DEF NetStep, relayVars, Shape, TypeOK, Net!TypeOK, Rel!TypeOK
<1>2. CASE RelStep
  <2>1. Rel!TypeOK'
    BY <1>2, RelIsRel, RelTypes DEF Shape, TypeOK
  <2>2. QED
    BY <1>2, <2>1 DEF RelStep, Shape, TypeOK, Net!TypeOK, Rel!TypeOK
<1>3. QED BY <1>1, <1>2, Sides

(* The step of the queue in each step of the loop. *)
LEMMA StepEvents ==
  ASSUME Next
  PROVE  \/ UNCHANGED eventVars
         \/ \E c \in Ctx : Events!Raise(c)
         \/ Events!Serve \/ Events!Done
<1>1. CASE VisitConnection \/ Drain \/ CoreReturns
  BY <1>1 DEF VisitConnection, Drain, CoreReturns
<1>2. ASSUME NEW c \in Ctx, CoreOpens(c) \/ CoreCloses(c)
      PROVE  UNCHANGED eventVars
  BY <1>2 DEF CoreOpens, CoreCloses
<1>3. ASSUME NEW c \in Ctx, CoreNotifies(c) PROVE Events!Raise(c)
  BY <1>3 DEF CoreNotifies
<1>4. ASSUME NEW r \in Relays, CoreOpensRelay(r) \/ CoreClosesRelay(r)
      PROVE  UNCHANGED eventVars
  BY <1>4 DEF CoreOpensRelay, CoreClosesRelay
<1>5. CASE Select \/ SelectTimeout \/ ReadAdvert \/ VisitRelay \/ CloseRelay
           \/ RelaysDone \/ CloseAgain \/ ConnectionsDone \/ Accept \/ Periodic
           \/ ServiceIpc
  BY <1>5
     DEF Select, SelectTimeout, ReadAdvert, VisitRelay, CloseRelay, RelaysDone,
         CloseAgain, ConnectionsDone, Accept, Periodic, ServiceIpc
<1>6. QED
  BY <1>1, <1>2, <1>3, <1>4, <1>5 DEF Next, Loop, Core

(* The events in the queue are contexts. *)
LEMMA EventTypes ==
  ASSUME pending \in Seq(Ctx), serving \in Ctx \cup {NULL},
         \/ UNCHANGED eventVars
         \/ \E c \in Ctx : Events!Raise(c)
         \/ Events!Serve \/ Events!Done
  PROVE  pending' \in Seq(Ctx) /\ serving' \in Ctx \cup {NULL}
<1>1. CASE UNCHANGED eventVars
  BY <1>1 DEF eventVars
<1>2. ASSUME NEW c \in Ctx, Events!Raise(c)
      PROVE  pending' \in Seq(Ctx) /\ serving' \in Ctx \cup {NULL}
  BY <1>2, AppendProperties DEF Events!Raise
<1>3. CASE Events!Serve
  BY <1>3, HeadTailProperties DEF Events!Serve
<1>4. CASE Events!Done
  BY <1>4 DEF Events!Done
<1>5. QED BY <1>1, <1>2, <1>3, <1>4

-----------------------------------------------------------------------------
(* The invariant is inductive. *)

LEMMA InitIInv == ASSUME Init PROVE IInv
<1>1. Net!TypeOK /\ Net!SocketOwnership /\ NetP!SecondCloseHarmless
  BY DEF Init, Net!Init, Net!TypeOK, Net!Transport, Net!SocketOwnership,
         NetP!SecondCloseHarmless
<1>2. Rel!TypeOK /\ Rel!ActiveOwnsSocket /\ RelP!StateTellsSocket
  BY DEF Init, Rel!Init, Rel!TypeOK, Rel!State, Rel!ActiveOwnsSocket,
         Rel!Active, RelP!StateTellsSocket
<1>3. TypeOK
  <2>1. pending \in Seq(Ctx) /\ serving \in Ctx \cup {NULL}
    BY DEF Init, Events!Init
  <2>2. burst \in 0 .. CoreBurst /\ at \in Nat
    BY DEF Init
  <2>3. QED BY <1>1, <1>2, <2>1, <2>2 DEF Init, TypeOK
<1>4. Phases
  BY DEF Init, Phases, Net!Init, Rel!Init, Events!Init
<1>5. QED BY <1>1, <1>2, <1>3, <1>4 DEF IInv, Shape, Sockets

LEMMA StepShape == Shape /\ [Next]_vars => Shape'
<1>1. ASSUME Shape, Next PROVE Shape'
  <2>1. (Net!TypeOK /\ Rel!TypeOK)'
    BY <1>1, StepTypes
  <2>2. LoopTypes' /\ Phases'
    BY <1>1, LoopStep
  <2>3. pending' \in Seq(Ctx) /\ serving' \in Ctx \cup {NULL}
    BY <1>1, StepEvents, EventTypes DEF Shape, TypeOK
  <2>4. QED BY <2>1, <2>2, <2>3 DEF Shape, TypeOK, LoopTypes
<1>2. ASSUME Shape, UNCHANGED vars PROVE Shape'
  <2>1. /\ UNCHANGED Net!vars /\ UNCHANGED Rel!vars
    BY <1>2
       DEF vars, netVars, relayVars, Net!vars, Net!ctxVars, Rel!vars,
           Rel!relayVars
  <2>2. (Net!TypeOK /\ Rel!TypeOK)'
    BY <1>2, <2>1, NetTypes, RelTypes DEF Shape, TypeOK
  <2>3. /\ UNCHANGED <<sockfd, closing, pending, serving, rfds, wfds, pc, at>>
        /\ UNCHANGED <<caller, burst, dropped, fresh, early>>
    BY <1>2 DEF vars, netVars, relayVars, eventVars, loopVars, history
  <2>4. Phases'
    BY <1>2, <2>3, SamePlace DEF Shape
  <2>5. QED BY <1>2, <2>2, <2>3, <2>4 DEF Shape, TypeOK
<1>3. QED BY <1>1, <1>2

LEMMA StepIInv == CoreKeepsOff /\ IInv /\ [Next]_vars => IInv'
<1> SUFFICES ASSUME CoreKeepsOff, IInv, [Next]_vars PROVE IInv'
  OBVIOUS
<1>1. UNCHANGED vars => (UNCHANGED Net!vars) /\ (UNCHANGED Rel!vars)
  BY DEF vars, netVars, relayVars, Net!vars, Net!ctxVars, Rel!vars,
         Rel!relayVars
<1>2. (Net!SocketOwnership /\ NetP!SecondCloseHarmless)'
  BY <1>1, StepNet, NetInvariant DEF IInv, Shape, TypeOK, Sockets
<1>3. (RelP!StateTellsSocket /\ Rel!ActiveOwnsSocket)'
  BY <1>1, StepRel, RelInvariant DEF IInv, Shape, TypeOK, Sockets
<1>4. Shape'
  BY StepShape DEF IInv
<1>5. QED BY <1>2, <1>3, <1>4 DEF IInv, Sockets

LEMMA Shaped == Spec => []Shape
<1>1. Init => Shape
  BY InitIInv DEF IInv
<1>2. QED BY <1>1, StepShape, PTL DEF Spec

LEMMA Inductive == ASSUME CoreKeepsOff PROVE Spec => []IInv
<1>1. Init => IInv
  BY InitIInv
<1>2. IInv /\ [Next]_vars => IInv'
  BY StepIInv
<1>3. QED BY <1>1, <1>2, PTL DEF Spec

(* Every variable of the loop and of its parts keeps its type.             *)
THEOREM TypeCorrect == Spec => []TypeOK
<1>1. Shape => TypeOK
  BY DEF Shape
<1>2. QED BY Shaped, <1>1, PTL

(* In the loop, the connections behave as PortNet says, although the core  *)
(* and the relays use the same descriptors, if the core leaves alone what  *)
(* the port is about to close.                                             *)
THEOREM ConnectionsInLoop ==
  ASSUME CoreKeepsOff PROVE Spec => ConnectionsImplemented
<1>1. Init => Net!Init
  BY DEF Init
<1>2. IInv /\ [Next]_vars => [Net!Next]_(Net!vars)
  <2>1. UNCHANGED vars => UNCHANGED Net!vars
    BY DEF vars, netVars, Net!vars, Net!ctxVars
  <2>2. QED BY <2>1, StepNet
<1>3. QED
  BY <1>1, <1>2, Inductive, PTL DEF Spec, ConnectionsImplemented, Net!Spec

(* In the loop, the relays behave as RelayClient says, if the core leaves  *)
(* alone what the port is about to close.                                  *)
THEOREM RelaysInLoop ==
  ASSUME CoreKeepsOff PROVE Spec => RelaysImplemented
<1>1. Init => Rel!Init
  BY DEF Init
<1>2. IInv /\ [Next]_vars => [Rel!Next]_(Rel!vars)
  <2>1. UNCHANGED vars => UNCHANGED Rel!vars
    BY DEF vars, netVars, relayVars, Rel!vars, Rel!relayVars
  <2>2. QED BY <2>1, StepRel
<1>3. QED
  BY <1>1, <1>2, Inductive, PTL DEF Spec, RelaysImplemented, Rel!Spec

-----------------------------------------------------------------------------
(* The number of events. *)

Load == Len(pending) + (IF serving = NULL THEN 0 ELSE 1)

(* What an event more or less does to it. *)
LEMMA Loads ==
  ASSUME Shape
  PROVE  /\ Load \in Nat
         /\ pending = <<>> /\ caller = "none" => Load = 0
         /\ UNCHANGED eventVars => Load' = Load
         /\ \A c \in Ctx : Events!Raise(c) => Load' = Load + 1
         /\ Events!Serve => Load' = Load
         /\ Events!Done => Load' <= Load /\ Load' \in Nat
<1>0. /\ pending \in Seq(Ctx) /\ serving \in Ctx \cup {NULL}
      /\ serving # NULL <=> caller = "task"
  BY DEF Shape, TypeOK, Phases
<1>1. Len(pending) \in Nat
  BY <1>0, LenProperties
<1>2. ASSUME NEW c \in Ctx, Events!Raise(c) PROVE Load' = Load + 1
  <2>1. Len(pending') = Len(pending) + 1
    BY <1>0, <1>2, AppendProperties DEF Events!Raise
  <2>2. QED BY <1>1, <1>2, <2>1 DEF Events!Raise, Load
<1>3. ASSUME Events!Serve PROVE Load' = Load
  <2>1. serving = NULL /\ serving' # NULL
    BY <1>0, <1>3, HeadTailProperties DEF Events!Serve
  <2>2. Len(pending') = Len(pending) - 1
    BY <1>0, <1>3, HeadTailProperties DEF Events!Serve
  <2>3. QED BY <1>1, <2>1, <2>2 DEF Load
<1>4. ASSUME Events!Done PROVE Load' <= Load /\ Load' \in Nat
  <2>1. Len(pending') = Len(pending) /\ serving' = NULL
    BY <1>4 DEF Events!Done
  <2>2. QED BY <1>1, <2>1 DEF Load
<1>5. Len(<<>>) = 0
  OBVIOUS
<1>6. QED BY <1>0, <1>1, <1>2, <1>3, <1>4, <1>5 DEF Load, eventVars

(* What may have been raised and not drained: what the core raised in this *)
(* pass, what it raised after the events of the last pass were drained,    *)
(* and one event for each context visited.                                 *)
Raised ==
  CoreBurst - burst +
    (IF pc \in {"select", "periodic", "ipc"} THEN 0 ELSE CoreBurst) +
    (IF pc \in {"conn", "close_again"} THEN at
     ELSE IF pc \in {"accept", "drain"} THEN PoolSize ELSE 0)

EventLoad == Load <= Raised

LEMMA InitEventLoad == ASSUME Init PROVE EventLoad
<1>1. pending = <<>> /\ serving = NULL /\ pc = "select" /\ burst = CoreBurst
  BY DEF Init, Events!Init
<1>2. Len(pending) = 0 /\ CoreBurst \in Nat
  BY <1>1
<1>3. QED BY <1>1, <1>2 DEF EventLoad, Raised, Load

LEMMA StepEventLoad == ASSUME Shape, EventLoad, Next PROVE EventLoad'
<1>0. /\ Load \in Nat /\ CoreBurst \in Nat /\ PoolSize \in Nat
      /\ burst \in 0 .. CoreBurst /\ at \in Nat /\ Phases
  BY Loads DEF Shape, TypeOK
<1> USE DEF EventLoad, Raised, Goto
<1>1. CASE Select \/ SelectTimeout
  <2>1. Load' = Load /\ burst' = CoreBurst /\ pc = "select"
        /\ pc' \in {"wld", "drain"}
    BY <1>1, Loads DEF Select, SelectTimeout
  <2>2. QED BY <1>0, <2>1
<1>2. CASE ReadAdvert \/ VisitRelay \/ CloseRelay \/ RelaysDone
  <2>1. Load' = Load /\ burst' = burst
    BY <1>2, Loads DEF ReadAdvert, VisitRelay, CloseRelay, RelaysDone
  <2>2. /\ pc \in {"wld", "relay", "relay_close"}
        /\ \/ pc' \in {"relay", "relay_close"}
           \/ pc' = "conn" /\ at' = 0
    BY <1>2 DEF ReadAdvert, VisitRelay, CloseRelay, RelaysDone
  <2>3. QED BY <1>0, <2>1, <2>2
<1>3. CASE VisitConnection
  <2>1. pc = "conn" /\ burst' = burst
    BY <1>3 DEF VisitConnection
  <2>2. \/ Load' \in {Load, Load + 1} /\ pc' = "conn" /\ at' = at + 1
        \/ Load' = Load /\ pc' = "close_again" /\ at' = at
    BY <1>3, Loads DEF VisitConnection
  <2>3. QED BY <1>0, <2>1, <2>2
<1>4. CASE CloseAgain
  <2>1. Load' = Load /\ burst' = burst
    BY <1>4, Loads DEF CloseAgain
  <2>2. QED BY <1>0, <1>4, <2>1 DEF CloseAgain
<1>5. CASE ConnectionsDone
  <2>1. Load' = Load /\ burst' = burst /\ at <= PoolSize
    BY <1>0, <1>5, Loads DEF ConnectionsDone, Phases
  <2>2. QED BY <1>0, <1>5, <2>1 DEF ConnectionsDone
<1>6. CASE Accept
  <2>1. Load' = Load /\ burst' = burst
    BY <1>6, Loads DEF Accept
  <2>2. QED BY <1>0, <1>6, <2>1 DEF Accept
<1>7. CASE Drain
  <2>1. \/ Load' = Load /\ UNCHANGED <<pc, at>>
        \/ Load' = 0 /\ pc' = "periodic"
    <3>1. ASSUME pending = <<>>, UNCHANGED eventVars PROVE Load' = 0
      BY <1>7, <3>1, Loads DEF Drain
    <3>2. QED BY <1>7, <3>1, Loads DEF Drain
  <2>2. pc = "drain" /\ burst' = burst
    BY <1>7 DEF Drain
  <2>3. QED BY <1>0, <2>1, <2>2
<1>8. CASE Periodic \/ ServiceIpc
  <2>1. Load' = Load /\ burst' = burst
    BY <1>8, Loads DEF Periodic, ServiceIpc
  <2>2. QED BY <1>0, <1>8, <2>1 DEF Periodic, ServiceIpc
<1>9. CASE CoreReturns
  <2>1. Load' <= Load /\ Load' \in Nat
    BY <1>0, <1>9, Loads DEF CoreReturns
  <2>2. QED BY <1>0, <1>9, <2>1 DEF CoreReturns, loopVars
<1>10. ASSUME UNCHANGED <<eventVars, loopVars, burst>> PROVE EventLoad'
  BY <1>10, Loads DEF loopVars
<1>11. ASSUME NEW c \in Ctx, CoreNotifies(c) PROVE EventLoad'
  <2>1. Load' = Load + 1 /\ burst' = burst - 1 /\ UNCHANGED loopVars
    BY <1>11, Loads DEF CoreNotifies
  <2>2. QED BY <1>0, <2>1 DEF loopVars
<1>12. QED
  BY <1>1, <1>2, <1>3, <1>4, <1>5, <1>6, <1>7, <1>8, <1>9, <1>10, <1>11
     DEF Next, Loop, Core, CoreOpens, CoreCloses, CoreOpensRelay,
         CoreClosesRelay

(* The ring of event.c is never full if it has room for one event of each  *)
(* context and for what the core raises in two passes of the loop: in this *)
(* one, and in the last one after its events were drained.                 *)
THEOREM EventsBounded ==
  ASSUME PoolSize + 2 * CoreBurst <= EVENT_QUEUE_LEN
  PROVE  Spec => []EventsWithinRing
<1>1. Init => EventLoad
  BY InitEventLoad
<1>2. Shape /\ EventLoad /\ [Next]_vars => EventLoad'
  <2>1. ASSUME Shape, EventLoad, UNCHANGED vars PROVE EventLoad'
    BY <2>1 DEF vars, eventVars, loopVars, EventLoad, Raised, Load
  <2>2. QED BY <2>1, StepEventLoad
<1>3. Shape /\ EventLoad => EventsWithinRing
  <2>1. SUFFICES ASSUME Shape, EventLoad PROVE EventsWithinRing
    OBVIOUS
  <2>2. Raised <= PoolSize + 2 * CoreBurst /\ Raised \in Int
    <3>1. /\ burst \in 0 .. CoreBurst /\ CoreBurst \in Nat /\ PoolSize \in Nat
          /\ pc = "conn" => at <= PoolSize
          /\ pc = "close_again" => at \in 0 .. PoolSize - 1
          /\ at \in Nat
      BY <2>1 DEF Shape, TypeOK, Phases, Ctx
    <3>2. QED BY <3>1 DEF Raised
  <2>3. QED
    BY <2>1, <2>2, Loads DEF EventLoad, EventsWithinRing, Load
<1>4. QED BY <1>1, <1>2, <1>3, Shaped, PTL DEF Spec

-----------------------------------------------------------------------------
(* The contexts of the events. *)

(* The events pending while the contexts are visited are of contexts       *)
(* visited already, or were raised by the core on its own.                 *)
Visited ==
  /\ pc \in {"select", "wld", "relay", "relay_close", "periodic", "ipc"} =>
       \A k \in DOMAIN pending : pending[k] \in early
  /\ pc \in {"conn", "close_again"} =>
       \A k \in DOMAIN pending : pending[k] \in early \/ pending[k] < at

(* An event is appended to those pending. *)
LEMMA RaiseAppends ==
  ASSUME Shape, NEW c \in Ctx, Events!Raise(c)
  PROVE  \A k \in DOMAIN pending' :
           \/ k \in DOMAIN pending /\ pending'[k] = pending[k]
           \/ pending'[k] = c
<1>1. pending \in Seq(Ctx) /\ Len(pending) \in Nat
      /\ DOMAIN pending = 1 .. Len(pending)
  BY LenProperties DEF Shape, TypeOK
<1>2. /\ pending' = Append(pending, c)
      /\ DOMAIN pending' = 1 .. Len(pending) + 1
      /\ \A k \in 1 .. Len(pending) : pending'[k] = pending[k]
      /\ pending'[Len(pending) + 1] = c
  BY <1>1, LenProperties, AppendProperties DEF Events!Raise
<1>3. QED BY <1>1, <1>2

LEMMA StepVisited == ASSUME Shape, Visited, Next PROVE Visited'
<1>0. /\ Phases /\ at \in Nat /\ early \subseteq Ctx
      /\ \A k \in DOMAIN pending : pending[k] \in Nat
  BY DEF Shape, TypeOK, Ctx
<1>1. CASE Select \/ ReadAdvert \/ RelaysDone \/ Periodic \/ ServiceIpc
  BY <1>1
     DEF Select, ReadAdvert, RelaysDone, Periodic, ServiceIpc,
         Visited, eventVars, history, Goto
<1>2. CASE SelectTimeout \/ ConnectionsDone \/ Accept
  BY <1>2 DEF SelectTimeout, ConnectionsDone, Accept, Visited, Goto
<1>3. CASE VisitRelay \/ CloseRelay
  <2>1. /\ pc \in {"relay", "relay_close"} /\ pc' \in {"relay", "relay_close"}
        /\ UNCHANGED <<pending, early>>
    BY <1>3 DEF VisitRelay, CloseRelay, eventVars, history, Goto
  <2>2. QED BY <2>1 DEF Visited
<1>4. CASE VisitConnection
  <2>1. pc = "conn" /\ at \in Ctx /\ pc' \in {"conn", "close_again"}
        /\ early' = early
    BY <1>4 DEF VisitConnection, Goto, history
  <2>2. \A k \in DOMAIN pending : pending[k] \in early \/ pending[k] < at
    BY <2>1 DEF Visited
  <2>3. \/ pending' = pending /\ at' \in {at, at + 1}
        \/ Events!Raise(at) /\ at' = at + 1
    BY <1>4 DEF VisitConnection, Goto, eventVars
  <2>4. \A k \in DOMAIN pending' : pending'[k] \in early \/ pending'[k] < at'
    <3>1. CASE pending' = pending /\ at' \in {at, at + 1}
      BY <1>0, <2>1, <2>2, <3>1
    <3>2. CASE Events!Raise(at) /\ at' = at + 1
      <4>1. \A k \in DOMAIN pending' :
              \/ k \in DOMAIN pending /\ pending'[k] = pending[k]
              \/ pending'[k] = at
        BY <2>1, <3>2, RaiseAppends
      <4>2. at \in Nat /\ at < at + 1
        BY <1>0
      <4>3. QED BY <1>0, <2>1, <2>2, <3>2, <4>1, <4>2
    <3>3. QED BY <2>3, <3>1, <3>2
  <2>5. QED BY <2>1, <2>4 DEF Visited
<1>5. CASE CloseAgain
  <2>1. /\ pc = "close_again" /\ pc' = "conn" /\ at' = at + 1
        /\ UNCHANGED <<pending, early>>
    BY <1>5 DEF CloseAgain, Goto, eventVars, history
  <2>2. \A k \in DOMAIN pending :
          pending[k] \in early \/ pending[k] < at + 1
    BY <1>0, <2>1 DEF Visited
  <2>3. QED BY <2>1, <2>2 DEF Visited
<1>6. CASE Drain
  BY <1>6 DEF Drain, Visited, eventVars, Goto
<1>7. CASE CoreReturns
  BY <1>7 DEF CoreReturns, Visited, eventVars, loopVars, history, Events!Done
<1>8. ASSUME UNCHANGED <<eventVars, loopVars, early>> PROVE Visited'
  BY <1>8 DEF Visited, eventVars, loopVars
<1>9. ASSUME NEW c \in Ctx, CoreNotifies(c) PROVE Visited'
  <2>1. CASE caller = "task"
    <3>1. pc' = "drain"
      BY <1>0, <1>9, <2>1 DEF CoreNotifies, Phases, Places, loopVars
    <3>2. QED BY <3>1 DEF Visited
  <2>2. CASE caller # "task"
    <3>1. early' = early \cup {c} /\ UNCHANGED <<pc, at>>
      BY <1>9, <2>2 DEF CoreNotifies, loopVars
    <3>2. \A k \in DOMAIN pending' :
            \/ k \in DOMAIN pending /\ pending'[k] = pending[k]
            \/ pending'[k] = c
      BY <1>9, RaiseAppends DEF CoreNotifies
    <3>3. QED BY <3>1, <3>2 DEF Visited
  <2>3. QED BY <2>1, <2>2
<1>10. QED
  BY <1>1, <1>2, <1>3, <1>4, <1>5, <1>6, <1>7, <1>8, <1>9
     DEF Next, Loop, Core, CoreOpens, CoreCloses, CoreOpensRelay,
         CoreClosesRelay

(* A step of the loop itself releases no context of an event that is not   *)
(* early: it releases only the context it visits.                          *)
LEMMA KeepsContext ==
  ASSUME Shape, Visited, Next, caller = "none",
         NEW k \in DOMAIN pending, pending[k] \notin early,
         context_state[pending[k]] # "FREE"
  PROVE  context_state'[pending[k]] # "FREE"
<1>0. /\ pending[k] \in Ctx /\ context_state \in [Ctx -> {"FREE", "IN_USE"}]
  BY DEF Shape, TypeOK, Net!TypeOK
<1>1. CASE VisitConnection
  <2>1. at \in Ctx /\ pending[k] # at
    BY <1>0, <1>1 DEF VisitConnection, Visited, Ctx
  <2>2. \/ UNCHANGED context_state
        \/ context_state' = [context_state EXCEPT ![at] = "FREE"]
    BY <1>1
       DEF VisitConnection, netVars, Net!PeerClosed, Net!connected_cb,
           Net!connect_fail_cb, Net!Release
  <2>3. QED BY <1>0, <2>1, <2>2
<1>2. CASE Accept
  <2>1. \/ UNCHANGED context_state
        \/ \E c \in Ctx : context_state' = [context_state EXCEPT ![c] = "IN_USE"]
    BY <1>2
       DEF Accept, netVars, Net!AcceptConnection, Net!Occupy, Net!ctxVars
  <2>2. QED BY <1>0, <2>1
<1>3. CASE CloseAgain
  BY <1>3 DEF CloseAgain, Net!CloseAgain, Net!ctxVars
<1>4. CASE VisitRelay \/ CloseRelay
  BY <1>4 DEF VisitRelay, CloseRelay
<1>5. CASE Select \/ SelectTimeout \/ ReadAdvert \/ RelaysDone \/ ConnectionsDone
           \/ Drain \/ Periodic \/ ServiceIpc \/ CoreReturns
  BY <1>5
     DEF Select, SelectTimeout, ReadAdvert, RelaysDone, ConnectionsDone,
         Drain, Periodic, ServiceIpc, CoreReturns, netVars
<1>6. CASE Core
  BY <1>6
     DEF Core, CoreMayOpen, CoreOpens, CoreCloses, CoreNotifies,
         CoreOpensRelay, CoreClosesRelay
<1>7. QED
  BY <1>1, <1>2, <1>3, <1>4, <1>5, <1>6 DEF Next, Loop

(* The loop releases no context to which an event refers that the port or  *)
(* the message processor raised and that has not been processed, whatever  *)
(* the core does in its calls.                                             *)
THEOREM EventContextKept == Spec => LoopKeepsEventContext
<1>1. Init => Visited
  BY DEF Init, Events!Init, Visited
<1>2. Shape /\ Visited /\ [Next]_vars => Visited'
  BY StepVisited DEF vars, eventVars, loopVars, history, Visited
<1>3. Shape /\ Visited /\ [Next]_vars
        => [caller = "none" =>
              \A k \in DOMAIN pending :
                pending[k] \notin early /\ context_state[pending[k]] # "FREE" =>
                  context_state'[pending[k]] # "FREE"]_vars
  BY KeepsContext
<1>4. QED
  BY <1>1, <1>2, <1>3, Shaped, PTL DEF Spec, LoopKeepsEventContext

-----------------------------------------------------------------------------
(* What select has reported. *)

(* What is still taken for ready. *)
Ready == Reported \ dropped

(* Nothing of it is closed before the relay's turn is over, unless by the  *)
(* core itself, and so nothing of it is handed out again.                  *)
Held ==
  \/ pc \in {"wld", "relay_close"}
  \/ pc = "relay" /\ (at = 1 \/ caller # "none")
  => \A fd \in Ready : sock[fd] # Free

NoFresh ==
  pc \in {"wld", "relay", "relay_close", "conn", "close_again"} => fresh = {}

(* The two halves of NoStaleReadiness, for one context and for one relay.  *)
ContextReady(c) ==
  send_arg[c] \in Ready =>
    (send_arg[c] \in wfds <=> transport_state[c] = "CONNECTING")

RelayReady(r) ==
  Rel!Active(r) /\ relay_sockfd[r] \in Ready =>
    (relay_sockfd[r] \in wfds <=> relay_state[r] = "CONNECTING")

ReadyToVisit ==
  /\ \A c \in ContextsToVisit : ContextReady(c)
  /\ \A r \in RelaysToVisit : RelayReady(r)

Fresh == Held /\ NoFresh /\ ReadyToVisit

(* As soon as the contexts have been visited there is nothing left to say. *)
LEMMA PassOver ==
  ASSUME pc' \notin {"wld", "relay", "relay_close", "conn", "close_again"}
  PROVE  Fresh'
BY DEF Fresh, Held, NoFresh, ReadyToVisit, ContextsToVisit, RelaysToVisit

(* The descriptors of this pass stay what they were, or fewer.             *)
LEMMA Untouched ==
  ASSUME ReadyToVisit, Reported' = Reported, wfds' = wfds,
         dropped \subseteq dropped',
         RelaysToVisit' \subseteq RelaysToVisit,
         ContextsToVisit' \subseteq ContextsToVisit,
         \A c \in ContextsToVisit' :
           \/ send_arg'[c] = send_arg[c]
              /\ transport_state'[c] = transport_state[c]
           \/ send_arg'[c] \notin Ready,
         \A r \in RelaysToVisit' :
           \/ relay_sockfd'[r] = relay_sockfd[r]
              /\ relay_state'[r] = relay_state[r]
           \/ relay_sockfd'[r] \notin Ready
           \/ relay_state'[r] \notin {"CONNECTING", "OPEN"}
  PROVE  ReadyToVisit'
<1>1. Ready' \subseteq Ready
  BY DEF Ready
<1>2. ASSUME NEW c \in ContextsToVisit' PROVE ContextReady(c)'
  <2>1. ContextReady(c)
    BY <1>2 DEF ReadyToVisit
  <2>2. QED BY <1>1, <1>2, <2>1 DEF ContextReady
<1>3. ASSUME NEW r \in RelaysToVisit' PROVE RelayReady(r)'
  <2>1. RelayReady(r)
    BY <1>3 DEF ReadyToVisit
  <2>2. QED BY <1>1, <1>3, <2>1 DEF RelayReady, Rel!Active
<1>4. QED BY <1>2, <1>3 DEF ReadyToVisit

(* Select reports a descriptor as writable if and only if the party that   *)
(* holds it is connecting.                                                 *)
LEMMA SelectFresh == ASSUME IInv, Select PROVE Fresh'
<1>0. /\ rfds' \subseteq ReadSet \ {BadFd} /\ wfds' \subseteq WriteSet \ {BadFd}
      /\ fresh' = {} /\ dropped' = {} /\ pc' = "wld"
      /\ UNCHANGED <<sock, context_state, transport_state, send_arg>>
      /\ UNCHANGED <<relay_state, relay_sockfd>>
  BY DEF Select, Goto, netVars, relayVars
<1>1. /\ send_arg \in [Ctx -> Fd \cup {BadFd, NULL}]
      /\ \A c \in Ctx : send_arg[c] \in Fd => sock[send_arg[c]] = c
      /\ \A r \in Relays :
           relay_state[r] \in {"CONNECTING", "OPEN"} =>
             relay_sockfd[r] \in Fd /\ sock[relay_sockfd[r]] = r
  BY Facts
<1>2. ASSUME NEW fd \in Fd \cap ReadSet
      PROVE  \/ \E r \in Relays : relay_state[r] = "OPEN" /\ fd = relay_sockfd[r]
             \/ \E c \in Ctx : /\ fd = send_arg[c]
                               /\ transport_state[c] # "CONNECTING"
  BY <1>2 DEF ReadSet, Watched
<1>3. ASSUME NEW fd \in WriteSet
      PROVE  \/ \E r \in Relays : /\ relay_state[r] = "CONNECTING"
                                  /\ fd = relay_sockfd[r]
             \/ \E c \in Ctx : /\ fd = send_arg[c] /\ fd \in Fd
                               /\ transport_state[c] = "CONNECTING"
  BY <1>3 DEF WriteSet, Watched
<1>4. Ready' = Fd \cap (rfds' \cup wfds')
  BY <1>0 DEF Ready, Reported
<1>5. \A fd \in Ready' : sock[fd] # Free
  <2>1. TAKE fd \in Ready'
  <2>2. sock[fd] \in Ctx \cup Relays
    BY <1>0, <1>1, <1>2, <1>3, <1>4
  <2>3. QED BY <2>2
<1>6. ASSUME NEW c \in Ctx, send_arg[c] \in Ready'
      PROVE  send_arg[c] \in wfds' <=> transport_state[c] = "CONNECTING"
  <2>1. send_arg[c] \in Fd /\ sock[send_arg[c]] = c /\ c \notin Relays
    BY <1>1, <1>4, <1>6
  <2>2. send_arg[c] \in wfds' => transport_state[c] = "CONNECTING"
    BY <1>0, <1>1, <1>3, <2>1
  <2>3. send_arg[c] \in rfds' => transport_state[c] # "CONNECTING"
    BY <1>0, <1>1, <1>2, <2>1
  <2>4. QED BY <1>4, <1>6, <2>2, <2>3
<1>7. ASSUME NEW r \in Relays, relay_state[r] \in {"CONNECTING", "OPEN"},
             relay_sockfd[r] \in Ready'
      PROVE  relay_sockfd[r] \in wfds' <=> relay_state[r] = "CONNECTING"
  <2>1. relay_sockfd[r] \in Fd /\ sock[relay_sockfd[r]] = r /\ r \notin Ctx
    BY <1>1, <1>7
  <2>2. relay_sockfd[r] \in wfds' => relay_state[r] = "CONNECTING"
    BY <1>0, <1>1, <1>3, <2>1
  <2>3. relay_sockfd[r] \in rfds' => relay_state[r] = "OPEN"
    BY <1>0, <1>1, <1>2, <2>1
  <2>4. QED BY <1>4, <1>7, <2>2, <2>3
<1>8. Held' /\ NoFresh'
  BY <1>0, <1>5 DEF Held, NoFresh
<1>9. ContextsToVisit' = Ctx /\ RelaysToVisit' = Relays
  BY <1>0 DEF ContextsToVisit, RelaysToVisit
<1>10. ReadyToVisit'
  <2>1. \A c \in Ctx : ContextReady(c)'
    BY <1>0, <1>6 DEF ContextReady
  <2>2. \A r \in Relays : RelayReady(r)'
    BY <1>0, <1>7 DEF RelayReady, Rel!Active
  <2>3. QED BY <1>9, <2>1, <2>2 DEF ReadyToVisit
<1>11. QED BY <1>8, <1>10 DEF Fresh

(* The only relay's turn. *)
LEMMA RelayFresh ==
  ASSUME IInv, Fresh, VisitRelay \/ CloseRelay, Len(RelayDb) <= 1
  PROVE  Fresh'
<1>0. Len(RelayDb) \in Nat
  BY LenProperties
<1>1. /\ at = 1 /\ pc \in {"relay", "relay_close"}
      /\ \/ pc' = "relay" /\ at' = 2
         \/ pc' = "relay_close" /\ at' = 1
  BY <1>0 DEF VisitRelay, CloseRelay, Goto, IInv, Shape, Phases
<1>2. UNCHANGED <<send_arg, transport_state, rfds, wfds, fresh, dropped>>
  BY DEF VisitRelay, CloseRelay, history
<1>3. Held'
  <2>1. CASE VisitRelay
    <3>1. UNCHANGED sock
      BY <2>1
         DEF VisitRelay, Rel!ConnectAgain, Rel!ReadByte, Rel!Lose, Rel!vars
    <3>2. \A fd \in Ready : sock[fd] # Free
      BY <1>1, <2>1 DEF Fresh, Held, VisitRelay
    <3>3. QED BY <1>2, <3>1, <3>2 DEF Held, Ready, Reported
  <2>2. CASE CloseRelay
    BY <1>1, <2>2 DEF CloseRelay, Held, Goto
  <2>3. QED BY <2>1, <2>2
<1>4. NoFresh'
  BY <1>1, <1>2 DEF Fresh, NoFresh
<1>5. RelaysToVisit' = {} /\ ContextsToVisit' = Ctx /\ ContextsToVisit = Ctx
  BY <1>0, <1>1 DEF RelaysToVisit, ContextsToVisit
<1>6. ReadyToVisit'
  BY <1>2, <1>5, Untouched DEF Fresh, Reported
<1>7. QED BY <1>3, <1>4, <1>6 DEF Fresh

(* The next contexts: only the one visited is changed. *)
LEMMA ConnectionsFresh ==
  ASSUME IInv, Fresh, VisitConnection \/ CloseAgain \/ RelaysDone
  PROVE  Fresh'
<1>0. /\ at \in Nat /\ Ctx = 0 .. PoolSize - 1 /\ PoolSize \in Nat
      /\ UNCHANGED <<relay_state, relay_sockfd, rfds, wfds, fresh, dropped>>
      /\ pc \in {"relay", "conn", "close_again"}
      /\ pc' \in {"conn", "close_again"}
  BY DEF IInv, Shape, TypeOK, Ctx, VisitConnection, CloseAgain, RelaysDone,
         Goto, relayVars, history
<1>1. Held' /\ NoFresh' /\ RelaysToVisit' = {} /\ Reported' = Reported
  BY <1>0 DEF Fresh, Held, NoFresh, RelaysToVisit, Reported
<1>2. send_arg \in [Ctx -> Fd \cup {BadFd, NULL}]
      /\ transport_state \in [Ctx -> Net!Transport]
  BY DEF IInv, Shape, TypeOK, Net!TypeOK
<1>3. CASE VisitConnection
  <2>1. \/ pc = "conn" /\ pc' = "conn" /\ at' = at + 1
        \/ pc = "conn" /\ pc' = "close_again" /\ at' = at
    BY <1>3 DEF VisitConnection, Goto
  <2>2. ContextsToVisit' \subseteq ContextsToVisit \ {at}
    BY <1>0, <2>1 DEF ContextsToVisit
  <2>3. \A c \in Ctx \ {at} : /\ send_arg'[c] = send_arg[c]
                              /\ transport_state'[c] = transport_state[c]
    BY <1>2, <1>3
       DEF VisitConnection, netVars, Net!PeerClosed, Net!connected_cb,
           Net!connect_fail_cb, Net!Release
  <2>4. ContextsToVisit' \subseteq Ctx \ {at}
    BY <2>2 DEF ContextsToVisit
  <2>5. ReadyToVisit'
    BY <1>0, <1>1, <2>2, <2>3, <2>4, Untouched DEF Fresh
  <2>6. QED BY <1>1, <2>5 DEF Fresh
<1>4. CASE CloseAgain \/ RelaysDone
  <2>1. ContextsToVisit' \subseteq ContextsToVisit
    BY <1>0, <1>4 DEF CloseAgain, RelaysDone, ContextsToVisit, Goto
  <2>2. UNCHANGED <<send_arg, transport_state>>
    BY <1>4 DEF CloseAgain, RelaysDone, netVars, Net!CloseAgain, Net!ctxVars
  <2>3. ReadyToVisit'
    BY <1>0, <1>1, <2>1, <2>2, Untouched DEF Fresh
  <2>4. QED BY <1>1, <2>3 DEF Fresh
<1>5. QED BY <1>3, <1>4

(* The core opens a socket while the loop is in the middle of a pass: the  *)
(* descriptor it gets was free, and nothing free has been reported.        *)
LEMMA OpenFresh ==
  ASSUME IInv, Fresh, OpenOnSignal = {},
         \/ \E c \in Ctx : CoreOpens(c)
         \/ \E r \in Relays : CoreOpensRelay(r)
  PROVE  Fresh'
<1>0. /\ caller \in Call \ {"connected", "disconnected"}
      /\ UNCHANGED <<pc, at, rfds, wfds, caller, dropped>> /\ Opened
  BY DEF IInv, Shape, TypeOK, CoreOpens, CoreOpensRelay, CoreMayOpen, loopVars,
         Opened
<1>1. CASE pc \notin {"relay", "relay_close"}
  BY <1>0, <1>1, PassOver DEF IInv, Shape, Phases, Call, Places
<1>2. CASE pc \in {"relay", "relay_close"}
  <2>1. \A fd \in Ready : sock[fd] # Free
    BY <1>0, <1>2 DEF Fresh, Held, Call
  <2>2. /\ send_arg \in [Ctx -> Fd \cup {BadFd, NULL}]
        /\ transport_state \in [Ctx -> Net!Transport]
        /\ sock \in [Fd -> Ctx \cup Relays \cup {Free}]
        /\ relay_state \in [Relays -> Rel!State]
        /\ relay_sockfd \in [Relays -> Fd \cup {BadFd}]
        /\ Ready \subseteq Fd
    BY Facts DEF IInv, Shape, TypeOK, Net!TypeOK, Ready, Reported
  <2>3. \A fd \in Ready : sock'[fd] = sock[fd]
    <3>1. ASSUME NEW c \in Ctx, CoreOpens(c)
          PROVE  \A fd \in Ready : sock'[fd] = sock[fd]
      BY <2>1, <2>2, <3>1
         DEF CoreOpens, Net!wish_open_connection, Net!wish_open_connection_dns,
             Net!Open
    <3>2. ASSUME NEW r \in Relays, CoreOpensRelay(r)
          PROVE  \A fd \in Ready : sock'[fd] = sock[fd]
      BY <2>1, <2>2, <3>2
         DEF CoreOpensRelay, Rel!wish_relay_client_open,
             Rel!port_relay_client_open,
             Rel!port_dns_start_resolving_relay_client
    <3>3. QED BY <3>1, <3>2
  <2>4. Reported' = Reported /\ Ready' = Ready
    BY <1>0 DEF Ready, Reported
  <2>5. Held'
    BY <2>1, <2>3, <2>4 DEF Held
  <2>6. NoFresh'
    BY <1>0, <1>2, <2>1 DEF Fresh, NoFresh, Opened, Ready
  <2>7. \A c \in Ctx : \/ /\ send_arg'[c] = send_arg[c]
                          /\ transport_state'[c] = transport_state[c]
                       \/ send_arg'[c] \notin Ready
    <3>1. ASSUME NEW c \in Ctx, CoreOpens(c)
          PROVE  \A d \in Ctx : \/ /\ send_arg'[d] = send_arg[d]
                                   /\ transport_state'[d] = transport_state[d]
                                \/ send_arg'[d] \notin Ready
      <4>1. send_arg'[c] \notin Ready
        BY <2>1, <2>2, <3>1
           DEF CoreOpens, Net!wish_open_connection,
               Net!wish_open_connection_dns, Net!Open, Net!Occupy
      <4>2. \A d \in Ctx \ {c} : /\ send_arg'[d] = send_arg[d]
                                 /\ transport_state'[d] = transport_state[d]
        BY <2>2, <3>1
           DEF CoreOpens, Net!wish_open_connection,
               Net!wish_open_connection_dns, Net!Occupy
      <4>3. QED BY <4>1, <4>2
    <3>2. ASSUME NEW r \in Relays, CoreOpensRelay(r)
          PROVE  UNCHANGED <<send_arg, transport_state>>
      BY <3>2 DEF CoreOpensRelay
    <3>3. QED BY <3>1, <3>2
  <2>8. \A r \in Relays : \/ /\ relay_sockfd'[r] = relay_sockfd[r]
                             /\ relay_state'[r] = relay_state[r]
                          \/ relay_sockfd'[r] \notin Ready
                          \/ relay_state'[r] \notin {"CONNECTING", "OPEN"}
    <3>1. ASSUME NEW c \in Ctx, CoreOpens(c)
          PROVE  UNCHANGED <<relay_state, relay_sockfd>>
      BY <3>1 DEF CoreOpens, relayVars
    <3>2. ASSUME NEW r \in Relays, CoreOpensRelay(r)
          PROVE  \A q \in Relays : \/ /\ relay_sockfd'[q] = relay_sockfd[q]
                                      /\ relay_state'[q] = relay_state[q]
                                   \/ relay_sockfd'[q] \notin Ready
                                   \/ relay_state'[q] \notin {"CONNECTING", "OPEN"}
      <4>1. \/ relay_sockfd'[r] \notin Ready
            \/ relay_state'[r] = "RESOLVING"
        BY <2>1, <2>2, <3>2
           DEF CoreOpensRelay, Rel!wish_relay_client_open,
               Rel!port_relay_client_open, Rel!Enter
      <4>2. \A q \in Relays \ {r} : /\ relay_sockfd'[q] = relay_sockfd[q]
                                    /\ relay_state'[q] = relay_state[q]
        BY <2>2, <3>2
           DEF CoreOpensRelay, Rel!wish_relay_client_open,
               Rel!port_relay_client_open, Rel!Enter,
               Rel!port_dns_start_resolving_relay_client
      <4>3. QED BY <4>1, <4>2
    <3>3. QED BY <3>1, <3>2
  <2>9. /\ ContextsToVisit' = ContextsToVisit /\ ContextsToVisit \subseteq Ctx
        /\ RelaysToVisit' = RelaysToVisit /\ RelaysToVisit \subseteq Relays
    BY <1>0 DEF ContextsToVisit, RelaysToVisit, Relays
  <2>10. ReadyToVisit'
    BY <1>0, <2>4, <2>7, <2>8, <2>9, Untouched DEF Fresh
  <2>11. QED BY <2>5, <2>6, <2>10 DEF Fresh
<1>3. QED BY <1>1, <1>2

(* The core closes a socket: it is no longer taken for ready. *)
LEMMA CloseFresh ==
  ASSUME IInv, Fresh,
         \/ \E c \in Ctx : CoreCloses(c)
         \/ \E r \in Relays : CoreClosesRelay(r)
  PROVE  Fresh'
<1>0. UNCHANGED <<pc, at, rfds, wfds, caller, fresh>> /\ Dropped
  BY DEF CoreCloses, CoreClosesRelay, loopVars, Dropped
<1>1. Reported' = Reported /\ dropped \subseteq dropped'
  BY <1>0 DEF Reported, Dropped
<1>2. Held'
  <2>1. \A fd \in Ready' : sock[fd] # Free => sock'[fd] # Free
    BY <1>0, <1>1 DEF Ready, Dropped
  <2>2. Ready' \subseteq Ready
    BY <1>1 DEF Ready
  <2>3. QED BY <1>0, <2>1, <2>2 DEF Fresh, Held
<1>3. NoFresh'
  BY <1>0 DEF Fresh, NoFresh
<1>4. /\ ContextsToVisit' = ContextsToVisit /\ ContextsToVisit \subseteq Ctx
      /\ RelaysToVisit' = RelaysToVisit /\ RelaysToVisit \subseteq Relays
  BY <1>0 DEF ContextsToVisit, RelaysToVisit, Relays
<1>5. /\ send_arg \in [Ctx -> Fd \cup {BadFd, NULL}]
      /\ transport_state \in [Ctx -> Net!Transport]
      /\ relay_state \in [Relays -> Rel!State]
      /\ NULL \notin Ready
  BY Facts DEF IInv, Shape, TypeOK, Net!TypeOK, Ready, Reported
<1>6. ASSUME NEW c \in Ctx, CoreCloses(c) PROVE ReadyToVisit'
  <2>1. UNCHANGED <<relay_state, relay_sockfd>> /\ send_arg'[c] \notin Ready
    BY <1>5, <1>6
       DEF CoreCloses, Net!wish_close_connection, Net!Release, relayVars
  <2>2. \A d \in Ctx \ {c} : /\ send_arg'[d] = send_arg[d]
                             /\ transport_state'[d] = transport_state[d]
    BY <1>5, <1>6 DEF CoreCloses, Net!wish_close_connection, Net!Release
  <2>3. QED BY <1>0, <1>1, <1>4, <2>1, <2>2, Untouched DEF Fresh
<1>7. ASSUME NEW r \in Relays, CoreClosesRelay(r) PROVE ReadyToVisit'
  <2>1. /\ UNCHANGED <<send_arg, transport_state, relay_sockfd>>
        /\ relay_state'[r] \notin {"CONNECTING", "OPEN"}
    BY <1>5, <1>7 DEF CoreClosesRelay, Rel!wish_relay_client_close, Rel!Enter
  <2>2. \A q \in Relays \ {r} : relay_state'[q] = relay_state[q]
    BY <1>5, <1>7 DEF CoreClosesRelay, Rel!wish_relay_client_close, Rel!Enter
  <2>3. QED BY <1>0, <1>1, <1>4, <2>1, <2>2, Untouched DEF Fresh
<1>8. QED BY <1>2, <1>3, <1>6, <1>7 DEF Fresh

LEMMA StepFresh ==
  ASSUME IInv, Fresh, Next, Len(RelayDb) <= 1, OpenOnSignal = {}
  PROVE  Fresh'
<1>1. CASE Select
  BY <1>1, SelectFresh
<1>2. CASE SelectTimeout \/ ConnectionsDone \/ Accept \/ Drain \/ Periodic
           \/ ServiceIpc
  BY <1>2, PassOver
     DEF SelectTimeout, ConnectionsDone, Accept, Drain, Periodic, ServiceIpc, Goto
<1>3. CASE ReadAdvert
  <2>1. /\ UNCHANGED <<sock, send_arg, transport_state>>
        /\ UNCHANGED <<relay_state, relay_sockfd, wfds, fresh, dropped>>
        /\ rfds' = rfds \ {WldFd}
        /\ pc = "wld" /\ pc' = "relay" /\ at' = 1
    BY <1>3 DEF ReadAdvert, netVars, relayVars, history, Goto
  <2>2. Reported' = Reported /\ Ready' = Ready
    BY <2>1 DEF Ready, Reported
  <2>3. RelaysToVisit' \subseteq RelaysToVisit
        /\ ContextsToVisit' = ContextsToVisit
    BY <2>1 DEF RelaysToVisit, ContextsToVisit, Relays
  <2>4. ReadyToVisit'
    BY <2>1, <2>2, <2>3, Untouched DEF Fresh
  <2>5. Held' /\ NoFresh'
    BY <2>1, <2>2 DEF Fresh, Held, NoFresh
  <2>6. QED BY <2>4, <2>5 DEF Fresh
<1>4. CASE VisitRelay \/ CloseRelay
  BY <1>4, RelayFresh
<1>5. CASE VisitConnection \/ CloseAgain \/ RelaysDone
  BY <1>5, ConnectionsFresh
<1>6. ASSUME UNCHANGED <<netVars, relayVars, loopVars, fresh, dropped>>,
             caller' \in {caller, "none"}
      PROVE  Fresh'
  <2>1. /\ UNCHANGED <<sock, send_arg, transport_state>>
        /\ UNCHANGED <<relay_state, relay_sockfd, rfds, wfds, pc, at>>
    BY <1>6 DEF netVars, relayVars, loopVars
  <2>2. ContextsToVisit' = ContextsToVisit /\ RelaysToVisit' = RelaysToVisit
        /\ Reported' = Reported /\ Ready' = Ready
    BY <1>6, <2>1 DEF ContextsToVisit, RelaysToVisit, Reported, Ready
  <2>3. ReadyToVisit'
    BY <1>6, <2>1, <2>2, Untouched DEF Fresh
  <2>4. Held' /\ NoFresh'
    BY <1>6, <2>1, <2>2 DEF Fresh, Held, NoFresh
  <2>5. QED BY <2>3, <2>4 DEF Fresh
<1>7. CASE CoreReturns
  BY <1>6, <1>7 DEF CoreReturns, history
<1>8. ASSUME NEW c \in Ctx, CoreNotifies(c) PROVE Fresh'
  BY <1>6, <1>8 DEF CoreNotifies
<1>9. CASE Core
  BY <1>8, <1>9, OpenFresh, CloseFresh DEF Core
<1>10. QED
  BY <1>1, <1>2, <1>3, <1>4, <1>5, <1>7, <1>9 DEF Next, Loop

(* What select has reported is true when the loop acts on it, but for what *)
(* the core itself has closed, provided that there is at most one relay    *)
(* and that the core opens no socket while it is told that a connection    *)
(* was set up or lost.                                                     *)
THEOREM ReadinessNotStale ==
  ASSUME CoreKeepsOff, Len(RelayDb) <= 1, OpenOnSignal = {}
  PROVE  Spec => []NoStaleReadiness
<1>1. Init => Fresh
  BY DEF Init, Fresh, Held, NoFresh, ReadyToVisit, ContextsToVisit, RelaysToVisit
<1>2. IInv /\ Fresh /\ [Next]_vars => Fresh'
  <2>1. ASSUME Fresh, UNCHANGED vars PROVE Fresh'
    BY <2>1
       DEF vars, netVars, relayVars, loopVars, history, Fresh, Held, NoFresh,
           ReadyToVisit, ContextReady, RelayReady, Ready, Reported,
           ContextsToVisit, RelaysToVisit, Rel!Active
  <2>2. QED BY <2>1, StepFresh
<1>3. Fresh => NoStaleReadiness
  BY DEF Fresh, NoFresh, ReadyToVisit, ContextReady, RelayReady, Ready,
         NoStaleReadiness, ContextsToVisit, RelaysToVisit
<1>4. QED BY <1>1, <1>2, <1>3, Inductive, PTL DEF Spec


=============================================================================
