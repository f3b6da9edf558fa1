---------------------------- MODULE RelayClient ------------------------------
(***************************************************************************)
(* The relay control connections: relay_client.c, and what port_main.c     *)
(* does to a relay when select reports its socket.                         *)
(*                                                                         *)
(* The states of the relay protocol proper (reading the session id, and so *)
(* on) belong to the core and are all "OPEN" here.  A relay's sockfd is    *)
(* never reset when its socket is closed, so it may name a descriptor that *)
(* now belongs to somebody else.                                           *)
(*                                                                         *)
(* Neither wish_relay_client_open nor wish_relay_client_close looks at the *)
(* relay's state: what the core, which is not in this repository, is taken *)
(* to do is named by constants.                                            *)
(***************************************************************************)
EXTENDS FiniteSets, Naturals

CONSTANTS
  Relay,      \* core->relay_db
  NamedHost,  \* the relays whose host is a name and not an IP address
  Fd,         \* the descriptors the network processor can hand out
  Other,      \* who else may hold a descriptor
  Free,       \* the holder of a descriptor that is not open
  BadFd,      \* -1
  OpenStates,   \* the states of a relay in which the core opens it
  CloseStates,  \* the states of a relay in which the core closes it
  ReopenInCallback  \* the core may open or close a relay while it is told
                    \* that this relay's connection is lost

State == {"INITIAL", "RESOLVING", "CONNECTING", "OPEN", "WAIT_RECONNECT"}

ASSUME RelayClientAssumption ==
  /\ NamedHost \subseteq Relay
  /\ Relay \cap Other = {}
  /\ Free \notin Relay \cup Other
  /\ BadFd \notin Fd
  /\ OpenStates \subseteq State /\ CloseStates \subseteq State
  /\ ReopenInCallback \in BOOLEAN

VARIABLES
  sock,          \* who holds each descriptor
  relay_state,   \* relay->curr_state
  relay_sockfd,  \* relay->sockfd
  closing        \* the relay port_main.c has told the core about and whose
                 \* socket it closes next: no relay, or one

relayVars == <<relay_state, relay_sockfd, closing>>
vars == <<sock, relayVars>>

TypeOK ==
  /\ sock \in [Fd -> Relay \cup Other \cup {Free}]
  /\ relay_state \in [Relay -> State]
  /\ relay_sockfd \in [Relay -> Fd \cup {BadFd}]
  /\ closing \subseteq Relay

Init ==
  /\ sock \in [Fd -> Other \cup {Free}]
  /\ relay_state = [r \in Relay |-> "INITIAL"]
  /\ relay_sockfd = [r \in Relay |-> BadFd]
  /\ closing = {}

-----------------------------------------------------------------------------

(* The states in which the main loop looks at the relay's socket. *)
Active(r) == relay_state[r] \in {"CONNECTING", "OPEN"}

Enter(r, state) == relay_state' = [relay_state EXCEPT ![r] = state]

(* close(relay->sockfd): whoever holds the descriptor loses it. *)
CloseSocket(r) ==
  sock' = IF relay_sockfd[r] \in Fd
          THEN [sock EXCEPT ![relay_sockfd[r]] = Free] ELSE sock

(* Mutant: the result of socket() is not looked at. *)
OpenUnchecked(r) ==
  /\ relay_sockfd' = [relay_sockfd EXCEPT ![r] = BadFd]
  /\ Enter(r, "CONNECTING")
  /\ UNCHANGED sock

(***************************************************************************)
(* port_relay_client_open: only SL_EALREADY counts as a connection being   *)
(* set up.  Any other outcome of connect(), immediate success included,    *)
(* waits for the next attempt and leaves the socket open.                  *)
(***************************************************************************)
port_relay_client_open(r) ==
  \/ \E fd \in Fd :
       /\ sock[fd] = Free
       /\ sock' = [sock EXCEPT ![fd] = r]
       /\ relay_sockfd' = [relay_sockfd EXCEPT ![r] = fd]
       /\ Enter(r, "CONNECTING") \/ Enter(r, "WAIT_RECONNECT")
  \/ /\ relay_sockfd' = [relay_sockfd EXCEPT ![r] = BadFd]
     /\ Enter(r, "WAIT_RECONNECT")
     /\ UNCHANGED sock

(* The resolver does nothing, so the relay never leaves "RESOLVING". *)
port_dns_start_resolving_relay_client(r) == UNCHANGED <<sock, relay_sockfd>>

(* What the core may do to relay r by itself. *)
CoreMayTouch(r) == r \notin closing \/ ReopenInCallback

(* The core opens the control connection, the first time or once more. *)
wish_relay_client_open(r) ==
  /\ relay_state[r] \in OpenStates
  /\ CoreMayTouch(r)
  /\ \/ /\ r \in NamedHost
        /\ Enter(r, "RESOLVING")
        /\ port_dns_start_resolving_relay_client(r)
     \/ /\ r \notin NamedHost
        /\ port_relay_client_open(r)
  /\ UNCHANGED closing

(***************************************************************************)
(* The core gives up a control connection: whatever relay->sockfd names is *)
(* closed.                                                                 *)
(***************************************************************************)
wish_relay_client_close(r) ==
  /\ relay_state[r] \in CloseStates
  /\ CoreMayTouch(r)
  /\ CloseSocket(r)
  /\ Enter(r, "WAIT_RECONNECT")
  /\ UNCHANGED <<relay_sockfd, closing>>

(* Mutant: the callback closes the socket itself, as connect_fail_cb does. *)
LoseAndClose(r) ==
  /\ Enter(r, "WAIT_RECONNECT")
  /\ closing' = {r}
  /\ CloseSocket(r)
  /\ UNCHANGED relay_sockfd

(***************************************************************************)
(* The connection is lost: relay_ctrl_connect_fail_cb or                   *)
(* relay_ctrl_disconnect_cb, with the socket still open.                   *)
(***************************************************************************)
Lose(r) ==
  /\ Enter(r, "WAIT_RECONNECT")
  /\ closing' = {r}
  /\ UNCHANGED <<sock, relay_sockfd>>

(* close(relay->sockfd) after the callback (port_main.c:197, 219). *)
CloseAfterCallback(r) ==
  /\ r \in closing
  /\ CloseSocket(r)
  /\ closing' = {}
  /\ UNCHANGED <<relay_state, relay_sockfd>>

(* select reported the socket writable: connect() is called again. *)
ConnectAgain(r) ==
  /\ closing = {}
  /\ relay_state[r] = "CONNECTING"
  /\ relay_sockfd[r] # BadFd
  /\ \/ Enter(r, "OPEN") /\ UNCHANGED <<sock, relay_sockfd, closing>>
     \/ UNCHANGED vars                                \* SL_EALREADY
     \/ Lose(r)

(* select reported the socket readable: one byte is read. *)
ReadByte(r) ==
  /\ closing = {}
  /\ Active(r)
  /\ relay_sockfd[r] # BadFd
  /\ \/ UNCHANGED vars                                \* a byte, or an error
     \/ Lose(r)                                       \* end of file

(* A connection or a server opens or closes a socket of its own. *)
OtherSocket ==
  /\ \E fd \in Fd, holder \in Other \cup {Free} :
       /\ sock[fd] \in Other \cup {Free}
       /\ sock' = [sock EXCEPT ![fd] = holder]
  /\ UNCHANGED relayVars

Next ==
  \/ \E r \in Relay :
       \/ wish_relay_client_open(r)
       \/ wish_relay_client_close(r)
       \/ ConnectAgain(r)
       \/ ReadByte(r)
       \/ CloseAfterCallback(r)
  \/ OtherSocket

Spec == Init /\ [][Next]_vars

-----------------------------------------------------------------------------

(***************************************************************************)
(* A relay that is connecting or open, or whose socket is about to be      *)
(* closed, owns the socket it knows, although the stale sockfd of a relay  *)
(* that waits may name anybody's.                                          *)
(***************************************************************************)
ActiveOwnsSocket ==
  \A r \in Relay :
    Active(r) \/ r \in closing =>
      relay_sockfd[r] \in Fd /\ sock[relay_sockfd[r]] = r

(***************************************************************************)
(* A relay closes no socket but its own: what others hold changes only in  *)
(* steps that leave every relay alone (relay_client.c:152, port_main.c:197 *)
(* and 219, with a sockfd that is never reset and a core that may have     *)
(* opened sockets between the callback and the close).                     *)
(***************************************************************************)
ClosesOwnSocket ==
  [][\A fd \in Fd : sock'[fd] # sock[fd] =>
       /\ sock[fd] \in Other => UNCHANGED relayVars
       /\ sock[fd] \in Relay =>
            /\ sock'[fd] = Free
            /\ relay_sockfd[sock[fd]] = fd
            /\ relay_state'[sock[fd]] = "WAIT_RECONNECT"]_vars

(***************************************************************************)
(* "we reserve one for relay" (wish_port_config.h:11): a relay never holds *)
(* more than one socket.                                                   *)
(***************************************************************************)
OneSocketPerRelay ==
  \A r \in Relay : Cardinality({fd \in Fd : sock[fd] = r}) =< 1

=============================================================================
