------------------------------ MODULE PortNet --------------------------------
(***************************************************************************)
(* The sockets of the Wish connections: port_net.c, and what port_main.c   *)
(* does to a connection when select reports its socket.                    *)
(*                                                                         *)
(* A connection context of the core's pool owns a socket through           *)
(* ctx->send_arg->sock_fd.  Descriptors are small numbers that the network *)
(* processor hands out again as soon as they are closed, so a close() by   *)
(* the wrong party hits the connection that got the number next.           *)
(*                                                                         *)
(* The Wish core is not in this repository.  Two things it does are taken  *)
(* from how the port uses it: wish_connection_init takes a free context    *)
(* and TCP_DISCONNECTED makes the core release one (port_net.c:137-139).   *)
(*                                                                         *)
(* The two mallocs of a send_arg are written through unchecked             *)
(* (port_net.c:89-94, port_main.c:336).  A failed one stops the board      *)
(* there, which is a behaviour of the model that takes no further step.    *)
(***************************************************************************)
EXTENDS FiniteSets

CONSTANTS
  Ctx,    \* core->connection_pool (WISH_PORT_CONTEXT_POOL_SZ contexts)
  Fd,     \* the descriptors the network processor can hand out
  Other,  \* who else may hold a descriptor: the relay client, the servers
  Free,   \* the holder of a descriptor that is not open
  BadFd,  \* the negative value a failed socket() or accept() returns
  NULL,   \* no send_arg, no descriptor
  OpenOnDisconnect  \* the core may open sockets while it handles
                    \* TCP_DISCONNECTED (it is assumed not to)

ASSUME PortNetAssumption ==
  /\ Ctx \cap Other = {}
  /\ Free \notin Ctx \cup Other
  /\ BadFd \notin Fd
  /\ NULL \notin Fd \cup {BadFd}
  /\ OpenOnDisconnect \in BOOLEAN

VARIABLES
  sock,             \* who holds each descriptor
  context_state,    \* "FREE" or "IN_USE"
  transport_state,  \* curr_transport_state of each context
  send_arg,         \* send_arg->sock_fd of each context, or NULL
  sockfd            \* a descriptor port_main.c is about to close again, or NULL

ctxVars == <<context_state, transport_state, send_arg>>
vars == <<sock, ctxVars, sockfd>>

Transport == {"INITIAL", "CONNECTING", "CONNECTED"}

TypeOK ==
  /\ sock \in [Fd -> Ctx \cup Other \cup {Free}]
  /\ context_state \in [Ctx -> {"FREE", "IN_USE"}]
  /\ transport_state \in [Ctx -> Transport]
  /\ send_arg \in [Ctx -> Fd \cup {BadFd, NULL}]
  /\ sockfd \in Fd \cup {NULL}

Init ==
  /\ sock \in [Fd -> Other \cup {Free}]
  /\ context_state = [c \in Ctx |-> "FREE"]
  /\ transport_state = [c \in Ctx |-> "INITIAL"]
  /\ send_arg = [c \in Ctx |-> NULL]
  /\ sockfd = NULL

-----------------------------------------------------------------------------

(* The core takes context c and the port gives it a socket arg, or none. *)
Occupy(c, arg, transport) ==
  /\ context_state[c] = "FREE"
  /\ context_state' = [context_state EXCEPT ![c] = "IN_USE"]
  /\ transport_state' = [transport_state EXCEPT ![c] = transport]
  /\ send_arg' = [send_arg EXCEPT ![c] = arg]

(* TCP_DISCONNECTED: the core cleans the context up. *)
Release(c) ==
  /\ context_state' = [context_state EXCEPT ![c] = "FREE"]
  /\ transport_state' = [transport_state EXCEPT ![c] = "INITIAL"]
  /\ send_arg' = [send_arg EXCEPT ![c] = NULL]

(***************************************************************************)
(* While sockfd is set, port_main.c is between connect_fail_cb and its own *)
(* close() of the same descriptor, and only the core's handler of          *)
(* TCP_DISCONNECTED runs.                                                  *)
(***************************************************************************)
MayOpen == sockfd = NULL \/ OpenOnDisconnect

(* socket() or accept() returned fd. *)
Open(fd, holder) ==
  /\ MayOpen
  /\ sock[fd] = Free
  /\ sock' = [sock EXCEPT ![fd] = holder]

(* close(fd); closing a negative descriptor is an error without effect. *)
Close(fd) ==
  sock' = IF fd \in Fd THEN [sock EXCEPT ![fd] = Free] ELSE sock

(***************************************************************************)
(* The core opens a connection.  connect() returns SL_EALREADY, 0, or an   *)
(* error which is only printed: the context keeps the socket and never     *)
(* hears of it again.                                                      *)
(***************************************************************************)
wish_open_connection(c) ==
  /\ \/ \E fd \in Fd, transport \in Transport :
          /\ Open(fd, c)
          /\ Occupy(c, fd, transport)
     \/ /\ Occupy(c, NULL, "INITIAL")     \* socket() failed: return 1
        /\ UNCHANGED sock
  /\ UNCHANGED sockfd

(* Opening by host name does nothing at all on this port. *)
wish_open_connection_dns(c) ==
  /\ Occupy(c, NULL, "INITIAL")
  /\ UNCHANGED <<sock, sockfd>>

(* The core closes a connection; send_arg is dereferenced unchecked. *)
wish_close_connection(c) ==
  /\ context_state[c] = "IN_USE"
  /\ send_arg[c] # NULL
  /\ Close(send_arg[c])
  /\ Release(c)
  /\ UNCHANGED sockfd

(* connect() called again succeeds: TCP_CONNECTED. *)
connected_cb(c) ==
  /\ sockfd = NULL
  /\ send_arg[c] \in Fd
  /\ transport_state[c] = "CONNECTING"
  /\ transport_state' = [transport_state EXCEPT ![c] = "CONNECTED"]
  /\ UNCHANGED <<sock, context_state, send_arg, sockfd>>

(* Mutant: a negative descriptor is treated like any other. *)
ConnectFailUnchecked(c) ==
  /\ sockfd = NULL
  /\ send_arg[c] # NULL
  /\ Close(send_arg[c])
  /\ Release(c)
  /\ sockfd' = send_arg[c]

(* connect() called again fails: the socket is closed and the context      *)
(* released, and port_main.c still holds the descriptor in a local.        *)
connect_fail_cb(c) ==
  /\ sockfd = NULL
  /\ send_arg[c] \in Fd
  /\ Close(send_arg[c])
  /\ Release(c)
  /\ sockfd' = send_arg[c]

(* The second close() of the same descriptor (port_main.c:307). *)
CloseAgain ==
  /\ sockfd # NULL
  /\ Close(sockfd)
  /\ sockfd' = NULL
  /\ UNCHANGED ctxVars

(* Mutant: the socket is not closed. *)
PeerClosedLeaks(c) ==
  /\ sockfd = NULL
  /\ send_arg[c] \in Fd
  /\ Release(c)
  /\ UNCHANGED <<sock, sockfd>>

(* Mutant: the core is not told. *)
PeerClosedSilently(c) ==
  /\ sockfd = NULL
  /\ send_arg[c] \in Fd
  /\ Close(send_arg[c])
  /\ UNCHANGED <<ctxVars, sockfd>>

(* recv() returned 0: the peer has closed the connection. *)
PeerClosed(c) ==
  /\ sockfd = NULL
  /\ send_arg[c] \in Fd
  /\ Close(send_arg[c])
  /\ Release(c)
  /\ UNCHANGED sockfd

(***************************************************************************)
(* An incoming connection.  A failed accept() is printed and the context   *)
(* is set up all the same, with a negative descriptor.  When the pool has  *)
(* no free context, what accept() returned, a free descriptor or a         *)
(* negative number, is closed at once (port_main.c:330-333): nothing runs  *)
(* between the two calls, so the step changes no variable.                 *)
(***************************************************************************)
AcceptConnection ==
  /\ sockfd = NULL
  /\ \/ \E c \in Ctx, fd \in Fd : Open(fd, c) /\ Occupy(c, fd, "CONNECTED")
     \/ \E c \in Ctx : Occupy(c, BadFd, "CONNECTED") /\ UNCHANGED sock
     \/ /\ \A c \in Ctx : context_state[c] # "FREE"
        /\ \E newsockfd \in Fd \cup {BadFd} :
             newsockfd \in Fd => sock[newsockfd] = Free
        /\ UNCHANGED <<sock, ctxVars>>
  /\ UNCHANGED sockfd

(* Whoever else uses sockets opens or closes one of its own. *)
OtherSocket ==
  /\ \E fd \in Fd :
       \/ \E holder \in Other : Open(fd, holder)
       \/ sock[fd] \in Other /\ Close(fd)
  /\ UNCHANGED <<ctxVars, sockfd>>

Next ==
  \/ \E c \in Ctx :
       \/ wish_open_connection(c)
       \/ wish_open_connection_dns(c)
       \/ wish_close_connection(c)
       \/ connected_cb(c)
       \/ connect_fail_cb(c)
       \/ PeerClosed(c)
  \/ CloseAgain
  \/ AcceptConnection
  \/ OtherSocket

Spec == Init /\ [][Next]_vars

-----------------------------------------------------------------------------

(***************************************************************************)
(* The sockets of the contexts are exactly the sockets the contexts know:  *)
(* no two contexts share one, none is leaked when a context is released    *)
(* and a free context knows none.                                          *)
(***************************************************************************)
SocketOwnership ==
  /\ \A c \in Ctx : send_arg[c] \in Fd => sock[send_arg[c]] = c
  /\ \A fd \in Fd : sock[fd] \in Ctx => send_arg[sock[fd]] = fd
  /\ \A c \in Ctx : context_state[c] = "FREE" => send_arg[c] = NULL

(***************************************************************************)
(* A context's socket is closed by nothing but the step that releases the  *)
(* context, and no step of a connection touches the socket of another      *)
(* party (port_main.c:270 and 307, port_net.c:75 and 144).                 *)
(***************************************************************************)
OnlyHolderCloses ==
  [][\A fd \in Fd : sock'[fd] # sock[fd] =>
       /\ sock[fd] \in Ctx =>
            sock'[fd] = Free /\ context_state'[sock[fd]] = "FREE"
       /\ sock[fd] \in Other => UNCHANGED <<ctxVars, sockfd>>]_vars
=============================================================================
