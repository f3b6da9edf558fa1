--------------------------- MODULE PortNetProofs -----------------------------
(***************************************************************************)
(* Theorems about the sockets of the connections, for any pool of contexts *)
(* and any set of descriptors.  All but the first assume that the core     *)
(* opens no socket while it handles TCP_DISCONNECTED: the second close()   *)
(* of port_main.c:307 would otherwise hit the socket just opened.          *)
(***************************************************************************)
EXTENDS PortNet, TLAPS

USE PortNetAssumption

LEMMA InitTypeOK == Init => TypeOK
BY DEF Init, TypeOK, Transport

LEMMA StepTypeOK == TypeOK /\ [Next]_vars => TypeOK'
<1> SUFFICES ASSUME TypeOK, [Next]_vars PROVE TypeOK'
  OBVIOUS
<1> USE DEF TypeOK, Transport
<1>1. ASSUME NEW c \in Ctx, wish_open_connection(c) PROVE TypeOK'
  BY <1>1 DEF wish_open_connection, Open, Occupy
<1>2. ASSUME NEW c \in Ctx, wish_open_connection_dns(c) PROVE TypeOK'
  BY <1>2 DEF wish_open_connection_dns, Occupy
<1>3. ASSUME NEW c \in Ctx, wish_close_connection(c) PROVE TypeOK'
  BY <1>3 DEF wish_close_connection, Close, Release
<1>4. ASSUME NEW c \in Ctx, connected_cb(c) PROVE TypeOK'
  BY <1>4 DEF connected_cb
<1>5. ASSUME NEW c \in Ctx, connect_fail_cb(c) PROVE TypeOK'
  BY <1>5 DEF connect_fail_cb, Close, Release
<1>6. ASSUME NEW c \in Ctx, PeerClosed(c) PROVE TypeOK'
  BY <1>6 DEF PeerClosed, Close, Release
<1>7. CASE CloseAgain
  BY <1>7 DEF CloseAgain, Close, ctxVars
<1>8. CASE AcceptConnection
  BY <1>8 DEF AcceptConnection, Open, Occupy, ctxVars
<1>9. CASE OtherSocket
  BY <1>9 DEF OtherSocket, Open, Close, ctxVars
<1>10. CASE UNCHANGED vars
  BY <1>10 DEF vars, ctxVars
<1>11. QED
  BY <1>1, <1>2, <1>3, <1>4, <1>5, <1>6, <1>7, <1>8, <1>9, <1>10 DEF Next

(* Every variable keeps its type, whatever the core does. *)
THEOREM TypeCorrect == Spec => []TypeOK
BY InitTypeOK, StepTypeOK, PTL DEF Spec

-----------------------------------------------------------------------------

(* The descriptor that is closed twice is not in use the second time. *)
SecondCloseHarmless == sockfd # NULL => sock[sockfd] = Free

(* The inductive invariant: ownership needs the second close() to be       *)
(* harmless, and that needs the descriptor to have been closed by its      *)
(* owner and not been handed out since, which is what ~OpenOnDisconnect    *)
(* gives.                                                                  *)
IInv == TypeOK /\ SocketOwnership /\ SecondCloseHarmless

LEMMA InitIInv == Init => IInv
<1> SUFFICES ASSUME Init PROVE IInv
  OBVIOUS
<1>1. TypeOK
  BY InitTypeOK
<1>2. SocketOwnership
  BY DEF Init, SocketOwnership
<1>3. SecondCloseHarmless
  BY DEF Init, SecondCloseHarmless
<1>4. QED BY <1>1, <1>2, <1>3 DEF IInv

LEMMA StepIInv ==
  ASSUME ~OpenOnDisconnect
  PROVE  IInv /\ [Next]_vars => IInv'
<1> SUFFICES ASSUME IInv, [Next]_vars PROVE IInv'
  OBVIOUS
<1>0. TypeOK'
  BY StepTypeOK DEF IInv
<1> USE DEF IInv, TypeOK, SocketOwnership, SecondCloseHarmless
<1>1. ASSUME NEW c \in Ctx, wish_open_connection(c) PROVE IInv'
  <2>1. CASE Occupy(c, NULL, "INITIAL") /\ UNCHANGED <<sock, sockfd>>
    BY <1>0, <2>1 DEF Occupy
  <2>2. CASE \E fd \in Fd, transport \in Transport :
               Open(fd, c) /\ Occupy(c, fd, transport) /\ UNCHANGED sockfd
    <3>1. PICK fd \in Fd, transport \in Transport :
            Open(fd, c) /\ Occupy(c, fd, transport) /\ UNCHANGED sockfd
      BY <2>2
    <3>2. SocketOwnership'
      BY <3>1 DEF Open, Occupy
    <3>3. SecondCloseHarmless'
      BY <3>1 DEF Open, MayOpen
    <3>4. QED BY <1>0, <3>2, <3>3
  <2>3. QED BY <1>1, <2>1, <2>2 DEF wish_open_connection
<1>2. ASSUME NEW c \in Ctx, wish_open_connection_dns(c) PROVE IInv'
  BY <1>0, <1>2 DEF wish_open_connection_dns, Occupy
<1>3. ASSUME NEW c \in Ctx, wish_close_connection(c) PROVE IInv'
  BY <1>0, <1>3 DEF wish_close_connection, Close, Release
<1>4. ASSUME NEW c \in Ctx, connected_cb(c) PROVE IInv'
  BY <1>0, <1>4 DEF connected_cb
<1>5. ASSUME NEW c \in Ctx, connect_fail_cb(c) PROVE IInv'
  BY <1>0, <1>5 DEF connect_fail_cb, Close, Release
<1>6. ASSUME NEW c \in Ctx, PeerClosed(c) PROVE IInv'
  BY <1>0, <1>6 DEF PeerClosed, Close, Release
<1>7. CASE CloseAgain
  BY <1>0, <1>7 DEF CloseAgain, Close, ctxVars
<1>8. CASE AcceptConnection
  <2>1. ASSUME NEW c \in Ctx, NEW fd \in Fd,
               Open(fd, c), Occupy(c, fd, "CONNECTED"), UNCHANGED sockfd
        PROVE  IInv'
    <3>1. SocketOwnership'
      BY <2>1 DEF Open, Occupy
    <3>2. SecondCloseHarmless'
      BY <2>1 DEF Open, MayOpen
    <3>3. QED BY <1>0, <3>1, <3>2
  <2>2. ASSUME NEW c \in Ctx,
               Occupy(c, BadFd, "CONNECTED"), UNCHANGED <<sock, sockfd>>
        PROVE  IInv'
    BY <1>0, <2>2 DEF Occupy
  <2>3. CASE UNCHANGED <<sock, ctxVars, sockfd>>
    BY <1>0, <2>3 DEF ctxVars
  <2>4. QED BY <1>8, <2>1, <2>2, <2>3 DEF AcceptConnection
<1>9. CASE OtherSocket
  BY <1>0, <1>9 DEF OtherSocket, Open, Close, MayOpen, ctxVars
<1>10. CASE UNCHANGED vars
  BY <1>0, <1>10 DEF vars, ctxVars
<1>11. QED
  BY <1>1, <1>2, <1>3, <1>4, <1>5, <1>6, <1>7, <1>8, <1>9, <1>10 DEF Next

(* No descriptor is shared, leaked or kept by a released context.          *)
THEOREM Ownership ==
  ASSUME ~OpenOnDisconnect
  PROVE  Spec => []SocketOwnership
<1>1. IInv => SocketOwnership
  BY DEF IInv
<1>2. IInv /\ [Next]_vars => IInv'
  BY StepIInv
<1>3. QED BY InitIInv, <1>1, <1>2, PTL DEF Spec

-----------------------------------------------------------------------------

(* The step that OnlyHolderCloses speaks of. *)
HolderCloses ==
  \A fd \in Fd : sock'[fd] # sock[fd] =>
    /\ sock[fd] \in Ctx =>
         sock'[fd] = Free /\ context_state'[sock[fd]] = "FREE"
    /\ sock[fd] \in Other => UNCHANGED <<ctxVars, sockfd>>

(* A close of the socket of context c is one that releases c.              *)
LEMMA CloseReleases ==
  ASSUME IInv, NEW c \in Ctx, send_arg[c] \in Fd \cup {BadFd},
         Close(send_arg[c]), Release(c)
  PROVE  HolderCloses
BY DEF IInv, TypeOK, SocketOwnership, Close, Release, HolderCloses

LEMMA StepHolder == IInv /\ [Next]_vars => [HolderCloses]_vars
<1> SUFFICES ASSUME IInv, Next PROVE HolderCloses
  OBVIOUS
<1>1. ASSUME NEW fd \in Fd, NEW h, Open(fd, h) PROVE HolderCloses
  BY <1>1 DEF Open, HolderCloses, IInv, TypeOK
<1>2. ASSUME UNCHANGED sock PROVE HolderCloses
  BY <1>2 DEF HolderCloses
<1>3. ASSUME NEW c \in Ctx, wish_open_connection(c) PROVE HolderCloses
  BY <1>1, <1>2, <1>3 DEF wish_open_connection
<1>4. ASSUME NEW c \in Ctx, wish_open_connection_dns(c) \/ connected_cb(c)
      PROVE  HolderCloses
  BY <1>2, <1>4 DEF wish_open_connection_dns, connected_cb
<1>5. ASSUME NEW c \in Ctx, wish_close_connection(c) PROVE HolderCloses
  <2>1. send_arg[c] \in Fd \cup {BadFd}
    BY <1>5 DEF wish_close_connection, IInv, TypeOK
  <2>2. QED BY <1>5, <2>1, CloseReleases DEF wish_close_connection
<1>6. ASSUME NEW c \in Ctx, connect_fail_cb(c) \/ PeerClosed(c)
      PROVE  HolderCloses
  BY <1>6, CloseReleases DEF connect_fail_cb, PeerClosed
<1>7. CASE CloseAgain
  BY <1>7 DEF CloseAgain, Close, HolderCloses, IInv, TypeOK, SecondCloseHarmless
<1>8. CASE AcceptConnection
  BY <1>1, <1>2, <1>8 DEF AcceptConnection
<1>9. CASE OtherSocket
  BY <1>9 DEF OtherSocket, Open, Close, HolderCloses, IInv, TypeOK
<1>10. QED
  BY <1>3, <1>4, <1>5, <1>6, <1>7, <1>8, <1>9 DEF Next

(* A socket is closed only by its holder, and a context's socket only      *)
(* together with the context.                                              *)
THEOREM HolderClosesOnly ==
  ASSUME ~OpenOnDisconnect
  PROVE  Spec => OnlyHolderCloses
<1>1. IInv /\ [Next]_vars => IInv'
  BY StepIInv
<1>2. [HolderCloses]_vars =>
        [\A fd \in Fd : sock'[fd] # sock[fd] =>
           /\ sock[fd] \in Ctx =>
                sock'[fd] = Free /\ context_state'[sock[fd]] = "FREE"
           /\ sock[fd] \in Other => UNCHANGED <<ctxVars, sockfd>>]_vars
  BY DEF HolderCloses
<1>3. QED
  BY InitIInv, <1>1, <1>2, StepHolder, PTL DEF Spec, OnlyHolderCloses

=============================================================================
