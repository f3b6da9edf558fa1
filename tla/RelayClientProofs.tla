------------------------- MODULE RelayClientProofs ---------------------------
(***************************************************************************)
(* Theorems about the relay control connections, for any number of relays  *)
(* and descriptors.  They assume that the core closes no relay that waits  *)
(* to reconnect and neither opens nor closes a relay while it is told that *)
(* this relay's connection is lost: in both cases the close() that follows *)
(* would go to a descriptor that may be somebody else's.                   *)
(***************************************************************************)
EXTENDS RelayClient, TLAPS

USE RelayClientAssumption

LEMMA StepTypeOK == TypeOK /\ [Next]_vars => TypeOK'
<1> SUFFICES ASSUME TypeOK, [Next]_vars PROVE TypeOK'
  OBVIOUS
<1> USE DEF TypeOK, State, Enter, CloseSocket, relayVars, vars
<1>1. ASSUME NEW r \in Relay, wish_relay_client_open(r) PROVE TypeOK'
  BY <1>1
     DEF wish_relay_client_open, port_dns_start_resolving_relay_client,
         port_relay_client_open
<1>2. ASSUME NEW r \in Relay,
             wish_relay_client_close(r) \/ CloseAfterCallback(r)
      PROVE  TypeOK'
  BY <1>2 DEF wish_relay_client_close, CloseAfterCallback
<1>3. ASSUME NEW r \in Relay, ConnectAgain(r) \/ ReadByte(r) PROVE TypeOK'
  BY <1>3 DEF ConnectAgain, ReadByte, Lose
<1>4. CASE OtherSocket
  BY <1>4 DEF OtherSocket
<1>5. CASE UNCHANGED vars
  BY <1>5
<1>6. QED BY <1>1, <1>2, <1>3, <1>4, <1>5 DEF Next

(* What the state of a relay says about its sockfd: nothing has ever been  *)
(* stored in that of a relay which was not opened or is given by a name,   *)
(* and a relay whose socket is about to be closed waits.                   *)
StateTellsSocket ==
  \A r \in Relay :
    /\ relay_state[r] = "RESOLVING" => r \in NamedHost
    /\ r \in NamedHost \/ relay_state[r] = "INITIAL" => relay_sockfd[r] = BadFd
    /\ r \in closing => relay_state[r] = "WAIT_RECONNECT"

IInv == TypeOK /\ StateTellsSocket /\ ActiveOwnsSocket

LEMMA InitIInv == Init => IInv
<1> SUFFICES ASSUME Init PROVE IInv
  OBVIOUS
<1>1. TypeOK
  BY DEF Init, TypeOK, State
<1>2. StateTellsSocket
  BY DEF Init, StateTellsSocket
<1>3. ActiveOwnsSocket
  BY DEF Init, ActiveOwnsSocket, Active
<1>4. QED BY <1>1, <1>2, <1>3 DEF IInv

(* Closing the socket that a relay owns, if it knows any.                  *)
LEMMA CloseIInv ==
  ASSUME IInv, NEW r \in Relay,
         relay_sockfd[r] = BadFd \/ Active(r) \/ r \in closing,
         CloseSocket(r),
         relay_state' = [relay_state EXCEPT ![r] = "WAIT_RECONNECT"],
         closing' = closing \ {r}, UNCHANGED relay_sockfd
  PROVE  IInv'
<1>1. TypeOK'
  BY DEF IInv, TypeOK, CloseSocket, State
<1>2. StateTellsSocket'
  BY DEF IInv, TypeOK, StateTellsSocket
<1>3. ActiveOwnsSocket'
  BY DEF IInv, TypeOK, StateTellsSocket, ActiveOwnsSocket, Active, CloseSocket
<1>4. QED BY <1>1, <1>2, <1>3 DEF IInv

(* The core closes a relay that owns its socket or never had one.          *)
LEMMA CoreCloses ==
  ASSUME IInv, "WAIT_RECONNECT" \notin CloseStates, ~ReopenInCallback,
         NEW r \in Relay, wish_relay_client_close(r)
  PROVE  /\ r \notin closing
         /\ relay_sockfd[r] = BadFd \/ Active(r)
BY DEF IInv, TypeOK, StateTellsSocket, wish_relay_client_close, CoreMayTouch,
       Active, State

LEMMA LoseIInv ==
  ASSUME IInv, NEW r \in Relay, Active(r), closing = {}, Lose(r)
  PROVE  IInv'
<1>1. TypeOK'
  BY DEF IInv, TypeOK, Lose, Enter, State
<1>2. StateTellsSocket'
  BY DEF IInv, TypeOK, StateTellsSocket, ActiveOwnsSocket, Active, Lose, Enter
<1>3. ActiveOwnsSocket'
  BY DEF IInv, TypeOK, ActiveOwnsSocket, Active, Lose, Enter
<1>4. QED BY <1>1, <1>2, <1>3 DEF IInv

LEMMA OpenIInv ==
  ASSUME IInv, ~ReopenInCallback,
         NEW r \in Relay, wish_relay_client_open(r)
  PROVE  IInv'
<1> USE DEF IInv, TypeOK, State, StateTellsSocket, Enter
<1>0. r \notin closing /\ UNCHANGED closing
  BY DEF wish_relay_client_open, CoreMayTouch
<1>1. CASE /\ r \in NamedHost
           /\ Enter(r, "RESOLVING")
           /\ UNCHANGED <<sock, relay_sockfd>>
  BY <1>0, <1>1 DEF ActiveOwnsSocket, Active
<1>2. ASSUME NEW fd \in Fd,
             r \notin NamedHost,
             sock[fd] = Free,
             sock' = [sock EXCEPT ![fd] = r],
             relay_sockfd' = [relay_sockfd EXCEPT ![r] = fd],
             Enter(r, "CONNECTING") \/ Enter(r, "WAIT_RECONNECT")
      PROVE  IInv'
  <2>1. TypeOK'
    BY <1>0, <1>2
  <2>2. StateTellsSocket'
    BY <1>0, <1>2
  <2>3. ActiveOwnsSocket'
    BY <1>0, <1>2 DEF ActiveOwnsSocket, Active
  <2>4. QED BY <2>1, <2>2, <2>3
<1>3. CASE /\ relay_sockfd' = [relay_sockfd EXCEPT ![r] = BadFd]
           /\ Enter(r, "WAIT_RECONNECT")
           /\ UNCHANGED sock
  <2>1. TypeOK'
    BY <1>0, <1>3
  <2>2. StateTellsSocket'
    BY <1>0, <1>3
  <2>3. ActiveOwnsSocket'
    BY <1>0, <1>3 DEF ActiveOwnsSocket, Active
  <2>4. QED BY <2>1, <2>2, <2>3
<1>4. QED
  BY <1>1, <1>2, <1>3
     DEF wish_relay_client_open, port_dns_start_resolving_relay_client,
         port_relay_client_open

LEMMA SameIInv == IInv /\ UNCHANGED vars => IInv'
BY DEF vars, relayVars, IInv, TypeOK, StateTellsSocket, ActiveOwnsSocket,
       Active

LEMMA StepIInv ==
  ASSUME "WAIT_RECONNECT" \notin CloseStates, ~ReopenInCallback
  PROVE  IInv /\ [Next]_vars => IInv'
<1> SUFFICES ASSUME IInv, [Next]_vars PROVE IInv'
  OBVIOUS
<1>1. ASSUME NEW r \in Relay, wish_relay_client_open(r) PROVE IInv'
  BY <1>1, OpenIInv
<1>2. ASSUME NEW r \in Relay, wish_relay_client_close(r) PROVE IInv'
  <2>1. r \notin closing /\ (relay_sockfd[r] = BadFd \/ Active(r))
    BY <1>2, CoreCloses
  <2>2. closing' = closing \ {r}
    BY <1>2, <2>1 DEF wish_relay_client_close
  <2>3. QED
    BY <1>2, <2>1, <2>2, CloseIInv DEF wish_relay_client_close, Enter
<1>3. ASSUME NEW r \in Relay, ConnectAgain(r) PROVE IInv'
  <2>1. CASE Enter(r, "OPEN") /\ UNCHANGED <<sock, relay_sockfd, closing>>
    BY <1>3, <2>1
       DEF ConnectAgain, IInv, TypeOK, StateTellsSocket, ActiveOwnsSocket,
           Active, Enter, State
  <2>2. CASE UNCHANGED vars
    BY <2>2, SameIInv
  <2>3. CASE Lose(r)
    BY <1>3, <2>3, LoseIInv DEF ConnectAgain, Active
  <2>4. QED BY <1>3, <2>1, <2>2, <2>3 DEF ConnectAgain
<1>4. ASSUME NEW r \in Relay, ReadByte(r) PROVE IInv'
  BY <1>4, SameIInv, LoseIInv DEF ReadByte
<1>5. ASSUME NEW r \in Relay, CloseAfterCallback(r) PROVE IInv'
  <2>1. relay_state[r] = "WAIT_RECONNECT"
    BY <1>5 DEF CloseAfterCallback, IInv, StateTellsSocket
  <2>2. TypeOK'
    BY <1>5 DEF CloseAfterCallback, CloseSocket, IInv, TypeOK
  <2>3. StateTellsSocket'
    BY <1>5 DEF CloseAfterCallback, IInv, StateTellsSocket
  <2>4. ActiveOwnsSocket'
    BY <1>5, <2>1
       DEF CloseAfterCallback, CloseSocket, IInv, TypeOK, ActiveOwnsSocket,
           Active
  <2>5. QED BY <2>2, <2>3, <2>4 DEF IInv
<1>6. CASE OtherSocket
  BY <1>6 DEF OtherSocket, relayVars, IInv, TypeOK, StateTellsSocket,
              ActiveOwnsSocket, Active
<1>7. CASE UNCHANGED vars
  BY <1>7, SameIInv
<1>8. QED BY <1>1, <1>2, <1>3, <1>4, <1>5, <1>6, <1>7 DEF Next

(* A relay that is connecting or open, or is about to be closed, owns the  *)
(* socket it knows.                                                        *)
THEOREM RelayOwnership ==
  ASSUME "WAIT_RECONNECT" \notin CloseStates, ~ReopenInCallback
  PROVE  Spec => [](TypeOK /\ ActiveOwnsSocket)
<1>1. IInv => TypeOK /\ ActiveOwnsSocket
  BY DEF IInv
<1>2. IInv /\ [Next]_vars => IInv'
  BY StepIInv
<1>3. QED BY InitIInv, <1>1, <1>2, PTL DEF Spec

-----------------------------------------------------------------------------

(* The step that ClosesOwnSocket speaks of. *)
OwnClose ==
  \A fd \in Fd : sock'[fd] # sock[fd] =>
    /\ sock[fd] \in Other => UNCHANGED relayVars
    /\ sock[fd] \in Relay =>
         /\ sock'[fd] = Free
         /\ relay_sockfd[sock[fd]] = fd
         /\ relay_state'[sock[fd]] = "WAIT_RECONNECT"

LEMMA StepOwnClose ==
  ASSUME "WAIT_RECONNECT" \notin CloseStates, ~ReopenInCallback
  PROVE  IInv /\ [Next]_vars => [OwnClose]_vars
<1> SUFFICES ASSUME IInv, Next PROVE OwnClose
  OBVIOUS
<1>1. ASSUME NEW r \in Relay, CloseSocket(r),
             relay_sockfd[r] = BadFd \/ Active(r) \/ r \in closing,
             relay_state'[r] = "WAIT_RECONNECT"
      PROVE  OwnClose
  BY <1>1 DEF OwnClose, IInv, TypeOK, ActiveOwnsSocket, CloseSocket
<1>2. ASSUME UNCHANGED sock PROVE OwnClose
  BY <1>2 DEF OwnClose
<1>3. ASSUME NEW r \in Relay, wish_relay_client_open(r) PROVE OwnClose
  BY <1>2, <1>3
     DEF wish_relay_client_open, port_dns_start_resolving_relay_client,
         port_relay_client_open, OwnClose, IInv, TypeOK
<1>4. ASSUME NEW r \in Relay, wish_relay_client_close(r) PROVE OwnClose
  <2>1. relay_sockfd[r] = BadFd \/ Active(r)
    BY <1>4, CoreCloses
  <2>2. relay_state'[r] = "WAIT_RECONNECT"
    BY <1>4 DEF wish_relay_client_close, Enter, IInv, TypeOK
  <2>3. QED BY <1>1, <1>4, <2>1, <2>2 DEF wish_relay_client_close
<1>5. ASSUME NEW r \in Relay, ConnectAgain(r) \/ ReadByte(r) PROVE OwnClose
  BY <1>2, <1>5 DEF ConnectAgain, ReadByte, Lose, vars
<1>6. ASSUME NEW r \in Relay, CloseAfterCallback(r) PROVE OwnClose
  <2>1. relay_state'[r] = "WAIT_RECONNECT"
    BY <1>6 DEF CloseAfterCallback, IInv, StateTellsSocket
  <2>2. QED BY <1>1, <1>6, <2>1 DEF CloseAfterCallback
<1>7. CASE OtherSocket
  BY <1>7 DEF OtherSocket, OwnClose, IInv, TypeOK
<1>8. QED BY <1>3, <1>4, <1>5, <1>6, <1>7 DEF Next

(* A relay closes its own socket and nobody else's, in spite of a sockfd   *)
(* that outlives the socket and of whatever the core opens and closes      *)
(* between a callback and the close() that follows it.                     *)
THEOREM RelayClosesOwn ==
  ASSUME "WAIT_RECONNECT" \notin CloseStates, ~ReopenInCallback
  PROVE  Spec => ClosesOwnSocket
<1>1. IInv /\ [Next]_vars => IInv'
  BY StepIInv
<1>2. IInv /\ [Next]_vars => [OwnClose]_vars
  BY StepOwnClose
<1>3. [OwnClose]_vars =>
        [\A fd \in Fd : sock'[fd] # sock[fd] =>
           /\ sock[fd] \in Other => UNCHANGED relayVars
           /\ sock[fd] \in Relay =>
                /\ sock'[fd] = Free
                /\ relay_sockfd[sock[fd]] = fd
                /\ relay_state'[sock[fd]] = "WAIT_RECONNECT"]_vars
  BY DEF OwnClose
<1>4. QED
  BY InitIInv, <1>1, <1>2, <1>3, PTL DEF Spec, ClosesOwnSocket

=============================================================================
