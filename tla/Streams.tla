------------------------------- MODULE Streams --------------------------------
(***************************************************************************)
(* The bytes of the Wish connections on their way in (port_main.c:229-275, *)
(* 374-385): the network processor receives them, select reports the       *)
(* connection, the loop moves some of them into the core's ring buffer and *)
(* raises WISH_EVENT_NEW_DATA, and when the loop drains the events the     *)
(* core takes a frame out of the ring.  Neither the peer's writes, nor the *)
(* network processor's buffers, nor the reads respect the frames.          *)
(*                                                                         *)
(* The core is not in this repository.  What it does with an event is      *)
(* taken from how the loop uses it: one frame is processed for an event,   *)
(* and if another one is there already the core raises the next event      *)
(* itself.  A frame always fits in the ring, which the port sizes for the  *)
(* core; a peer that sends a longer one is left out.  So is an error of    *)
(* wish_core_get_rx_buffer_free, which is printed and then compared as an  *)
(* unsigned number, so that 512 bytes are read (port_main.c:250-255): a    *)
(* connection of the pool has a ring.                                      *)
(***************************************************************************)
EXTENDS Integers, Sequences

CONSTANTS
  PoolSize,   \* WISH_PORT_CONTEXT_POOL_SZ
  RxRbSize,   \* WISH_PORT_RX_RB_SZ: the capacity of a connection's ring
  MaxRead,    \* max_read (512)
  MaxFrame,   \* the longest frame
  MaxSent     \* bound: bytes the peer of each connection sends

Ctx == 0 .. PoolSize - 1

ASSUME StreamsAssumption ==
  /\ PoolSize \in Nat
  /\ MaxSent \in [Ctx -> Nat]
  /\ RxRbSize \in Nat \ {0} /\ MaxRead \in Nat \ {0}
  /\ MaxFrame \in 1 .. RxRbSize

VARIABLES
  open,     \* the connections that are set up
  sent,     \* history: what the peer of each connection has sent
  fin,      \* the connections whose peer has closed its end
  inbox,    \* what the network processor has received and not handed over
  rx,       \* what is in the core's ring buffer
  taken,    \* history: what the core has processed
  pending,  \* the events raised and not yet processed, oldest first
  rfds,     \* the connections select has reported and the loop has to visit
  pc        \* where the loop is

streamVars == <<sent, fin, inbox, rx, taken>>
vars == <<open, streamVars, pending, rfds, pc>>

(* The bytes are numbered; `last` marks the end of a frame. *)
Byte == [pos : Nat, last : BOOLEAN]

TypeOK ==
  /\ open \in SUBSET Ctx /\ fin \in SUBSET Ctx /\ rfds \in SUBSET Ctx
  /\ {sent, inbox, taken, rx} \subseteq [Ctx -> Seq(Byte)]
  /\ \A c \in Ctx : Len(rx[c]) <= RxRbSize
  /\ pending \in Seq(Ctx)
  /\ pc \in {"select", "conn", "drain"}

Nothing == [c \in Ctx |-> <<>>]

Init ==
  /\ open = {} /\ fin = {} /\ rfds = {}
  /\ sent = Nothing /\ inbox = Nothing /\ rx = Nothing /\ taken = Nothing
  /\ pending = <<>> /\ pc = "select"

Drop(n, s) == SubSeq(s, n + 1, Len(s))
Take(n, s) == SubSeq(s, 1, n)

(* The ends of frames in a sequence of bytes. *)
Ends(s) == {i \in 1 .. Len(s) : s[i].last}

-----------------------------------------------------------------------------
(* The peers and the network processor *)

PeerSends(c) ==
  /\ c \in open \ fin /\ Len(sent[c]) < MaxSent[c]
  /\ \E b \in [pos : {Len(sent[c]) + 1}, last : BOOLEAN] :
       /\ b.last \/ \E i \in Len(sent[c]) + 2 - MaxFrame .. Len(sent[c]) :
                      i = 0 \/ i \in Ends(sent[c])
       /\ sent' = [sent EXCEPT ![c] = Append(@, b)]
       /\ inbox' = [inbox EXCEPT ![c] = Append(@, b)]
  /\ UNCHANGED <<open, fin, rx, taken, pending, rfds, pc>>

PeerCloses(c) ==
  /\ c \in open \ fin
  /\ fin' = fin \cup {c}
  /\ UNCHANGED <<open, sent, inbox, rx, taken, pending, rfds, pc>>

Readable == {c \in open : inbox[c] # <<>> \/ c \in fin}

-----------------------------------------------------------------------------
(* The loop *)

Goto(place) == pc' = place

Select ==
  /\ pc = "select"
  /\ rfds' \in SUBSET Readable
  /\ Goto("conn")
  /\ UNCHANGED <<open, streamVars, pending>>

(* Mutant: the larger of the two limits. *)
ReadLenSwapped(rb_free) == IF rb_free > MaxRead THEN rb_free ELSE MaxRead

read_buf_len(rb_free) == IF rb_free > MaxRead THEN MaxRead ELSE rb_free

wish_message_processor_notify(c) == pending' = Append(pending, c)

(* Mutant: no event is raised for data that follow others in the ring. *)
FeedNotifiesOnce(c, n) ==
  /\ rx' = [rx EXCEPT ![c] = @ \o Take(n, inbox[c])]
  /\ inbox' = [inbox EXCEPT ![c] = Drop(n, @)]
  /\ IF rx[c] = <<>> THEN wish_message_processor_notify(c) ELSE UNCHANGED pending
  /\ UNCHANGED <<open, sent, fin, taken>>

(* Mutant: the bytes go in front of those in the ring. *)
FeedPrepends(c, n) ==
  /\ rx' = [rx EXCEPT ![c] = Take(n, inbox[c]) \o @]
  /\ inbox' = [inbox EXCEPT ![c] = Drop(n, @)]
  /\ wish_message_processor_notify(c)
  /\ UNCHANGED <<open, sent, fin, taken>>

(* recv() has returned n bytes: wish_core_feed, and an event. *)
Feed(c, n) ==
  /\ rx' = [rx EXCEPT ![c] = @ \o Take(n, inbox[c])]
  /\ inbox' = [inbox EXCEPT ![c] = Drop(n, @)]
  /\ wish_message_processor_notify(c)
  /\ UNCHANGED <<open, sent, fin, taken>>

(* TCP_DISCONNECTED, or the core gives the connection up. *)
Release(c) ==
  /\ open' = open \ {c}
  /\ fin' = fin \ {c}
  /\ sent' = [sent EXCEPT ![c] = <<>>]
  /\ inbox' = [inbox EXCEPT ![c] = <<>>]
  /\ rx' = [rx EXCEPT ![c] = <<>>]
  /\ taken' = [taken EXCEPT ![c] = <<>>]
  /\ UNCHANGED pending

(* The data are read: any number of bytes that are there and asked for. *)
Receive(c) ==
  LET rb_free == RxRbSize - Len(rx[c]) IN
  /\ rb_free > 0
  /\ \E n \in 1 .. Len(inbox[c]) : n <= read_buf_len(rb_free) /\ Feed(c, n)

(* Mutant: what is still with the network processor is not waited for. *)
EndOfFileAtOnce(c) == c \in fin /\ Release(c)

(* recv() returns 0 after the last byte. *)
EndOfFile(c) ==
  /\ Len(rx[c]) < RxRbSize
  /\ c \in fin /\ inbox[c] = <<>>
  /\ Release(c)

(***************************************************************************)
(* The next connection that was reported, in the order of the pool.  With  *)
(* no room in the ring it is left for another pass; an error of recv() is  *)
(* ignored.                                                                *)
(***************************************************************************)
VisitConnection(c) ==
  /\ pc = "conn"
  /\ c \in rfds /\ \A d \in rfds : c <= d
  /\ rfds' = rfds \ {c}
  /\ \/ Receive(c)
     \/ EndOfFile(c)
     \/ UNCHANGED <<open, streamVars, pending>>
  /\ UNCHANGED pc

(* The contexts have been visited; a connection may be accepted. *)
Accept ==
  /\ pc = "conn" /\ rfds = {}
  /\ \/ UNCHANGED open
     \/ \E c \in Ctx \ open : open' = open \cup {c}
  /\ Goto("drain")
  /\ UNCHANGED <<streamVars, pending, rfds>>

(* Where the first frame in the ring ends. *)
FirstEnd(c, n) == n \in Ends(rx[c]) /\ \A i \in Ends(rx[c]) : n <= i

(* wish_message_processor_task. *)
ProcessFrame(c, rest) ==
  \/ /\ Ends(rx[c]) = {}
     /\ pending' = rest
     /\ UNCHANGED <<rx, taken>>
  \/ \E n \in 1 .. Len(rx[c]) :
       /\ FirstEnd(c, n)
       /\ taken' = [taken EXCEPT ![c] = @ \o Take(n, rx[c])]
       /\ rx' = [rx EXCEPT ![c] = Drop(n, @)]
       /\ pending' = IF Ends(rx'[c]) = {} THEN rest ELSE Append(rest, c)

(* Mutant: one event in each pass of the loop. *)
DrainOne ==
  /\ pc = "drain"
  /\ \/ pending # <<>> /\ ProcessFrame(Head(pending), Tail(pending))
     \/ pending = <<>> /\ UNCHANGED <<rx, taken, pending>>
  /\ Goto("select")
  /\ UNCHANGED <<open, sent, fin, inbox, rfds>>

Drain ==
  /\ pc = "drain"
  /\ \/ /\ pending # <<>>
        /\ ProcessFrame(Head(pending), Tail(pending))
        /\ UNCHANGED pc
     \/ /\ pending = <<>>
        /\ Goto("select")
        /\ UNCHANGED <<rx, taken, pending>>
  /\ UNCHANGED <<open, sent, fin, inbox, rfds>>

(* While it processes the events the core closes a connection. *)
CoreCloses(c) ==
  /\ pc = "drain" /\ c \in open
  /\ Release(c)
  /\ UNCHANGED <<rfds, pc>>

Loop ==
  \/ Select
  \/ \E c \in Ctx : VisitConnection(c)
  \/ Accept
  \/ Drain

Next ==
  \/ Loop
  \/ \E c \in Ctx : PeerSends(c) \/ PeerCloses(c) \/ CoreCloses(c)

Spec == Init /\ [][Next]_vars

(***************************************************************************)
(* The loop goes on; select, asked again and again, reports a connection   *)
(* that stays readable, and recv() does not fail for ever.                 *)
(***************************************************************************)
Report(c) == Select /\ c \in rfds'

LiveSpec ==
  /\ Spec
  /\ WF_vars(Loop)
  /\ \A c \in Ctx : /\ SF_vars(Report(c))
                    /\ SF_vars(VisitConnection(c) /\ <<open, inbox>>' # <<open, inbox>>)

-----------------------------------------------------------------------------

(***************************************************************************)
(* No byte is lost, doubled or moved, whatever the sizes of the pieces in  *)
(* which it travels, and none of an earlier connection of the same context *)
(* is left (port_main.c:243-262).                                          *)
(***************************************************************************)
StreamIntact ==
  \A c \in open : taken[c] \o rx[c] \o inbox[c] = sent[c]

(***************************************************************************)
(* "Cannot read at this time because ring buffer is full"                  *)
(* (port_main.c:244-248) does not come up with frames that fit in the      *)
(* ring: a full ring has a whole frame in it, and the loop has drained the *)
(* events before it selects again (port_main.c:374-385).                   *)
(***************************************************************************)
RingHasRoom == \A c \in rfds : Len(rx[c]) < RxRbSize

(***************************************************************************)
(* When the loop finds that the peer has closed the connection, every      *)
(* whole frame the peer has sent has been processed: what is dropped with  *)
(* the connection is a fragment (port_main.c:268-273).                     *)
(***************************************************************************)
CloseDropsNoFrame ==
  [][\A c \in open \ open' :
       pc = "conn" => Ends(sent[c]) \subseteq 1 .. Len(taken[c])]_vars

(* The n-th byte ends a frame the peer has sent over connection c. *)
FrameSent(c, n) == c \in open /\ n \in Ends(sent[c])

(***************************************************************************)
(* Every frame is processed unless the core closes the connection, however *)
(* many frames arrive in one piece and whatever the other connections do:  *)
(* no frame waits in the ring for an event that never comes.               *)
(***************************************************************************)
FramesProcessed ==
  \A c \in Ctx : \A n \in 1 .. MaxSent[c] :
    FrameSent(c, n) ~> (Len(taken[c]) >= n \/ c \notin open)
=============================================================================
