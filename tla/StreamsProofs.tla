---------------------------- MODULE StreamsProofs ----------------------------
(***************************************************************************)
(* Theorems about the bytes of the connections, for any number of          *)
(* connections and any sizes of rings, reads and frames.                   *)
(***************************************************************************)
EXTENDS Streams, SequenceTheorems, TLAPS

USE StreamsAssumption

-----------------------------------------------------------------------------
(* The pieces of a sequence of bytes. *)

LEMMA Assoc ==
  ASSUME NEW x \in Seq(Byte), NEW y \in Seq(Byte), NEW z \in Seq(Byte)
  PROVE  (x \o y) \o z = x \o (y \o z)
BY ConcatAssociative, SMT

LEMMA TakeDrop ==
  ASSUME NEW s \in Seq(Byte), NEW n \in 0 .. Len(s)
  PROVE  /\ Take(n, s) \in Seq(Byte) /\ Len(Take(n, s)) = n
         /\ Drop(n, s) \in Seq(Byte) /\ Len(Drop(n, s)) = Len(s) - n
         /\ \A i \in 1 .. n : Take(n, s)[i] = s[i]
         /\ \A i \in 1 .. Len(s) - n : Drop(n, s)[i] = s[n + i]
         /\ Take(n, s) \o Drop(n, s) = s
<1>1. Len(s) \in Nat /\ \A i \in 1 .. Len(s) : s[i] \in Byte
  OBVIOUS
<1>2. /\ Take(n, s) \in Seq(Byte) /\ Len(Take(n, s)) = n
      /\ \A i \in 1 .. n : Take(n, s)[i] = s[i]
  BY <1>1, SubSeqProperties DEF Take
<1>3. /\ Drop(n, s) \in Seq(Byte) /\ Len(Drop(n, s)) = Len(s) - n
      /\ \A i \in 1 .. Len(s) - n : Drop(n, s)[i] = s[n + i]
  <2>1. n + 1 \in Int /\ Len(s) \in Int /\ \A i \in n + 1 .. Len(s) : s[i] \in Byte
    BY <1>1
  <2>2. /\ SubSeq(s, n + 1, Len(s)) \in Seq(Byte)
        /\ Len(SubSeq(s, n + 1, Len(s))) =
             IF n + 1 <= Len(s) THEN Len(s) - (n + 1) + 1 ELSE 0
        /\ \A i \in 1 .. Len(s) - (n + 1) + 1 :
             SubSeq(s, n + 1, Len(s))[i] = s[n + 1 + i - 1]
    BY <2>1, SubSeqProperties
  <2>3. QED BY <1>1, <2>2 DEF Drop
<1>4. Take(n, s) \o Drop(n, s) = s
  <2>1. /\ 1 \in 1 .. Len(s) + 1 /\ n \in 1 - 1 .. Len(s)
        /\ Len(s) \in n .. Len(s)
    BY <1>1
  <2>2. SubSeq(s, 1, n) \o SubSeq(s, n + 1, Len(s)) = SubSeq(s, 1, Len(s))
    BY <2>1, ConcatAdjacentSubSeq, Zenon
  <2>3. SubSeq(s, 1, Len(s)) = s
    BY SubSeqFull, Zenon
  <2>4. QED BY <2>2, <2>3 DEF Take, Drop
<1>5. QED BY <1>2, <1>3, <1>4

(* The parts of a joined sequence. *)
LEMMA Joined ==
  ASSUME NEW s \in Seq(Byte), NEW t \in Seq(Byte)
  PROVE  /\ s \o t \in Seq(Byte) /\ Len(s \o t) = Len(s) + Len(t)
         /\ \A i \in 1 .. Len(s) : (s \o t)[i] = s[i]
         /\ \A i \in 1 .. Len(t) : (s \o t)[Len(s) + i] = t[i]
BY ConcatProperties

LEMMA Appended ==
  ASSUME NEW s \in Seq(Byte), NEW b \in Byte
  PROVE  /\ Append(s, b) \in Seq(Byte) /\ Len(Append(s, b)) = Len(s) + 1
         /\ \A i \in 1 .. Len(s) : Append(s, b)[i] = s[i]
         /\ Append(s, b)[Len(s) + 1] = b
BY AppendProperties

-----------------------------------------------------------------------------
(* One connection: s is what has been sent, i what the network processor   *)
(* holds, r what the ring holds and t what the core has taken.             *)

(* A frame begins behind the first n bytes of s. *)
Boundary(s, n) == n = 0 \/ n \in Ends(s)

(* The peer sends no frame longer than MaxFrame. *)
FramesFit(s) ==
  \A n \in 0 .. Len(s) :
    Boundary(s, n) /\ n + MaxFrame <= Len(s) =>
      \E m \in Ends(s) : n < m /\ m <= n + MaxFrame

(* The bytes are all there, in order, and the core has taken whole frames. *)
Flow(s, i, r, t) ==
  /\ t \o r \o i = s
  /\ FramesFit(s)
  /\ Boundary(s, Len(t))

LEMMA FlowEmpty == Flow(<<>>, <<>>, <<>>, <<>>)
<1>1. <<>> \in Seq(Byte) /\ Len(<<>>) = 0
  OBVIOUS
<1>2. <<>> \o <<>> \o <<>> = <<>>
  BY <1>1, ConcatEmptySeq
<1>3. FramesFit(<<>>)
  BY <1>1 DEF FramesFit
<1>4. QED BY <1>1, <1>2, <1>3 DEF Flow, Boundary

(* recv() moves n bytes into the ring. *)
LEMMA FlowFeed ==
  ASSUME NEW s \in Seq(Byte), NEW i \in Seq(Byte),
         NEW r \in Seq(Byte), NEW t \in Seq(Byte),
         NEW n \in 1 .. Len(i), Flow(s, i, r, t)
  PROVE  Flow(s, Drop(n, i), r \o Take(n, i), t)
<1> DEFINE a == Take(n, i)
           b == Drop(n, i)
<1>1. a \in Seq(Byte) /\ b \in Seq(Byte) /\ a \o b = i
  BY TakeDrop
<1> HIDE DEF a, b
<1>2. t \o (r \o a) \o b = t \o r \o i
  <2>1. r \o a \in Seq(Byte) /\ t \o r \in Seq(Byte)
    BY <1>1, Joined
  <2>2. t \o (r \o a) = (t \o r) \o a
    BY <1>1, Assoc
  <2>3. ((t \o r) \o a) \o b = (t \o r) \o (a \o b)
    <3> DEFINE p == t \o r
    <3>1. p \in Seq(Byte)
      BY <2>1
    <3> HIDE DEF p
    <3>2. (p \o a) \o b = p \o (a \o b)
      BY <1>1, <3>1, Assoc
    <3>3. QED BY <3>2 DEF p
  <2>4. QED BY <1>1, <2>2, <2>3
<1>3. QED BY <1>2 DEF Flow, a, b

(* The core takes the first n bytes of the ring, the last of which ends a  *)
(* frame.                                                                  *)
LEMMA FlowTake ==
  ASSUME NEW s \in Seq(Byte), NEW i \in Seq(Byte),
         NEW r \in Seq(Byte), NEW t \in Seq(Byte),
         NEW n \in Ends(r), Flow(s, i, r, t)
  PROVE  Flow(s, i, Drop(n, r), t \o Take(n, r))
<1> DEFINE a == Take(n, r)
           b == Drop(n, r)
<1>0. n \in 1 .. Len(r) /\ r[n].last
  BY DEF Ends
<1>1. a \in Seq(Byte) /\ b \in Seq(Byte) /\ a \o b = r /\ Len(a) = n
  <2>1. n \in 0 .. Len(r)
    BY <1>0
  <2>2. QED BY <2>1, TakeDrop, Zenon
<1> HIDE DEF a, b
<1>2. (t \o a) \o b = t \o r
  BY <1>1, Assoc
<1>3. Boundary(s, Len(t \o a))
  <2>1. t \o r \in Seq(Byte) /\ Len(t \o r) = Len(t) + Len(r)
    BY Joined
  <2>2. Len(t \o a) = Len(t) + n
    BY <1>1, Joined
  <2>3. (t \o r)[Len(t) + n] = r[n]
    BY <1>0, Joined
  <2>4. s = (t \o r) \o i
    BY DEF Flow
  <2>5. Len(t) + n \in 1 .. Len(t \o r)
    BY <1>0, <2>1
  <2>6. Len(s) = Len(t \o r) + Len(i) /\ s[Len(t) + n] = (t \o r)[Len(t) + n]
    BY <2>1, <2>4, <2>5, Joined
  <2>7. Len(t) + n \in 1 .. Len(s)
    BY <2>1, <2>5, <2>6
  <2>8. s[Len(t) + n].last
    BY <1>0, <2>3, <2>6
  <2>9. QED BY <2>2, <2>7, <2>8 DEF Boundary, Ends
<1>4. QED BY <1>2, <1>3 DEF Flow, a, b
(* The peer sends one byte more.                                           *)
LEMMA FramesFitAppend ==
  ASSUME NEW s \in Seq(Byte), NEW b \in Byte, FramesFit(s),
         b.last \/ \E k \in Len(s) + 2 - MaxFrame .. Len(s) :
                     k = 0 \/ k \in Ends(s)
  PROVE  FramesFit(Append(s, b))
<1> DEFINE u == Append(s, b)
           N == Len(s)
<1>1. /\ u \in Seq(Byte) /\ Len(u) = N + 1
      /\ \A i \in 1 .. N : u[i] = s[i]
      /\ u[N + 1] = b
  BY Appended
<1>2. N \in Nat /\ MaxFrame \in Nat /\ MaxFrame >= 1
  OBVIOUS
<1> HIDE DEF u, N
<1>3. Ends(s) \subseteq 1 .. N /\ Ends(s) \subseteq Ends(u)
  BY <1>1, <1>2 DEF Ends, N
<1>4. \A n \in 0 .. N : Boundary(u, n) => Boundary(s, n)
  BY <1>1, <1>2 DEF Ends, Boundary, N
<1>5. ASSUME NEW n \in 0 .. N + 1, Boundary(u, n), n + MaxFrame <= N + 1
      PROVE  \E m \in Ends(u) : n < m /\ m <= n + MaxFrame
  <2>1. n \in 0 .. N /\ Boundary(s, n)
    BY <1>2, <1>4, <1>5
  <2>2. CASE n + MaxFrame <= N
    <3>1. \E m \in Ends(s) : n < m /\ m <= n + MaxFrame
      BY <2>1, <2>2 DEF FramesFit, N
    <3>2. QED BY <3>1, <1>3
  <2>3. CASE n + MaxFrame = N + 1 /\ b.last
    <3>1. N + 1 \in Ends(u)
      BY <1>1, <1>2, <2>3 DEF Ends
    <3>2. n < N + 1 /\ N + 1 <= n + MaxFrame
      BY <1>2, <2>3
    <3>3. QED BY <3>1, <3>2
  <2>4. CASE n + MaxFrame = N + 1 /\ ~b.last
    <3>1. PICK k \in N + 2 - MaxFrame .. N : k = 0 \/ k \in Ends(s)
      BY <2>4 DEF N
    <3>2. n < k /\ k <= n + MaxFrame /\ k # 0
      BY <1>2, <2>4, <3>1
    <3>3. k \in Ends(u)
      BY <3>1, <3>2, <1>3
    <3>4. QED BY <3>2, <3>3
  <2>5. n + MaxFrame <= N \/ n + MaxFrame = N + 1
    BY <1>2, <1>5
  <2>6. QED BY <2>2, <2>3, <2>4, <2>5
<1>6. QED BY <1>1, <1>5 DEF FramesFit, u

LEMMA FlowSend ==
  ASSUME NEW s \in Seq(Byte), NEW i \in Seq(Byte),
         NEW r \in Seq(Byte), NEW t \in Seq(Byte),
         NEW b \in Byte, Flow(s, i, r, t),
         b.last \/ \E k \in Len(s) + 2 - MaxFrame .. Len(s) :
                     k = 0 \/ k \in Ends(s)
  PROVE  Flow(Append(s, b), Append(i, b), r, t)
<1> DEFINE p == t \o r
<1>1. p \in Seq(Byte) /\ Len(p) = Len(t) + Len(r)
  BY Joined
<1> HIDE DEF p
<1>2. p \o i = s
  BY DEF Flow, p
<1>3. p \o Append(i, b) = Append(s, b)
  <2>1. Append(i, b) = i \o <<b>> /\ Append(s, b) = s \o <<b>>
    BY AppendIsConcat
  <2>2. (p \o i) \o <<b>> = p \o (i \o <<b>>)
    <3>1. <<b>> \in Seq(Byte)
      OBVIOUS
    <3>2. QED BY <1>1, <3>1, Assoc
  <2>3. QED BY <1>2, <2>1, <2>2
<1>4. FramesFit(Append(s, b))
  BY FramesFitAppend DEF Flow
<1>5. Boundary(Append(s, b), Len(t))
  <2>1. Ends(s) \subseteq Ends(Append(s, b))
    BY Appended DEF Ends
  <2>2. QED BY <2>1 DEF Flow, Boundary
<1>6. QED BY <1>3, <1>4, <1>5 DEF Flow, p

(* A ring that holds no whole frame holds less than the longest one.       *)
LEMMA FlowRoom ==
  ASSUME NEW s \in Seq(Byte), NEW i \in Seq(Byte),
         NEW r \in Seq(Byte), NEW t \in Seq(Byte),
         Flow(s, i, r, t), Ends(r) = {}
  PROVE  Len(r) < RxRbSize
<1> DEFINE p == t \o r
<1>1. /\ p \in Seq(Byte) /\ Len(p) = Len(t) + Len(r)
      /\ \A k \in 1 .. Len(r) : p[Len(t) + k] = r[k]
  BY Joined
<1> HIDE DEF p
<1>2. p \o i = s
  BY DEF Flow, p
<1>3. Len(s) = Len(p) + Len(i) /\ \A k \in 1 .. Len(p) : s[k] = p[k]
  <2>1. /\ Len(p \o i) = Len(p) + Len(i)
        /\ \A k \in 1 .. Len(p) : (p \o i)[k] = p[k]
    BY <1>1, Joined
  <2>2. QED BY <1>2, <2>1
<1>4. SUFFICES ASSUME Len(r) >= MaxFrame PROVE FALSE
  OBVIOUS
<1>5. Len(t) \in 0 .. Len(s) /\ Len(t) + MaxFrame <= Len(s)
  BY <1>1, <1>3, <1>4
<1>6. PICK m \in Ends(s) : Len(t) < m /\ m <= Len(t) + MaxFrame
  BY <1>5 DEF Flow, FramesFit
<1>7. m \in Nat /\ s[m].last
  BY DEF Ends
<1>8. m - Len(t) \in 1 .. Len(r) /\ m \in 1 .. Len(p) /\ Len(t) + (m - Len(t)) = m
  BY <1>1, <1>4, <1>6, <1>7
<1>9. r[m - Len(t)] = s[m]
  BY <1>1, <1>3, <1>8
<1>10. m - Len(t) \in Ends(r)
  BY <1>7, <1>8, <1>9 DEF Ends
<1>11. QED BY <1>10

(* When nothing but a fragment is left to be taken, every whole frame has  *)
(* been taken.                                                             *)
LEMMA FlowEnd ==
  ASSUME NEW s \in Seq(Byte), NEW r \in Seq(Byte), NEW t \in Seq(Byte),
         Flow(s, <<>>, r, t), Ends(r) = {}
  PROVE  Ends(s) \subseteq 1 .. Len(t)
<1>1. /\ t \o r \in Seq(Byte) /\ Len(t \o r) = Len(t) + Len(r)
      /\ \A k \in 1 .. Len(r) : (t \o r)[Len(t) + k] = r[k]
  BY Joined
<1>2. s = t \o r
  BY <1>1, ConcatEmptySeq DEF Flow
<1>3. SUFFICES ASSUME NEW m \in Ends(s), m > Len(t) PROVE FALSE
  BY DEF Ends
<1>4. m \in Nat /\ m <= Len(t) + Len(r) /\ s[m].last
  BY <1>1, <1>2 DEF Ends
<1>5. m - Len(t) \in 1 .. Len(r) /\ Len(t) + (m - Len(t)) = m
  BY <1>3, <1>4
<1>6. m - Len(t) \in Ends(r)
  BY <1>1, <1>2, <1>4, <1>5 DEF Ends
<1>7. QED BY <1>6

-----------------------------------------------------------------------------
(* The inductive invariant. *)

(* StreamIntact and more, of the contexts that are not in use as well. *)
Framed == \A c \in Ctx : Flow(sent[c], inbox[c], rx[c], taken[c])

(* A connection with a whole frame in its ring has an event coming. *)
Announced ==
  \A c \in Ctx : Ends(rx[c]) # {} => \E k \in 1 .. Len(pending) : pending[k] = c

(* The events are drained before the loop selects again, so that the rings *)
(* of the connections it has still to visit hold fragments only.           *)
Phases ==
  /\ pc = "select" => pending = <<>>
  /\ pc # "conn" => rfds = {}
  /\ rfds \subseteq open
  /\ \A c \in rfds : Ends(rx[c]) = {}

IInv == TypeOK /\ Framed /\ Announced /\ Phases

LEMMA InitIInv == Init => IInv
<1> SUFFICES ASSUME Init PROVE IInv
  OBVIOUS
<1>1. Nothing \in [Ctx -> Seq(Byte)] /\ \A c \in Ctx : Nothing[c] = <<>>
  BY DEF Nothing
<1>2. TypeOK
  BY <1>1 DEF Init, TypeOK
<1>3. Framed
  BY <1>1, FlowEmpty DEF Init, Framed
<1>4. Announced
  BY <1>1 DEF Init, Announced, Ends
<1>5. Phases
  BY DEF Init, Phases
<1>6. QED BY <1>2, <1>3, <1>4, <1>5 DEF IInv

(* The bytes of one connection change. *)
LEMMA OneFlow ==
  ASSUME TypeOK, Framed, NEW c \in Ctx,
         NEW s \in Seq(Byte), NEW i \in Seq(Byte),
         NEW r \in Seq(Byte), NEW t \in Seq(Byte),
         Flow(s, i, r, t), Len(r) <= RxRbSize,
         sent' = [sent EXCEPT ![c] = s], inbox' = [inbox EXCEPT ![c] = i],
         rx' = [rx EXCEPT ![c] = r], taken' = [taken EXCEPT ![c] = t]
  PROVE  /\ {sent, inbox, taken, rx}' \subseteq [Ctx -> Seq(Byte)]
         /\ \A d \in Ctx : Len(rx'[d]) <= RxRbSize
         /\ Framed'
<1>1. {sent, inbox, taken, rx}' \subseteq [Ctx -> Seq(Byte)]
  BY DEF TypeOK
<1>2. \A d \in Ctx : Len(rx'[d]) <= RxRbSize
  BY DEF TypeOK
<1>3. ASSUME NEW d \in Ctx
      PROVE  Flow(sent'[d], inbox'[d], rx'[d], taken'[d])
  BY DEF TypeOK, Framed
<1>4. QED BY <1>1, <1>2, <1>3 DEF Framed

LEMMA StreamTypes ==
  ASSUME TypeOK, NEW c \in Ctx
  PROVE  /\ sent[c] \in Seq(Byte) /\ inbox[c] \in Seq(Byte)
         /\ rx[c] \in Seq(Byte) /\ taken[c] \in Seq(Byte)
         /\ Len(rx[c]) \in Nat /\ Len(rx[c]) <= RxRbSize
BY DEF TypeOK

(* An event is raised behind those that are pending. *)
LEMMA Raised ==
  ASSUME NEW q \in Seq(Ctx), NEW c \in Ctx
  PROVE  /\ Append(q, c) \in Seq(Ctx)
         /\ \E k \in 1 .. Len(Append(q, c)) : Append(q, c)[k] = c
         /\ \A d : (\E k \in 1 .. Len(q) : q[k] = d)
                     => \E k \in 1 .. Len(Append(q, c)) : Append(q, c)[k] = d
<1>1. /\ Append(q, c) \in Seq(Ctx) /\ Len(Append(q, c)) = Len(q) + 1
      /\ \A k \in 1 .. Len(q) : Append(q, c)[k] = q[k]
      /\ Append(q, c)[Len(q) + 1] = c
  BY AppendProperties
<1>2. Len(q) \in Nat
  OBVIOUS
<1>3. Len(q) + 1 \in 1 .. Len(Append(q, c))
  BY <1>1, <1>2
<1>4. \A k \in 1 .. Len(q) : k \in 1 .. Len(Append(q, c))
  BY <1>1, <1>2
<1>5. QED BY <1>1, <1>3, <1>4

LEMMA SendStep ==
  ASSUME IInv, NEW c \in Ctx, PeerSends(c) PROVE IInv'
<1>1. PICK b \in [pos : {Len(sent[c]) + 1}, last : BOOLEAN] :
        /\ b.last \/ \E k \in Len(sent[c]) + 2 - MaxFrame .. Len(sent[c]) :
                       k = 0 \/ k \in Ends(sent[c])
        /\ sent' = [sent EXCEPT ![c] = Append(@, b)]
        /\ inbox' = [inbox EXCEPT ![c] = Append(@, b)]
  BY DEF PeerSends
<1>2. b \in Byte
  BY StreamTypes DEF IInv, Byte
<1>3. Flow(Append(sent[c], b), Append(inbox[c], b), rx[c], taken[c])
  BY <1>1, <1>2, StreamTypes, FlowSend DEF IInv, Framed
<1>4. /\ sent' = [sent EXCEPT ![c] = Append(sent[c], b)]
      /\ inbox' = [inbox EXCEPT ![c] = Append(inbox[c], b)]
      /\ rx' = [rx EXCEPT ![c] = rx[c]] /\ taken' = [taken EXCEPT ![c] = taken[c]]
  BY <1>1 DEF PeerSends, IInv, TypeOK
<1>5. Append(sent[c], b) \in Seq(Byte) /\ Append(inbox[c], b) \in Seq(Byte)
  BY <1>2, StreamTypes, Appended DEF IInv
<1>6. /\ {sent, inbox, taken, rx}' \subseteq [Ctx -> Seq(Byte)]
      /\ \A d \in Ctx : Len(rx'[d]) <= RxRbSize
      /\ Framed'
  BY <1>3, <1>4, <1>5, StreamTypes, OneFlow DEF IInv
<1>7. UNCHANGED <<open, fin, rx, pending, rfds, pc>>
  BY DEF PeerSends
<1>8. TypeOK'
  BY <1>6, <1>7 DEF IInv, TypeOK
<1>9. Announced' /\ Phases'
  BY <1>7 DEF IInv, Announced, Phases
<1>10. QED BY <1>6, <1>8, <1>9 DEF IInv

(* recv() returned n bytes. *)
LEMMA FeedStep ==
  ASSUME IInv, NEW c \in Ctx, NEW n \in 1 .. Len(inbox[c]),
         n <= RxRbSize - Len(rx[c]), Feed(c, n),
         pc = "conn", rfds' = rfds \ {c}, UNCHANGED pc
  PROVE  IInv'
<1> DEFINE r == rx[c] \o Take(n, inbox[c])
           i == Drop(n, inbox[c])
<1>1. /\ sent[c] \in Seq(Byte) /\ inbox[c] \in Seq(Byte)
      /\ rx[c] \in Seq(Byte) /\ taken[c] \in Seq(Byte) /\ Len(rx[c]) \in Nat
  BY StreamTypes DEF IInv
<1>2. Flow(sent[c], i, r, taken[c])
  BY <1>1, FlowFeed DEF IInv, Framed
<1>3. r \in Seq(Byte) /\ i \in Seq(Byte) /\ Len(r) <= RxRbSize
  <2>1. n \in 0 .. Len(inbox[c])
    OBVIOUS
  <2>2. Take(n, inbox[c]) \in Seq(Byte) /\ Len(Take(n, inbox[c])) = n
        /\ i \in Seq(Byte)
    BY <1>1, <2>1, TakeDrop
  <2>3. r \in Seq(Byte) /\ Len(r) = Len(rx[c]) + n
    <3> DEFINE a == Take(n, inbox[c])
    <3>1. a \in Seq(Byte) /\ Len(a) = n
      BY <2>2
    <3> HIDE DEF a
    <3>2. rx[c] \o a \in Seq(Byte) /\ Len(rx[c] \o a) = Len(rx[c]) + Len(a)
      BY <1>1, <3>1, Joined
    <3>3. QED BY <3>1, <3>2 DEF a
  <2>4. Len(rx[c]) + n <= RxRbSize
    BY <1>1
  <2>5. QED BY <2>2, <2>3, <2>4
<1> HIDE DEF r, i
<1>4. /\ sent' = [sent EXCEPT ![c] = sent[c]] /\ inbox' = [inbox EXCEPT ![c] = i]
      /\ rx' = [rx EXCEPT ![c] = r] /\ taken' = [taken EXCEPT ![c] = taken[c]]
  BY DEF Feed, IInv, TypeOK, r, i
<1>5. /\ {sent, inbox, taken, rx}' \subseteq [Ctx -> Seq(Byte)]
      /\ \A d \in Ctx : Len(rx'[d]) <= RxRbSize
      /\ Framed'
  BY <1>1, <1>2, <1>3, <1>4, OneFlow DEF IInv
<1>6. open' = open /\ fin' = fin /\ pending' = Append(pending, c)
  BY DEF Feed, wish_message_processor_notify
<1>7. pending \in Seq(Ctx) /\ pending' \in Seq(Ctx)
  BY <1>6, Raised DEF IInv, TypeOK
<1>8. TypeOK'
  BY <1>5, <1>6, <1>7 DEF IInv, TypeOK
<1>9. \A d \in Ctx : d # c => rx'[d] = rx[d]
  BY <1>4 DEF IInv, TypeOK
<1>10. Announced'
  <2>1. ASSUME NEW d \in Ctx, Ends(rx'[d]) # {}
        PROVE  \E k \in 1 .. Len(pending') : pending'[k] = d
    <3>1. d # c => \E k \in 1 .. Len(pending) : pending[k] = d
      BY <1>9, <2>1 DEF IInv, Announced
    <3>2. QED BY <1>6, <1>7, <3>1, Raised
  <2>2. QED BY <2>1 DEF Announced
<1>11. Phases'
  <2>1. \A d \in rfds' : d \in rfds /\ d # c /\ d \in Ctx
    BY DEF IInv, TypeOK
  <2>2. \A d \in rfds' : Ends(rx'[d]) = {}
    BY <1>9, <2>1 DEF IInv, Phases
  <2>3. QED BY <1>6, <2>2 DEF IInv, Phases
<1>12. QED BY <1>5, <1>8, <1>10, <1>11 DEF IInv

(* A connection is given up. *)
LEMMA ReleaseStep ==
  ASSUME IInv, NEW c \in Ctx, Release(c), UNCHANGED pc,
         rfds' \subseteq rfds \ {c}
  PROVE  IInv'
<1>1. /\ sent' = [sent EXCEPT ![c] = <<>>] /\ inbox' = [inbox EXCEPT ![c] = <<>>]
      /\ rx' = [rx EXCEPT ![c] = <<>>] /\ taken' = [taken EXCEPT ![c] = <<>>]
      /\ open' = open \ {c} /\ fin' = fin \ {c} /\ pending' = pending
  BY DEF Release
<1>2. <<>> \in Seq(Byte) /\ Len(<<>>) <= RxRbSize
  OBVIOUS
<1>3. /\ {sent, inbox, taken, rx}' \subseteq [Ctx -> Seq(Byte)]
      /\ \A d \in Ctx : Len(rx'[d]) <= RxRbSize
      /\ Framed'
  BY <1>1, <1>2, FlowEmpty, OneFlow DEF IInv
<1>4. TypeOK'
  BY <1>1, <1>3 DEF IInv, TypeOK
<1>5. \A d \in Ctx : Ends(rx'[d]) # {} => rx'[d] = rx[d]
  BY <1>1 DEF IInv, TypeOK, Ends
<1>6. Announced'
  BY <1>1, <1>5 DEF IInv, Announced
<1>7. Phases'
  <2>1. \A d \in rfds' : d \in rfds /\ d # c /\ d \in Ctx
    BY DEF IInv, TypeOK
  <2>2. \A d \in rfds' : rx'[d] = rx[d]
    BY <1>1, <2>1 DEF IInv, TypeOK
  <2>3. QED BY <1>1, <2>1, <2>2 DEF IInv, Phases
<1>8. QED BY <1>3, <1>4, <1>6, <1>7 DEF IInv

(* The oldest event is processed. *)
LEMMA DrainStep == IInv /\ Drain => IInv'
<1> SUFFICES ASSUME IInv, Drain PROVE IInv'
  OBVIOUS
<1>1. pc = "drain" /\ UNCHANGED <<open, sent, fin, inbox, rfds>>
  BY DEF Drain
<1>2. CASE /\ pending = <<>> /\ Goto("select") /\ UNCHANGED <<rx, taken, pending>>
  <2>1. TypeOK'
    BY <1>1, <1>2 DEF IInv, TypeOK, Goto
  <2>2. Framed'
    BY <1>1, <1>2 DEF IInv, Framed
  <2>3. Announced'
    BY <1>1, <1>2 DEF IInv, Announced
  <2>4. Phases'
    BY <1>1, <1>2 DEF IInv, Phases, Goto
  <2>5. QED BY <2>1, <2>2, <2>3, <2>4 DEF IInv
<1>3. CASE /\ pending # <<>> /\ ProcessFrame(Head(pending), Tail(pending))
           /\ UNCHANGED pc
  <2> DEFINE c == Head(pending)
             rest == Tail(pending)
  <2>1. /\ c \in Ctx /\ rest \in Seq(Ctx) /\ Len(rest) = Len(pending) - 1
        /\ \A k \in 1 .. Len(rest) : rest[k] = pending[k + 1]
        /\ c = pending[1] /\ Len(pending) \in Nat
    <3>1. pending \in Seq(Ctx)
      BY DEF IInv, TypeOK
    <3>2. QED BY <1>3, <3>1, HeadTailProperties
  <2> HIDE DEF c, rest
  <2>2. \A d : (\E k \in 1 .. Len(pending) : pending[k] = d) /\ d # c
                 => \E k \in 1 .. Len(rest) : rest[k] = d
    <3>1. SUFFICES ASSUME NEW d, d # c,
                          NEW k \in 1 .. Len(pending), pending[k] = d
                   PROVE  \E j \in 1 .. Len(rest) : rest[j] = d
      OBVIOUS
    <3>2. k # 1
      BY <2>1, <3>1
    <3>3. k - 1 \in 1 .. Len(rest) /\ (k - 1) + 1 = k
      BY <2>1, <3>2
    <3>4. rest[k - 1] = pending[(k - 1) + 1]
      BY <2>1, <3>3
    <3>5. rest[k - 1] = d
      BY <3>1, <3>3, <3>4
    <3>6. QED BY <3>3, <3>5
  <2>3. CASE Ends(rx[c]) = {} /\ pending' = rest /\ UNCHANGED <<rx, taken>>
    <3>1. TypeOK'
      BY <1>1, <1>3, <2>1, <2>3 DEF IInv, TypeOK
    <3>2. Framed'
      BY <1>1, <2>3 DEF IInv, Framed
    <3>3. Announced'
      BY <2>2, <2>3 DEF IInv, Announced
    <3>4. Phases'
      BY <1>1, <1>3, <2>3 DEF IInv, Phases
    <3>5. QED BY <3>1, <3>2, <3>3, <3>4 DEF IInv
  <2>4. ASSUME NEW n \in Ends(rx[c]),
               taken' = [taken EXCEPT ![c] = @ \o Take(n, rx[c])],
               rx' = [rx EXCEPT ![c] = Drop(n, @)],
               pending' = IF Ends(rx'[c]) = {} THEN rest ELSE Append(rest, c)
        PROVE  IInv'
    <3> DEFINE r == Drop(n, rx[c])
               t == taken[c] \o Take(n, rx[c])
    <3>1. /\ sent[c] \in Seq(Byte) /\ inbox[c] \in Seq(Byte)
          /\ rx[c] \in Seq(Byte) /\ taken[c] \in Seq(Byte)
          /\ Len(rx[c]) \in Nat /\ Len(rx[c]) <= RxRbSize
      BY <2>1, StreamTypes DEF IInv
    <3>2. Flow(sent[c], inbox[c], r, t)
      BY <2>1, <2>4, <3>1, FlowTake DEF IInv, Framed
    <3>3. r \in Seq(Byte) /\ Len(r) <= RxRbSize /\ t \in Seq(Byte)
      <4>1. n \in 0 .. Len(rx[c])
        BY <2>4, <3>1 DEF Ends
      <4>2. /\ r \in Seq(Byte) /\ Len(r) = Len(rx[c]) - n
            /\ Take(n, rx[c]) \in Seq(Byte)
        BY <3>1, <4>1, TakeDrop
      <4>3. t \in Seq(Byte)
        BY <3>1, <4>2, Joined
      <4>4. Len(rx[c]) - n <= RxRbSize
        BY <3>1, <4>1
      <4>5. QED BY <4>2, <4>3, <4>4
    <3> HIDE DEF r, t
    <3>4. /\ sent' = [sent EXCEPT ![c] = sent[c]]
          /\ inbox' = [inbox EXCEPT ![c] = inbox[c]]
          /\ rx' = [rx EXCEPT ![c] = r] /\ taken' = [taken EXCEPT ![c] = t]
      BY <1>1, <2>4 DEF IInv, TypeOK, r, t
    <3>5. /\ {sent, inbox, taken, rx}' \subseteq [Ctx -> Seq(Byte)]
          /\ \A d \in Ctx : Len(rx'[d]) <= RxRbSize
          /\ Framed'
      BY <2>1, <3>1, <3>2, <3>3, <3>4, OneFlow DEF IInv
    <3>6. pending' \in Seq(Ctx)
      BY <2>1, <2>4, Raised
    <3>7. TypeOK'
      BY <1>1, <1>3, <3>5, <3>6 DEF IInv, TypeOK
    <3>8. \A d \in Ctx : d # c => rx'[d] = rx[d]
      BY <3>4 DEF IInv, TypeOK
    <3>9. Announced'
      <4>1. ASSUME NEW d \in Ctx, Ends(rx'[d]) # {}
            PROVE  \E k \in 1 .. Len(pending') : pending'[k] = d
        <5>1. CASE d = c
          BY <2>1, <2>4, <4>1, <5>1, Raised
        <5>2. CASE d # c
          <6>1. \E k \in 1 .. Len(pending) : pending[k] = d
            BY <3>8, <4>1, <5>2 DEF IInv, Announced
          <6>2. \E k \in 1 .. Len(rest) : rest[k] = d
            BY <2>2, <5>2, <6>1
          <6>3. pending' = rest \/ pending' = Append(rest, c)
            BY <2>4
          <6>4. \E k \in 1 .. Len(Append(rest, c)) : Append(rest, c)[k] = d
            <7>1. \A e : (\E k \in 1 .. Len(rest) : rest[k] = e)
                    => \E k \in 1 .. Len(Append(rest, c)) : Append(rest, c)[k] = e
              BY <2>1, Raised
            <7>2. QED BY <6>2, <7>1
          <6>5. QED BY <6>2, <6>3, <6>4
        <5>3. QED BY <5>1, <5>2
      <4>2. QED BY <4>1 DEF Announced
    <3>10. Phases'
      BY <1>1, <1>3 DEF IInv, Phases
    <3>11. QED BY <3>5, <3>7, <3>9, <3>10 DEF IInv
  <2>5. ProcessFrame(c, rest)
    BY <1>3 DEF c, rest
  <2>6. QED BY <2>3, <2>4, <2>5 DEF ProcessFrame, FirstEnd
<1>4. QED BY <1>2, <1>3 DEF Drain

LEMMA VisitStep ==
  ASSUME IInv, NEW c \in Ctx, VisitConnection(c) PROVE IInv'
<1>1. /\ pc = "conn" /\ c \in rfds /\ rfds' = rfds \ {c} /\ UNCHANGED pc
  BY DEF VisitConnection
<1>2. CASE Receive(c)
  <2>1. RxRbSize - Len(rx[c]) \in Int /\ MaxRead \in Int
    BY StreamTypes DEF IInv
  <2>2. PICK n \in 1 .. Len(inbox[c]) :
          n <= read_buf_len(RxRbSize - Len(rx[c])) /\ Feed(c, n)
    BY <1>2 DEF Receive
  <2>3. n <= RxRbSize - Len(rx[c])
    BY <2>1, <2>2 DEF read_buf_len
  <2>4. QED BY <1>1, <2>2, <2>3, FeedStep
<1>3. CASE EndOfFile(c)
  BY <1>1, <1>3, ReleaseStep DEF EndOfFile
<1>4. CASE UNCHANGED <<open, streamVars, pending>>
  <2>1. TypeOK'
    BY <1>1, <1>4 DEF IInv, TypeOK, streamVars
  <2>2. QED
    BY <1>1, <1>4, <2>1
       DEF IInv, Framed, Announced, Phases, streamVars
<1>5. QED BY <1>2, <1>3, <1>4 DEF VisitConnection

(* A step that leaves the bytes and the events as they are. *)
LEMMA IdleStep ==
  ASSUME IInv, UNCHANGED <<sent, inbox, rx, taken, pending>>,
         open \subseteq open', open' \subseteq Ctx, fin' \subseteq Ctx,
         rfds' \subseteq open,
         \A c \in rfds' : Ends(rx[c]) = {},
         pc' \in {"select", "conn", "drain"},
         pc' = "select" => pending = <<>>,
         pc' # "conn" => rfds' = {}
  PROVE  IInv'
<1>1. TypeOK'
  BY DEF IInv, TypeOK
<1>2. Framed' /\ Announced'
  BY DEF IInv, Framed, Announced
<1>3. Phases'
  BY DEF IInv, Phases
<1>4. QED BY <1>1, <1>2, <1>3 DEF IInv

LEMMA StepIInv == IInv /\ [Next]_vars => IInv'
<1> SUFFICES ASSUME IInv, [Next]_vars PROVE IInv'
  OBVIOUS
<1>0. /\ open \subseteq Ctx /\ fin \subseteq Ctx /\ rfds \subseteq open
      /\ pc \in {"select", "conn", "drain"}
      /\ pc = "select" => pending = <<>>
      /\ pc # "conn" => rfds = {}
      /\ \A c \in rfds : Ends(rx[c]) = {}
  BY DEF IInv, TypeOK, Phases
<1>1. CASE Select
  <2>1. pending = <<>>
    BY <1>0, <1>1 DEF Select
  <2>2. \A c \in Ctx : Ends(rx[c]) = {}
    BY <2>1 DEF IInv, Announced
  <2>3. rfds' \subseteq open /\ pc' = "conn"
    BY <1>1 DEF Select, Readable, Goto
  <2>4. QED
    BY <1>0, <1>1, <2>2, <2>3, IdleStep DEF Select, streamVars
<1>2. ASSUME NEW c \in Ctx, VisitConnection(c) PROVE IInv'
  BY <1>2, VisitStep
<1>3. CASE Accept
  BY <1>0, <1>3, IdleStep DEF Accept, Goto, streamVars
<1>4. CASE Drain
  BY <1>4, DrainStep
<1>5. ASSUME NEW c \in Ctx, PeerSends(c) PROVE IInv'
  BY <1>5, SendStep
<1>6. ASSUME NEW c \in Ctx, PeerCloses(c) PROVE IInv'
  BY <1>0, <1>6, IdleStep DEF PeerCloses
<1>7. ASSUME NEW c \in Ctx, CoreCloses(c) PROVE IInv'
  <2>1. rfds' \subseteq rfds \ {c}
    BY <1>0, <1>7 DEF CoreCloses
  <2>2. QED BY <1>7, <2>1, ReleaseStep DEF CoreCloses
<1>8. CASE UNCHANGED vars
  BY <1>0, <1>8, IdleStep DEF vars, streamVars
<1>9. QED
  BY <1>1, <1>2, <1>3, <1>4, <1>5, <1>6, <1>7, <1>8 DEF Next, Loop

LEMMA Inductive == Spec => []IInv
BY InitIInv, StepIInv, PTL DEF Spec

(* No ring ever holds more than its capacity, whatever the reads return.   *)
THEOREM TypeCorrect == Spec => []TypeOK
<1>1. IInv => TypeOK
  BY DEF IInv
<1>2. QED BY Inductive, <1>1, PTL

-----------------------------------------------------------------------------

(* No byte is lost, doubled or moved on its way to the core.               *)
THEOREM BytesIntact == Spec => []StreamIntact
<1>1. IInv => StreamIntact
  BY DEF IInv, TypeOK, Framed, Flow, StreamIntact
<1>2. QED BY Inductive, <1>1, PTL

(* The loop never visits a connection whose ring is full.                  *)
THEOREM RingNeverFull == Spec => []RingHasRoom
<1>1. IInv => RingHasRoom
  <2> SUFFICES ASSUME IInv, NEW c \in rfds PROVE Len(rx[c]) < RxRbSize
    BY DEF RingHasRoom
  <2>1. c \in Ctx /\ Ends(rx[c]) = {}
    BY DEF IInv, TypeOK, Phases
  <2>2. QED BY <2>1, StreamTypes, FlowRoom DEF IInv, Framed
<1>2. QED BY Inductive, <1>1, PTL

(* The step that CloseDropsNoFrame speaks of. *)
DropsNoFrame ==
  \A c \in open \ open' : pc = "conn" => Ends(sent[c]) \subseteq 1 .. Len(taken[c])

LEMMA StepDrops == IInv /\ [Next]_vars => [DropsNoFrame]_vars
<1> SUFFICES ASSUME IInv, Next, NEW c \in open \ open', pc = "conn"
             PROVE  Ends(sent[c]) \subseteq 1 .. Len(taken[c])
  BY DEF DropsNoFrame
<1>1. c \in Ctx /\ open' # open
  BY DEF IInv, TypeOK
<1>2. ASSUME NEW d \in Ctx, VisitConnection(d)
      PROVE  Ends(sent[c]) \subseteq 1 .. Len(taken[c])
  <2>1. d \in rfds /\ EndOfFile(d)
    BY <1>1, <1>2 DEF VisitConnection, Receive, Feed
  <2>2. c = d /\ inbox[c] = <<>> /\ Ends(rx[c]) = {}
    BY <1>1, <2>1 DEF EndOfFile, Release, IInv, Phases
  <2>3. QED BY <1>1, <2>2, StreamTypes, FlowEnd DEF IInv, Framed
<1>3. ~Select /\ ~Drain
  BY <1>1 DEF Select, Drain
<1>4. ~Accept
  BY DEF Accept
<1>5. \A d \in Ctx : ~PeerSends(d) /\ ~PeerCloses(d) /\ ~CoreCloses(d)
  BY <1>1 DEF PeerSends, PeerCloses, CoreCloses
<1>6. QED BY <1>2, <1>3, <1>4, <1>5 DEF Next, Loop

(* A connection the peer has closed is released only when all its frames   *)
(* have been processed.                                                    *)
THEOREM CloseAfterFrames == Spec => CloseDropsNoFrame
<1>1. [DropsNoFrame]_vars =>
        [\A c \in open \ open' :
           pc = "conn" => Ends(sent[c]) \subseteq 1 .. Len(taken[c])]_vars
  BY DEF DropsNoFrame
<1>2. QED
  BY InitIInv, StepIInv, <1>1, StepDrops, PTL DEF Spec, CloseDropsNoFrame
=============================================================================
