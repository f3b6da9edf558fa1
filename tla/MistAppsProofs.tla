---------------------------- MODULE MistAppsProofs ----------------------------
(***************************************************************************)
(* Theorems about the two applications, for every set of friend requests   *)
(* and queries and every heap that has room for the two logins.            *)
(***************************************************************************)
EXTENDS MistApps, SequenceTheorems, FiniteSetTheorems, TLAPS

IpcP == INSTANCE ServiceIpcProofs WITH Data <- Message

USE MistAppsAssumption

(* The messages whose receiver has not done its work yet.                  *)
Waiting ==
  IF event # NULL /\ answered THEN Tail(ipc_event_queue) ELSE ipc_event_queue

(* How many messages of a sequence are in a set.                           *)
Positions(s, S) == {i \in 1 .. Len(s) : s[i] \in S}
Count(s, S) == Cardinality(Positions(s, S))

(* The way of a friend request: signal, question, list, acceptance.        *)
Chain ==
  {e \in Ipc!IpcEvent : e.data.op \in {"friendRequest", "friendRequestList",
                                       "list", "friendRequestAccept"}}

(* The lists and the acceptances that name nobody.                         *)
Nameless ==
  {e \in Ipc!IpcEvent : /\ e.data.op \in {"list", "friendRequestAccept"}
                        /\ e.data.who = NoOne}

(* The way of a query: the read, then its answer.                          *)
About(q) ==
  {e \in Ipc!IpcEvent : \/ e.data.op = "read" /\ e.data.who = q
                        \/ e.data.op = "readResponse" /\ e.data.who.query = q}

(* An answer to a question, by the full id and with a datum or an error.   *)
Fits(reply, question) ==
  /\ question \in Question
  /\ question.op = "read"
  /\ reply.epid = mist_ep_full_epid(question.app, question.ep)
  /\ reply.data # NoData

(* What a message says, when the queries ask what `questions' says.        *)
Sound(e, questions) ==
  /\ e.data.op = "read" =>
       /\ e.data.who \in Query
       /\ questions[e.data.who] \in Question
       /\ questions[e.data.who].op = "read"
       /\ questions[e.data.who].app = e.app
  /\ e.data.op = "readResponse" =>
       /\ e.data.who \in ReplyTo
       /\ Fits(e.data.who.reply, questions[e.data.who.query])

MessagesSound ==
  \A i \in 1 .. Len(ipc_event_queue) : Sound(ipc_event_queue[i], asked)

(* No more steps of the way are under way than there are requests, but for *)
(* those that have been decided elsewhere, and only these can name nobody. *)
RequestsCovered == Count(Waiting, Chain) <= Len(pending) + elsewhere
NamelessCovered == Count(Waiting, Nameless) <= elsewhere

(* A query is on its way to the application, or on its way back, or it has *)
(* been answered, and only one of the three.                               *)
QueriesSound ==
  \A q \in Query :
    /\ Count(Waiting, About(q)) + Len(replies[q]) <= 1
    /\ asked[q] = NULL => Count(Waiting, About(q)) + Len(replies[q]) = 0
    /\ \A i \in 1 .. Len(replies[q]) : Fits(replies[q][i], asked[q])

IInv ==
  /\ TypeOK
  /\ Ipc!MessagesHaveMemory
  /\ MessagesSound
  /\ RequestsCovered
  /\ NamelessCovered
  /\ QueriesSound

-----------------------------------------------------------------------------
(* Counting the messages of a sequence, and removing from one.             *)

LEMMA CountType ==
  ASSUME NEW E, NEW s \in Seq(E), NEW S
  PROVE  IsFiniteSet(Positions(s, S)) /\ Count(s, S) \in Nat
<1>1. Len(s) \in Nat
  BY LenProperties
<1>2. IsFiniteSet(1 .. Len(s))
  BY <1>1, FS_Interval
<1>3. IsFiniteSet(Positions(s, S))
  BY <1>2, FS_Subset DEF Positions
<1>4. QED
  BY <1>3, FS_CardinalityType DEF Count

LEMMA CountEmpty ==
  ASSUME NEW S
  PROVE  Count(<<>>, S) = 0
<1>1. Positions(<<>>, S) = {}
  BY DEF Positions
<1>2. QED
  BY <1>1, FS_EmptySet DEF Count

LEMMA CountAppend ==
  ASSUME NEW E, NEW s \in Seq(E), NEW x \in E, NEW S
  PROVE  Count(Append(s, x), S) = Count(s, S) + (IF x \in S THEN 1 ELSE 0)
<1> DEFINE n == Len(s) + 1
           t == Append(s, x)
<1>1. /\ Len(s) \in Nat
      /\ Len(t) = n
      /\ \A i \in 1 .. Len(s) : t[i] = s[i]
      /\ t[n] = x
  BY LenProperties, AppendProperties
<1>2. IsFiniteSet(Positions(s, S)) /\ Count(s, S) \in Nat
  BY CountType
<1> HIDE DEF t
<1>3. CASE x \in S
  <2>1. Positions(t, S) = Positions(s, S) \cup {n}
    BY <1>1, <1>3 DEF Positions
  <2>2. n \notin Positions(s, S)
    BY <1>1 DEF Positions
  <2>3. Cardinality(Positions(t, S)) = Cardinality(Positions(s, S)) + 1
    BY <1>2, <2>1, <2>2, FS_AddElement
  <2>4. QED
    BY <1>3, <2>3 DEF Count, t
<1>4. CASE x \notin S
  <2>1. Positions(t, S) = Positions(s, S)
    BY <1>1, <1>4 DEF Positions
  <2>2. QED
    BY <1>2, <1>4, <2>1 DEF Count, t
<1>5. QED
  BY <1>3, <1>4

LEMMA CountTail ==
  ASSUME NEW E, NEW s \in Seq(E), s # <<>>, NEW S
  PROVE  Count(s, S) = Count(Tail(s), S) + (IF Head(s) \in S THEN 1 ELSE 0)
<1> DEFINE t == Tail(s)
           Later == Positions(s, S) \ {1}
<1>1. /\ Len(s) \in Nat \ {0}
      /\ t \in Seq(E)
      /\ Len(t) = Len(s) - 1
      /\ \A i \in 1 .. Len(t) : t[i] = s[i + 1]
      /\ Head(s) = s[1]
  BY EmptySeq, HeadTailProperties
<1>2. IsFiniteSet(Positions(s, S)) /\ Count(s, S) \in Nat
  BY CountType
<1>3. IsFiniteSet(Positions(t, S)) /\ Count(t, S) \in Nat
  BY <1>1, CountType
<1> HIDE DEF t
<1>4. Cardinality(Positions(t, S)) = Cardinality(Later)
  <2> DEFINE f == [i \in Positions(t, S) |-> i + 1]
  <2>1. \A i : i \in Positions(t, S) <=> i \in Nat /\ i + 1 \in Later
    BY <1>1 DEF Positions
  <2>2. \A j \in Later : j - 1 \in Positions(t, S) /\ f[j - 1] = j
    BY <1>1 DEF Positions
  <2>3. f \in [Positions(t, S) -> Later]
    BY <2>1
  <2>4. \A i, j \in Positions(t, S) : f[i] = f[j] => i = j
    BY <2>1
  <2>5. f \in Injection(Positions(t, S), Later)
    BY <2>3, <2>4 DEF Injection, IsInjective
  <2>6. f \in Surjection(Positions(t, S), Later)
    BY <2>2, <2>3 DEF Surjection
  <2>7. ExistsBijection(Positions(t, S), Later)
    BY <2>5, <2>6 DEF ExistsBijection, Bijection
  <2>8. QED
    BY <1>3, <2>7, FS_Bijection
<1>5. 1 \in Positions(s, S) <=> Head(s) \in S
  BY <1>1 DEF Positions
<1>6. Cardinality(Later) = Cardinality(Positions(s, S))
                             - (IF Head(s) \in S THEN 1 ELSE 0)
  <2>1. Cardinality(Later) =
          IF 1 \in Positions(s, S) THEN Cardinality(Positions(s, S)) - 1
                                   ELSE Cardinality(Positions(s, S))
    BY <1>2, FS_RemoveElement
  <2>2. Cardinality(Positions(s, S)) \in Nat
    BY <1>2 DEF Count
  <2>3. QED
    BY <1>5, <2>1, <2>2
<1>7. Count(t, S) = Count(s, S) - (IF Head(s) \in S THEN 1 ELSE 0)
  BY <1>4, <1>6 DEF Count
<1>8. QED
  BY <1>2, <1>3, <1>7 DEF t

LEMMA CountSubset ==
  ASSUME NEW E, NEW s \in Seq(E), NEW T, NEW S \in SUBSET T
  PROVE  Count(s, S) <= Count(s, T)
<1>1. IsFiniteSet(Positions(s, T))
  BY CountType
<1>2. Positions(s, S) \subseteq Positions(s, T)
  BY DEF Positions
<1>3. QED
  BY <1>1, <1>2, FS_Subset DEF Count

LEMMA RemoveAtFacts ==
  ASSUME NEW E, NEW s \in Seq(E), IsInjective(s), NEW k \in 1 .. Len(s)
  PROVE  /\ RemoveAt(s, k) \in Seq(E)
         /\ Len(RemoveAt(s, k)) = Len(s) - 1
         /\ IsInjective(RemoveAt(s, k))
         /\ Range(RemoveAt(s, k)) \subseteq Range(s) \ {s[k]}
<1> DEFINE a == SubSeq(s, 1, k - 1)
           b == SubSeq(s, k + 1, Len(s))
           t == RemoveAt(s, k)
<1>1. Len(s) \in Nat /\ \A i \in 1 .. Len(s) : s[i] \in E
  BY LenProperties, ElementOfSeq
<1>2. /\ a \in Seq(E)
      /\ Len(a) = k - 1
      /\ \A i \in 1 .. k - 1 : a[i] = s[i]
  BY <1>1, SubSeqProperties
<1>3. /\ b \in Seq(E)
      /\ Len(b) = Len(s) - k
      /\ \A i \in 1 .. Len(s) - k : b[i] = s[k + i]
  <2>1. \A i \in k + 1 .. Len(s) : s[i] \in E
    BY <1>1
  <2>2. /\ b \in Seq(E)
        /\ Len(b) = IF k + 1 <= Len(s) THEN Len(s) - (k + 1) + 1 ELSE 0
        /\ \A i \in 1 .. Len(s) - (k + 1) + 1 : b[i] = s[(k + 1) + i - 1]
    BY <1>1, <2>1, SubSeqProperties
  <2>3. QED
    BY <1>1, <2>2
<1>4. t = a \o b
  BY DEF RemoveAt
<1> HIDE DEF a, b
<1>5. /\ t \in Seq(E)
      /\ Len(t) = Len(s) - 1
      /\ \A i \in 1 .. Len(s) - 1 : t[i] = IF i <= k - 1 THEN s[i] ELSE s[i + 1]
  <2>1. /\ a \o b \in Seq(E)
        /\ Len(a \o b) = Len(a) + Len(b)
        /\ \A i \in 1 .. Len(a) + Len(b) :
             (a \o b)[i] = IF i <= Len(a) THEN a[i] ELSE b[i - Len(a)]
    BY <1>2, <1>3, ConcatProperties
  <2>2. Len(a) + Len(b) = Len(s) - 1
    BY <1>1, <1>2, <1>3
  <2>3. ASSUME NEW i \in 1 .. Len(s) - 1
        PROVE  (a \o b)[i] = IF i <= k - 1 THEN s[i] ELSE s[i + 1]
    <3>1. CASE i <= k - 1
      BY <1>1, <1>2, <2>1, <2>2, <3>1
    <3>2. CASE i > k - 1
      <4>1. (a \o b)[i] = b[i - (k - 1)]
        BY <1>1, <1>2, <2>1, <2>2, <3>2
      <4>2. i - (k - 1) \in 1 .. Len(s) - k /\ k + (i - (k - 1)) = i + 1
        BY <1>1, <3>2
      <4>3. b[i - (k - 1)] = s[i + 1]
        BY <1>3, <4>2
      <4>4. QED
        BY <1>1, <3>2, <4>1, <4>3
    <3>3. k \in Int /\ i \in Int
      BY <1>1
    <3>4. i <= k - 1 \/ i > k - 1
      BY <3>3
    <3>5. QED
      BY <3>1, <3>2, <3>4
  <2>4. QED
    BY <1>4, <2>1, <2>2, <2>3
<1>6. \A i, j \in 1 .. Len(s) : s[i] = s[j] => i = j
  BY <1>1, LenProperties DEF IsInjective
<1> HIDE DEF t
<1>7. DOMAIN t = 1 .. Len(s) - 1
  BY <1>5, LenProperties
<1>8. IsInjective(t)
  BY <1>1, <1>5, <1>6, <1>7 DEF IsInjective
<1>9. ASSUME NEW i \in DOMAIN t
      PROVE  t[i] \in Range(s) \ {s[k]}
  <2>1. PICK j \in 1 .. Len(s) : t[i] = s[j] /\ j # k
    <3>1. CASE i <= k - 1
      BY <1>1, <1>5, <1>7, <3>1
    <3>2. CASE i > k - 1
      BY <1>1, <1>5, <1>7, <3>2
    <3>3. QED
      BY <1>1, <1>7, <3>1, <3>2
  <2>2. s[j] # s[k]
    BY <1>6, <2>1
  <2>3. QED
    BY <2>1, <2>2, LenProperties DEF Range
<1>10. Range(t) \subseteq Range(s) \ {s[k]}
  BY <1>9 DEF Range
<1>11. QED
  BY <1>5, <1>8, <1>10 DEF t

LEMMA AppendNew ==
  ASSUME NEW E, NEW s \in Seq(E), IsInjective(s), NEW x \in E, x \notin Range(s)
  PROVE  /\ Append(s, x) \in Seq(E)
         /\ Len(Append(s, x)) = Len(s) + 1
         /\ IsInjective(Append(s, x))
         /\ Range(Append(s, x)) \subseteq Range(s) \cup {x}
<1> DEFINE t == Append(s, x)
<1>1. /\ t \in Seq(E)
      /\ Len(t) = Len(s) + 1
      /\ Len(s) \in Nat
      /\ \A i \in 1 .. Len(s) : t[i] = s[i]
      /\ t[Len(s) + 1] = x
  BY LenProperties, AppendProperties
<1>2. DOMAIN s = 1 .. Len(s)
  BY LenProperties
<1> HIDE DEF t
<1>3. DOMAIN t = 1 .. Len(s) + 1
  BY <1>1, LenProperties
<1>4. \A i \in 1 .. Len(s) : t[i] \in Range(s) /\ t[i] # x
  BY <1>1, <1>2 DEF Range
<1>5. \A i, j \in 1 .. Len(s) : t[i] = t[j] => i = j
  BY <1>1, <1>2 DEF IsInjective
<1>6. IsInjective(t)
  BY <1>1, <1>3, <1>4, <1>5 DEF IsInjective
<1>7. \A i \in 1 .. Len(s) + 1 : t[i] \in Range(s) \cup {x}
  BY <1>1, <1>4
<1>8. Range(t) \subseteq Range(s) \cup {x}
  BY <1>3, <1>7 DEF Range
<1>9. QED
  BY <1>1, <1>6, <1>8 DEF t

-----------------------------------------------------------------------------
(* The instance of the theorems about ServiceIpc.                          *)

IpcInv == Ipc!TypeOK /\ Ipc!MessagesHaveMemory

LEMMA SameIpc ==
  ASSUME IpcInv, Ipc!Next \/ UNCHANGED Ipc!vars
  PROVE  IpcP!IInv /\ [IpcP!Next]_(IpcP!vars)
<1>1. IpcP!IInv
  BY DEF IpcInv, IpcP!IInv, IpcP!TypeOK, Ipc!TypeOK, IpcP!MessagesHaveMemory,
         Ipc!MessagesHaveMemory, IpcP!IpcEvent, Ipc!IpcEvent
<1>2. Ipc!Next => IpcP!Next
  BY DEF IpcP!Next, Ipc!Next, IpcP!send_app_to_core, Ipc!send_app_to_core,
         IpcP!send_core_to_app, Ipc!send_core_to_app, IpcP!Send, Ipc!Send,
         IpcP!Allocate, Ipc!Allocate, IpcP!TaskCalls, Ipc!TaskCalls,
         IpcP!TaskReturns, Ipc!TaskReturns
<1>3. UNCHANGED Ipc!vars => UNCHANGED IpcP!vars
  BY DEF IpcP!vars, Ipc!vars
<1>4. QED
  BY <1>1, <1>2, <1>3

LEMMA IpcKept ==
  ASSUME IpcInv, Ipc!Next \/ UNCHANGED Ipc!vars
  PROVE  IpcInv'
<1>1. IpcP!IInv'
  BY SameIpc, IpcP!NextKeepsIInv
<1>2. QED
  BY <1>1
     DEF IpcInv, IpcP!IInv, IpcP!TypeOK, Ipc!TypeOK, IpcP!MessagesHaveMemory,
         Ipc!MessagesHaveMemory, IpcP!IpcEvent, Ipc!IpcEvent

(* The message being received is at the head of the list.                  *)
LEMMA ListFacts ==
  ASSUME IpcInv
  PROVE  /\ ipc_event_queue \in Seq(Ipc!IpcEvent)
         /\ Len(ipc_event_queue) \in Nat
         /\ event # NULL =>
              /\ ipc_event_queue # <<>>
              /\ event = Head(ipc_event_queue)
              /\ event = ipc_event_queue[1]
              /\ 1 \in 1 .. Len(ipc_event_queue)
              /\ event \in Ipc!IpcEvent
<1>1. ipc_event_queue \in Seq(Ipc!IpcEvent)
  BY DEF IpcInv, Ipc!TypeOK
<1>2. Len(ipc_event_queue) \in Nat
  BY <1>1, LenProperties
<1>3. ASSUME event # NULL
      PROVE  /\ ipc_event_queue # <<>>
             /\ event = Head(ipc_event_queue)
             /\ event = ipc_event_queue[1]
             /\ 1 \in 1 .. Len(ipc_event_queue)
             /\ event \in Ipc!IpcEvent
  <2>1. ipc_event_queue # <<>> /\ event = Head(ipc_event_queue)
    BY <1>3 DEF IpcInv, Ipc!MessagesHaveMemory
  <2>2. Len(ipc_event_queue) \in Nat \ {0}
    BY <1>1, <2>1, EmptySeq
  <2>3. QED
    BY <1>1, <2>1, <2>2, HeadTailProperties
<1>4. QED
  BY <1>1, <1>2, <1>3

-----------------------------------------------------------------------------
(* What the actions do to the list.                                        *)

(* One message is sent, or dropped.                                        *)
Posts(x) ==
  /\ ipc_event_queue' \in {ipc_event_queue, Append(ipc_event_queue, x)}
  /\ UNCHANGED event

(* Between two messages; and the receiver of one does its work.            *)
Between == event = NULL /\ UNCHANGED answered
Works == event # NULL /\ ~answered /\ answered'

Item(type, app, op, who) == [type |-> type, app |-> app, data |-> Msg(op, who)]

Who == Request \cup {NoOne} \cup Query \cup ReplyTo

LEMMA Posting ==
  ASSUME IInv, NEW app \in App, NEW op \in Op, NEW who \in Who,
         NEW type \in {"APP_TO_CORE", "CORE_TO_APP"},
         Ipc!Send(type, app, Msg(op, who))
  PROVE  /\ Item(type, app, op, who) \in Ipc!IpcEvent
         /\ Posts(Item(type, app, op, who))
         /\ IpcInv'
<1>1. Msg(op, who) \in Message
  BY DEF Msg, Message, Who
<1>2. Item(type, app, op, who) \in Ipc!IpcEvent
  BY <1>1 DEF Item, Ipc!IpcEvent
<1>3. Posts(Item(type, app, op, who))
  BY DEF Ipc!Send, Posts, Item
<1>4. Ipc!Next
  BY <1>1 DEF Ipc!Next, Ipc!send_app_to_core, Ipc!send_core_to_app
<1>5. IpcInv'
  BY <1>4, IpcKept DEF IInv, TypeOK, IpcInv
<1>6. QED
  BY <1>2, <1>3, <1>5

(* A login: a message that none of the invariants speaks of.  It stands    *)
(* for what an action that sends nothing sends.                            *)
Neutral == Item("APP_TO_CORE", MistConfig, "login", NoOne)

LEMMA NeutralFacts ==
  /\ Neutral \in Ipc!IpcEvent
  /\ Neutral \notin Chain /\ Neutral \notin Nameless
  /\ \A q : Neutral \notin About(q)
  /\ \A questions : Sound(Neutral, questions)
<1>1. Neutral.data.op = "login"
  BY DEF Neutral, Item, Msg
<1>2. Neutral \in Ipc!IpcEvent
  BY DEF Neutral, Item, Msg, Ipc!IpcEvent, Message, Op, App
<1>3. QED
  BY <1>1, <1>2 DEF Chain, Nameless, About, Sound

LEMMA Nothing ==
  ASSUME IInv, UNCHANGED ipcVars
  PROVE  Posts(Neutral) /\ IpcInv' /\ UNCHANGED lost
<1>1. UNCHANGED <<ipc_event_queue, event, heap, lost>>
  BY DEF ipcVars
<1>2. IpcInv'
  BY <1>1, IpcKept DEF Ipc!vars, IInv, TypeOK, IpcInv
<1>3. QED
  BY <1>1, <1>2 DEF Posts

(* Every message under way is counted; one that is received is done with.  *)
LEMMA Counting ==
  ASSUME IpcInv, NEW x \in Ipc!IpcEvent, Posts(x), Between \/ Works, NEW S
  PROVE  /\ Count(Waiting, S) \in Nat
         /\ Count(Waiting', S) \in Nat
         /\ Waiting' \in Seq(Ipc!IpcEvent)
         /\ event # NULL /\ event \in S => Count(Waiting, S) >= 1
         /\ Count(Waiting', S)
              <= Count(Waiting, S)
                   - (IF event # NULL /\ event \in S THEN 1 ELSE 0)
                   + (IF x \in S THEN 1 ELSE 0)
<1> DEFINE Q == ipc_event_queue
           n == IF x \in S THEN 1 ELSE 0
<1>1. /\ Q \in Seq(Ipc!IpcEvent)
      /\ event # NULL => Q # <<>> /\ event = Head(Q)
  BY ListFacts
<1>2. Q' \in {Q, Append(Q, x)} /\ event' = event
  BY DEF Posts
<1>3. Q' \in Seq(Ipc!IpcEvent)
  BY <1>1, <1>2, AppendProperties
<1>4. Count(Q, S) \in Nat /\ Count(Q', S) \in Nat
  BY <1>1, <1>3, CountType
<1>5. Count(Q', S) <= Count(Q, S) + n
  <2>1. CASE Q' = Q
    BY <1>4, <2>1
  <2>2. CASE Q' = Append(Q, x)
    <3>1. Count(Append(Q, x), S) = Count(Q, S) + n
      BY <1>1, CountAppend
    <3>2. QED
      BY <1>4, <2>2, <3>1
  <2>3. QED
    BY <1>2, <2>1, <2>2
<1>6. CASE Between
  <2>1. event = NULL /\ event' = NULL
    BY <1>2, <1>6 DEF Between
  <2>2. Waiting = Q /\ Waiting' = Q'
    BY <2>1 DEF Waiting
  <2>3. QED
    BY <1>3, <1>4, <1>5, <2>1, <2>2
<1>7. CASE Works
  <2> DEFINE m == IF event \in S THEN 1 ELSE 0
  <2>1. event # NULL /\ event' # NULL /\ ~answered /\ answered'
    BY <1>2, <1>7 DEF Works
  <2>2. Waiting = Q /\ Waiting' = Tail(Q')
    BY <2>1 DEF Waiting
  <2>3. Q # <<>> /\ event = Head(Q)
    BY <1>1, <2>1
  <2>4. Q' # <<>> /\ event = Head(Q')
    <3>1. CASE Q' = Q
      BY <2>3, <3>1
    <3>2. CASE Q' = Append(Q, x)
      BY <1>1, <2>3, <3>2, IpcP!AppendFacts
    <3>3. QED
      BY <1>2, <3>1, <3>2
  <2>5. Count(Q', S) = Count(Tail(Q'), S) + m
    BY <1>3, <2>4, CountTail
  <2>6. Count(Q, S) = Count(Tail(Q), S) + m
    BY <1>1, <2>3, CountTail
  <2>7. Tail(Q') \in Seq(Ipc!IpcEvent) /\ Tail(Q) \in Seq(Ipc!IpcEvent)
    BY <1>1, <1>3, <2>3, <2>4, HeadTailProperties
  <2>8. Count(Tail(Q'), S) \in Nat /\ Count(Tail(Q), S) \in Nat
    BY <2>7, CountType
  <2> HIDE DEF Q
  <2>9. QED
    BY <1>4, <1>5, <2>1, <2>2, <2>5, <2>6, <2>7, <2>8
<1>8. QED
  BY <1>6, <1>7

LEMMA SoundKept ==
  ASSUME IpcInv, MessagesSound, NEW x \in Ipc!IpcEvent, Posts(x),
         Sound(x, asked'),
         \A e \in Ipc!IpcEvent : Sound(e, asked) => Sound(e, asked')
  PROVE  MessagesSound'
<1> DEFINE Q == ipc_event_queue
<1>1. Q \in Seq(Ipc!IpcEvent) /\ Len(Q) \in Nat
  BY ListFacts
<1>2. \A i \in 1 .. Len(Q) : Sound(Q[i], asked')
  BY <1>1, ElementOfSeq DEF MessagesSound
<1>3. CASE Q' = Q
  BY <1>2, <1>3 DEF MessagesSound
<1>4. CASE Q' = Append(Q, x)
  <2>1. /\ Len(Q') = Len(Q) + 1
        /\ \A i \in 1 .. Len(Q) : Q'[i] = Q[i]
        /\ Q'[Len(Q) + 1] = x
    BY <1>1, <1>4, AppendProperties
  <2>2. ASSUME NEW i \in 1 .. Len(Q')
        PROVE  Sound(Q'[i], asked')
    <3>1. i \in 1 .. Len(Q) \/ i = Len(Q) + 1
      BY <1>1, <2>1
    <3>2. QED
      BY <1>2, <2>1, <3>1
  <2>3. QED
    BY <2>2 DEF MessagesSound
<1>5. QED
  BY <1>3, <1>4 DEF Posts

(* A message that is being received is sound.                              *)
LEMMA EventSound ==
  ASSUME IpcInv, MessagesSound, event # NULL
  PROVE  event \in Ipc!IpcEvent /\ Sound(event, asked)
<1>1. /\ 1 \in 1 .. Len(ipc_event_queue)
      /\ event = ipc_event_queue[1]
      /\ event \in Ipc!IpcEvent
  BY ListFacts
<1>2. QED
  BY <1>1 DEF MessagesSound

Invariants ==
  MessagesSound /\ RequestsCovered /\ NamelessCovered /\ QueriesSound

LEMMA RequestsKept ==
  ASSUME IInv, NEW x \in Ipc!IpcEvent, Posts(x), Between \/ Works,
         Len(pending') \in Nat, elsewhere' \in Nat,
         (IF x \in Chain THEN 1 ELSE 0) + Len(pending) + elsewhere
           <= (IF event # NULL /\ event \in Chain THEN 1 ELSE 0)
                + Len(pending') + elsewhere'
  PROVE  RequestsCovered'
<1> DEFINE new == Count(Waiting', Chain)
           old == Count(Waiting, Chain)
<1>1. /\ new \in Nat /\ old \in Nat
      /\ new <= old - (IF event # NULL /\ event \in Chain THEN 1 ELSE 0)
                  + (IF x \in Chain THEN 1 ELSE 0)
  BY Counting DEF IInv, TypeOK, IpcInv
<1>2. old <= Len(pending) + elsewhere
  BY DEF IInv, RequestsCovered
<1>3. Len(pending) \in Nat /\ elsewhere \in Nat
  BY LenProperties DEF IInv, TypeOK
<1> HIDE DEF new, old
<1>4. new <= Len(pending') + elsewhere'
  BY <1>1, <1>2, <1>3
<1>5. QED
  BY <1>4 DEF RequestsCovered, new, Chain, Ipc!IpcEvent

(* A message that names nobody takes the place of another, or it answers   *)
(* with an empty list; then nothing but what was decided elsewhere is left *)
(* under way.                                                              *)
LEMMA NamelessKept ==
  ASSUME IInv, NEW x \in Ipc!IpcEvent, Posts(x), Between \/ Works,
         UNCHANGED elsewhere,
         \/ x \in Nameless => event # NULL /\ event \in Nameless
         \/ pending' = <<>> /\ RequestsCovered'
  PROVE  NamelessCovered'
<1> DEFINE new == Count(Waiting', Nameless)
           old == Count(Waiting, Nameless)
           way == Count(Waiting', Chain)
<1>1. /\ new \in Nat /\ old \in Nat
      /\ Waiting' \in Seq(Ipc!IpcEvent)
      /\ new <= old - (IF event # NULL /\ event \in Nameless THEN 1 ELSE 0)
                  + (IF x \in Nameless THEN 1 ELSE 0)
  BY Counting DEF IInv, TypeOK, IpcInv
<1>2. old <= elsewhere /\ elsewhere \in Nat
  BY DEF IInv, NamelessCovered, TypeOK
<1>3. new <= elsewhere
  <2>1. CASE x \in Nameless => event # NULL /\ event \in Nameless
    <3> HIDE DEF new, old
    <3>1. QED
      BY <1>1, <1>2, <2>1
  <2>2. CASE pending' = <<>> /\ RequestsCovered'
    <3>1. Nameless \in SUBSET Chain
      BY DEF Nameless, Chain
    <3>2. new <= way
      BY <1>1, <3>1, CountSubset
    <3>3. way \in Nat
      BY <1>1, CountType
    <3>4. way <= Len(<<>>) + elsewhere
      BY <2>2 DEF RequestsCovered, Chain, Ipc!IpcEvent
    <3> HIDE DEF new, way
    <3>5. QED
      BY <1>1, <1>2, <3>2, <3>3, <3>4
  <2>3. QED
    BY <2>1, <2>2
<1>4. QED
  BY <1>3 DEF NamelessCovered, Nameless, Ipc!IpcEvent

LEMMA QueriesKept ==
  ASSUME IInv, NEW x \in Ipc!IpcEvent, Posts(x), Between \/ Works,
         UNCHANGED <<asked, replies>>,
         \A q \in Query : x \in About(q) => event # NULL /\ event \in About(q)
  PROVE  QueriesSound'
<1> SUFFICES ASSUME NEW q \in Query
             PROVE  /\ Count(Waiting', About(q)) + Len(replies[q]) <= 1
                    /\ asked[q] = NULL =>
                         Count(Waiting', About(q)) + Len(replies[q]) = 0
                    /\ \A i \in 1 .. Len(replies[q]) :
                         Fits(replies[q][i], asked[q])
  BY DEF QueriesSound, About, Ipc!IpcEvent
<1> DEFINE new == Count(Waiting', About(q))
           old == Count(Waiting, About(q))
<1>1. /\ new \in Nat /\ old \in Nat
      /\ new <= old - (IF event # NULL /\ event \in About(q) THEN 1 ELSE 0)
                  + (IF x \in About(q) THEN 1 ELSE 0)
  BY Counting DEF IInv, TypeOK, IpcInv
<1>2. /\ old + Len(replies[q]) <= 1
      /\ asked[q] = NULL => old + Len(replies[q]) = 0
      /\ \A i \in 1 .. Len(replies[q]) : Fits(replies[q][i], asked[q])
  BY DEF IInv, QueriesSound
<1>3. Len(replies[q]) \in Nat
  BY LenProperties DEF IInv, TypeOK
<1> HIDE DEF new, old
<1>4. /\ new + Len(replies[q]) <= 1
      /\ asked[q] = NULL => new + Len(replies[q]) = 0
  BY <1>1, <1>2, <1>3
<1>5. QED
  BY <1>2, <1>4 DEF new

(* An action that only sends keeps the invariants if what it sends is      *)
(* sound and takes the place of the message that is done with.             *)
LEMMA Quiet ==
  ASSUME IInv, NEW x \in Ipc!IpcEvent, Posts(x), Between \/ Works,
         UNCHANGED <<pending, elsewhere, asked, replies>>,
         Sound(x, asked),
         x \in Chain => event # NULL /\ event \in Chain,
         \/ x \in Nameless => event # NULL /\ event \in Nameless
         \/ pending = <<>>,
         \A q \in Query : x \in About(q) => event # NULL /\ event \in About(q)
  PROVE  Invariants'
<1>1. MessagesSound'
  BY SoundKept DEF IInv, TypeOK, IpcInv
<1>2. RequestsCovered'
  <2>1. Len(pending) \in Nat /\ elsewhere \in Nat
    BY LenProperties DEF IInv, TypeOK
  <2>2. QED
    BY <2>1, RequestsKept
<1>3. NamelessCovered'
  BY <1>2, NamelessKept
<1>4. QueriesSound'
  BY QueriesKept
<1>5. QED
  BY <1>1, <1>2, <1>3, <1>4 DEF Invariants

(* An action that changes no message under way.                            *)
LEMMA Stutters ==
  ASSUME IInv, UNCHANGED <<pending, elsewhere, asked, replies>>,
         Waiting' = Waiting,
         \A i \in 1 .. Len(ipc_event_queue') :
           \E j \in 1 .. Len(ipc_event_queue) :
             ipc_event_queue'[i] = ipc_event_queue[j]
  PROVE  Invariants'
BY DEF Invariants, IInv, MessagesSound, RequestsCovered, NamelessCovered,
       QueriesSound, Chain, Nameless, About, Ipc!IpcEvent

-----------------------------------------------------------------------------
(* The applications' answers.                                              *)

LEMMA ConfigAnswers ==
  ASSUME NEW ep \in DOMAIN ConfigTree \ InvokeOnly, NEW reply \in wifi_read(ep)
  PROVE  /\ reply.epid = mist_ep_full_epid(MistConfig, ep)
         /\ reply.data # NoData
<1>1. ep \in {"mist", "name", "mistType", "mistVersion", "portVersion", "uptime"}
  BY DEF ConfigTree, InvokeOnly
<1> DEFINE full == mist_ep_full_epid(MistConfig, ep)
           datum == CASE ep = "mistType"    -> "WifiCommissioning"
                      [] ep = "mistVersion" -> "1.0.1"
                      [] ep = "portVersion" -> "PORT_VERSION"
                      [] ep = "uptime"      -> "0"
                      [] ep = "mist"        -> ""
                      [] ep = "name"        -> "MistConfig"
                      [] OTHER              -> NoData
<1>2. reply = Reply(full, datum)
  BY DEF wifi_read
<1>3. datum # NoData
  BY <1>1 DEF NoData
<1> HIDE DEF full, datum
<1>4. reply.epid = full /\ reply.data # NoData
  BY <1>2, <1>3 DEF Reply
<1>5. QED
  BY <1>4 DEF full

LEMMA SensorAnswers ==
  ASSUME NEW ep \in DOMAIN SensorsTree, NEW reply \in sensor_read(ep)
  PROVE  /\ reply.epid = mist_ep_full_epid(Sensors, ep)
         /\ reply.data # NoData
<1>1. ep \in {"mist", "name", "orientation"}
  BY DEF SensorsTree, SensorsEp, Unregistered
<1>2. mist_ep_full_epid(Sensors, "orientation") = <<"orientation">>
  <2>1. SensorsTree["orientation"] = Root
    BY DEF SensorsTree, SensorsEp, Unregistered
  <2>2. Tree(Sensors) = SensorsTree
    BY DEF Tree
  <2>3. QED
    BY <2>1, <2>2 DEF mist_ep_full_epid
<1> DEFINE full == mist_ep_full_epid(Sensors, ep)
<1>3. CASE ep = "orientation"
  <2>1. reply \in {Reply(full, "euler"), Reply(<<ep>>, ApiError)}
    BY <1>3 DEF sensor_read
  <2>2. full = <<ep>>
    BY <1>2, <1>3
  <2> HIDE DEF full
  <2>3. reply.epid = full
    BY <2>1, <2>2 DEF Reply
  <2>4. reply.data \in {"euler", "error"}
    BY <2>1 DEF Reply, ApiError
  <2>5. QED
    BY <2>3, <2>4 DEF full, NoData
<1>4. CASE ep # "orientation"
  <2> DEFINE datum == CASE ep = "mist" -> ""
                        [] ep = "name" -> "Sensors"
                        [] OTHER       -> NoData
  <2>1. reply = Reply(full, datum)
    BY <1>4 DEF sensor_read
  <2>2. datum # NoData
    BY <1>1, <1>4 DEF NoData
  <2> HIDE DEF full, datum
  <2>3. reply.epid = full /\ reply.data # NoData
    BY <2>1, <2>2 DEF Reply
  <2>4. QED
    BY <2>3 DEF full
<1>5. QED
  BY <1>3, <1>4

LEMMA AnswersFitQuestions ==
  ASSUME NEW question \in Question, question.op = "read",
         NEW reply \in Answers(question.app, question.ep)
  PROVE  reply \in SomeReply /\ Fits(reply, question)
<1>1. reply \in SomeReply
  BY DEF SomeReply
<1>2. /\ question.app \in App
      /\ question.ep \in DOMAIN Tree(question.app) \ InvokeOnly
  <2> DEFINE Reads(a) ==
        [op : {"read"}, app : {a}, ep : DOMAIN Tree(a) \ InvokeOnly]
  <2>1. PICK a \in App : question \in Reads(a)
    <3>1. question \in UNION {Reads(a) : a \in App}
      <4> DEFINE All == UNION {Reads(a) : a \in App}
                 Rest == [op : {"invoke"}, app : {MistConfig}, ep : InvokeOnly]
      <4>1. question \in All \cup Rest
        BY DEF Question
      <4>2. question \notin Rest
        OBVIOUS
      <4> HIDE DEF All, Rest
      <4>3. question \in All
        BY <4>1, <4>2
      <4>4. QED
        BY <4>3 DEF All
    <3>2. QED
      BY <3>1
  <2>2. QED
    BY <2>1
<1>3. CASE question.app = MistConfig
  <2>1. question.ep \in DOMAIN ConfigTree \ InvokeOnly
    BY <1>2, <1>3 DEF Tree
  <2>2. reply \in wifi_read(question.ep)
    BY <1>3 DEF Answers
  <2>3. /\ reply.epid = mist_ep_full_epid(MistConfig, question.ep)
        /\ reply.data # NoData
    BY <2>1, <2>2, ConfigAnswers
  <2>4. QED
    BY <1>1, <1>3, <2>3 DEF Fits
<1>4. CASE question.app = Sensors
  <2>1. question.app # MistConfig
    BY <1>4
  <2>2. question.ep \in DOMAIN SensorsTree
    BY <1>2, <2>1 DEF Tree
  <2>3. reply \in sensor_read(question.ep)
    BY <2>1 DEF Answers
  <2>4. /\ reply.epid = mist_ep_full_epid(Sensors, question.ep)
        /\ reply.data # NoData
    BY <2>2, <2>3, SensorAnswers
  <2>5. QED
    BY <1>1, <1>4, <2>4 DEF Fits
<1>5. QED
  BY <1>1, <1>2, <1>3, <1>4 DEF App

-----------------------------------------------------------------------------
(* One lemma for each action, or for several of the same kind.             *)

(* The core's own state, and the history.                                  *)
CoreOK ==
  /\ subscribed \in BOOLEAN
  /\ pending \in Seq(Request) /\ IsInjective(pending)
  /\ announced \in SUBSET Request
  /\ accepted \in SUBSET Request
  /\ elsewhere \in 0 .. MaxRemote
  /\ online \in SUBSET App
  /\ asked \in [Query -> Question \cup {NULL}]
  /\ replies \in [Query -> Seq(SomeReply)]
  /\ Range(pending) \cap accepted = {}

Flags == answered \in BOOLEAN /\ lost \in BOOLEAN

LEMMA Parts == IInv <=> IpcInv /\ Flags /\ CoreOK /\ Invariants
BY DEF IInv, IpcInv, Flags, CoreOK, Invariants, TypeOK

LEMMA PartsNext == IpcInv' /\ Flags' /\ CoreOK' /\ Invariants' => IInv'
BY DEF IInv, IpcInv, Flags, CoreOK, Invariants, TypeOK

LEMMA FlagsKept ==
  ASSUME IInv, Between \/ Works, Account \/ UNCHANGED lost
  PROVE  Flags'
<1>1. answered' \in BOOLEAN
  BY DEF Between, Works, IInv, TypeOK
<1>2. CASE Account
  <2>1. lost' \in BOOLEAN
    BY <1>2 DEF Account
  <2>2. QED
    BY <1>1, <2>1 DEF Flags
<1>3. CASE UNCHANGED lost
  BY <1>1, <1>3 DEF Flags, IInv, TypeOK
<1>4. QED
  BY <1>2, <1>3

(* What the receiver of a message knows.                                   *)
LEMMA Receiving ==
  ASSUME IInv, event # NULL, ~answered, answered' = TRUE
  PROVE  /\ Works
         /\ event \in Ipc!IpcEvent
         /\ event.app \in App
         /\ event.data.op \in Op
         /\ event.data.who \in Who
         /\ Sound(event, asked)
<1>1. Works
  BY DEF Works
<1>2. event \in Ipc!IpcEvent /\ Sound(event, asked)
  BY EventSound DEF IInv, TypeOK, IpcInv
<1>3. event.app \in App /\ event.data.op \in Op /\ event.data.who \in Who
  BY <1>2 DEF Ipc!IpcEvent, Message, Who
<1>4. QED
  BY <1>1, <1>2, <1>3

(* The messages that belong to no request and no query.                    *)
Plain == {"login", "ready", "signals", "otherSignal", "accepted", "changed"}

LEMMA PlainSend ==
  ASSUME IInv, Between \/ Works,
         UNCHANGED <<pending, elsewhere, asked, replies>>,
         NEW app \in App, NEW op \in Plain,
         ToCore(app, op, NoOne) \/ ToApp(app, op, NoOne)
  PROVE  IpcInv' /\ Flags' /\ Invariants'
<1>1. PICK type \in {"APP_TO_CORE", "CORE_TO_APP"} :
        Ipc!Send(type, app, Msg(op, NoOne)) /\ Account
  BY DEF ToCore, ToApp, Ipc!send_app_to_core, Ipc!send_core_to_app
<1> DEFINE x == Item(type, app, op, NoOne)
<1>2. op \in Op /\ NoOne \in Who
  BY DEF Plain, Op, Who
<1>3. x \in Ipc!IpcEvent /\ Posts(x) /\ IpcInv'
  BY <1>1, <1>2, Posting
<1>4. x.data.op \in Plain
  BY DEF Item, Msg
<1> HIDE DEF x
<1>5. /\ Sound(x, asked)
      /\ x \notin Chain /\ x \notin Nameless
      /\ \A q : x \notin About(q)
  BY <1>4 DEF Sound, Chain, Nameless, About, Plain
<1>6. Invariants'
  BY <1>3, <1>5, Quiet
<1>7. QED
  BY <1>1, <1>3, <1>6, FlagsKept

(* The steps of a friend request's way, from message to message.           *)
LEMMA ChainSend ==
  ASSUME IInv, Works, UNCHANGED <<pending, elsewhere, asked, replies>>,
         event \in Chain,
         NEW app \in App,
         NEW op \in {"friendRequestList", "list", "friendRequestAccept"},
         NEW who \in Who,
         \/ op \in {"list", "friendRequestAccept"} /\ who = NoOne
              => event \in Nameless
         \/ pending = <<>>,
         ToCore(app, op, who) \/ ToApp(app, op, who)
  PROVE  IpcInv' /\ Flags' /\ Invariants'
<1>1. PICK type \in {"APP_TO_CORE", "CORE_TO_APP"} :
        Ipc!Send(type, app, Msg(op, who)) /\ Account
  BY DEF ToCore, ToApp, Ipc!send_app_to_core, Ipc!send_core_to_app
<1> DEFINE x == Item(type, app, op, who)
<1>2. op \in Op
  BY DEF Op
<1>3. x \in Ipc!IpcEvent /\ Posts(x) /\ IpcInv'
  BY <1>1, <1>2, Posting
<1>4. x.data.op = op /\ x.data.who = who
  BY DEF Item, Msg
<1> HIDE DEF x
<1>5. Sound(x, asked) /\ \A q : x \notin About(q)
  BY <1>4 DEF Sound, About
<1>6. event # NULL
  BY DEF Works
<1>7. (x \in Nameless => event \in Nameless) \/ pending = <<>>
  BY <1>4 DEF Nameless
<1>8. Invariants'
  BY <1>3, <1>5, <1>6, <1>7, Quiet
<1>9. QED
  BY <1>1, <1>3, <1>8, FlagsKept

(* A receiver that sends nothing.                                          *)
LEMMA Silent ==
  ASSUME IInv, Works, UNCHANGED ipcVars,
         UNCHANGED <<pending, elsewhere, asked, replies>>
  PROVE  IpcInv' /\ Flags' /\ Invariants'
<1>1. Posts(Neutral) /\ IpcInv' /\ UNCHANGED lost
  BY Nothing
<1>2. Invariants'
  BY <1>1, NeutralFacts, Quiet
<1>3. QED
  BY <1>1, <1>2, FlagsKept

LEMMA CoreUnchanged ==
  ASSUME IInv, UNCHANGED coreVars
  PROVE  CoreOK' /\ UNCHANGED <<pending, elsewhere, asked, replies>>
BY DEF IInv, TypeOK, CoreOK, coreVars, friendVars, queryVars

LEMMA CoreLoginKeeps == IInv /\ CoreLogin => IInv'
<1> SUFFICES ASSUME IInv, CoreLogin
             PROVE  IInv'
  OBVIOUS
<1>1. Works /\ event.app \in App
  BY Receiving DEF CoreLogin, CoreReceives
<1>2. IpcInv' /\ Flags' /\ Invariants'
  BY <1>1, PlainSend DEF CoreLogin, Plain, friendVars
<1>3. CoreOK'
  BY <1>1 DEF CoreLogin, friendVars, IInv, TypeOK, CoreOK
<1>4. QED
  BY <1>2, <1>3, PartsNext

LEMMA CoreSignalsKeeps == IInv /\ CoreSignals => IInv'
<1> SUFFICES ASSUME IInv, CoreSignals
             PROVE  IInv'
  OBVIOUS
<1>1. Works
  BY Receiving DEF CoreSignals, CoreReceives
<1>2. IpcInv' /\ Flags' /\ Invariants'
  BY <1>1, PlainSend DEF CoreSignals, Plain, queryVars, App
<1>3. CoreOK'
  BY DEF CoreSignals, queryVars, IInv, TypeOK, CoreOK
<1>4. QED
  BY <1>2, <1>3, PartsNext

LEMMA CoreListKeeps == IInv /\ CoreList => IInv'
<1> SUFFICES ASSUME IInv, CoreList
             PROVE  IInv'
  OBVIOUS
<1>1. Works /\ event \in Ipc!IpcEvent
  BY Receiving DEF CoreList, CoreReceives
<1>2. event # NULL /\ event \in Chain
  BY <1>1 DEF CoreList, CoreReceives, Chain
<1> DEFINE who == IF pending = <<>> THEN NoOne ELSE Head(pending)
<1>3. who \in Request \cup {NoOne} /\ (who = NoOne => pending = <<>>)
  BY HeadTailProperties DEF IInv, TypeOK
<1>4. ToApp(MistConfig, "list", who) /\ UNCHANGED coreVars
  BY DEF CoreList
<1> HIDE DEF who
<1>5. who \in Who /\ MistConfig \in App
  BY <1>3 DEF Who, App
<1>6. CoreOK' /\ UNCHANGED <<pending, elsewhere, asked, replies>>
  BY <1>4, CoreUnchanged
<1>7. IpcInv' /\ Flags' /\ Invariants'
  BY <1>1, <1>2, <1>3, <1>4, <1>5, <1>6, ChainSend
<1>8. QED
  BY <1>6, <1>7, PartsNext

LEMMA CoreAcceptKeeps == IInv /\ CoreAccept => IInv'
<1> SUFFICES ASSUME IInv, CoreAccept
             PROVE  IInv'
  OBVIOUS
<1> DEFINE r == event.data.who
<1>1. Works /\ event \in Ipc!IpcEvent /\ event.data.op = "friendRequestAccept"
  BY Receiving DEF CoreAccept, CoreReceives
<1>2. event # NULL /\ event \in Chain
  BY <1>1 DEF CoreAccept, CoreReceives, Chain
<1>3. /\ ToApp(MistConfig, "accepted", NoOne)
      /\ UNCHANGED <<subscribed, announced, elsewhere, online, asked, replies>>
  BY DEF CoreAccept, queryVars
<1>4. /\ pending \in Seq(Request)
      /\ IsInjective(pending)
      /\ Len(pending) \in Nat
      /\ DOMAIN pending = 1 .. Len(pending)
      /\ Range(pending) \cap accepted = {}
      /\ accepted \in SUBSET Request
      /\ elsewhere \in Nat
  BY LenProperties DEF IInv, TypeOK
<1>5. /\ CoreOK'
      /\ Len(pending') \in Nat
      /\ Len(pending) <= Len(pending') + 1
  <2>1. ASSUME NEW k \in DOMAIN pending,
               pending[k] = r,
               pending' = RemoveAt(pending, k),
               accepted' = accepted \cup {r}
        PROVE  /\ CoreOK'
               /\ Len(pending') \in Nat
               /\ Len(pending) <= Len(pending') + 1
    <3>1. /\ pending' \in Seq(Request)
          /\ Len(pending') = Len(pending) - 1
          /\ IsInjective(pending')
          /\ Range(pending') \subseteq Range(pending) \ {r}
      BY <1>4, <2>1, RemoveAtFacts
    <3>2. accepted' \in SUBSET Request
      BY <1>4, <2>1, ElementOfSeq
    <3>3. Range(pending') \cap accepted' = {}
      BY <1>4, <2>1, <3>1
    <3>4. CoreOK'
      BY <1>3, <3>1, <3>2, <3>3 DEF CoreOK, IInv, TypeOK
    <3>5. Len(pending') \in Nat
      BY <3>1, LenProperties
    <3>6. QED
      BY <1>4, <3>1, <3>4, <3>5
  <2>2. CASE UNCHANGED <<pending, accepted>>
    BY <1>3, <1>4, <2>2 DEF CoreOK, IInv, TypeOK
  <2>3. QED
    BY <2>1, <2>2 DEF CoreAccept
<1>6. PICK type \in {"APP_TO_CORE", "CORE_TO_APP"} :
        Ipc!Send(type, MistConfig, Msg("accepted", NoOne)) /\ Account
  BY <1>3 DEF ToApp, Ipc!send_core_to_app
<1> DEFINE x == Item(type, MistConfig, "accepted", NoOne)
<1>7. x \in Ipc!IpcEvent /\ Posts(x) /\ IpcInv'
  BY <1>6, Posting DEF Op, Who, App
<1>8. x.data.op = "accepted"
  BY DEF Item, Msg
<1> HIDE DEF x
<1>9. /\ Sound(x, asked)
      /\ x \notin Chain /\ x \notin Nameless
      /\ \A q : x \notin About(q)
  BY <1>8 DEF Sound, Chain, Nameless, About
<1>10. RequestsCovered' /\ NamelessCovered'
  <2>1. RequestsCovered'
    BY <1>1, <1>2, <1>3, <1>4, <1>5, <1>7, <1>9, RequestsKept
  <2>2. NamelessCovered'
    BY <1>1, <1>3, <1>7, <1>9, NamelessKept
  <2>3. QED
    BY <2>1, <2>2
<1>11. MessagesSound'
  BY <1>3, <1>7, <1>9, SoundKept DEF IInv, TypeOK, IpcInv
<1>12. QueriesSound'
  BY <1>1, <1>3, <1>7, <1>9, QueriesKept
<1>13. Flags'
  BY <1>1, <1>6, FlagsKept
<1>14. QED
  BY <1>5, <1>7, <1>10, <1>11, <1>12, <1>13, PartsNext DEF Invariants

LEMMA CoreReadResponseKeeps == IInv /\ CoreReadResponse => IInv'
<1> SUFFICES ASSUME IInv, CoreReadResponse
             PROVE  IInv'
  OBVIOUS
<1> DEFINE p == event.data.who.query
           reply == event.data.who.reply
<1>1. /\ Works
      /\ event # NULL
      /\ event \in Ipc!IpcEvent
      /\ event.data.op = "readResponse"
      /\ event.data.who \in ReplyTo
      /\ Fits(reply, asked[p])
  BY Receiving DEF CoreReadResponse, CoreReceives, Sound
<1>2. p \in Query /\ reply \in SomeReply
  BY <1>1 DEF ReplyTo
<1>3. event \in About(p)
  BY <1>1 DEF About
<1>4. ASSUME NEW q \in Query, q # p
      PROVE  event \notin About(q)
  BY <1>1, <1>4 DEF About
<1>5. /\ replies' = [replies EXCEPT ![p] = Append(@, reply)]
      /\ UNCHANGED <<ipcVars, friendVars, online, asked>>
  BY DEF CoreReadResponse
<1> HIDE DEF p, reply
<1>6. Posts(Neutral) /\ IpcInv' /\ UNCHANGED lost
  BY <1>5, Nothing
<1>7. /\ replies \in [Query -> Seq(SomeReply)]
      /\ pending \in Seq(Request)
      /\ Len(pending) \in Nat
  BY LenProperties DEF IInv, TypeOK
<1>8. Append(replies[p], reply) \in Seq(SomeReply)
  BY <1>2, <1>7, AppendProperties
<1>9. CoreOK'
  BY <1>5, <1>7, <1>8 DEF CoreOK, IInv, TypeOK, friendVars
<1>10. MessagesSound'
  BY <1>5, <1>6, NeutralFacts, SoundKept DEF IInv, TypeOK, IpcInv
<1>11. RequestsCovered' /\ NamelessCovered'
  <2>1. UNCHANGED <<pending, elsewhere>> /\ elsewhere \in Nat
    BY <1>5 DEF friendVars, IInv, TypeOK
  <2>2. RequestsCovered'
    BY <1>1, <1>6, <1>7, <2>1, NeutralFacts, RequestsKept
  <2>3. NamelessCovered'
    BY <1>1, <1>6, <2>1, NeutralFacts, NamelessKept
  <2>4. QED
    BY <2>2, <2>3
<1>12. QueriesSound'
  <2> SUFFICES ASSUME NEW q \in Query
               PROVE  /\ Count(Waiting', About(q)) + Len(replies'[q]) <= 1
                      /\ asked[q] = NULL =>
                           Count(Waiting', About(q)) + Len(replies'[q]) = 0
                      /\ \A i \in 1 .. Len(replies'[q]) :
                           Fits(replies'[q][i], asked[q])
    BY <1>5 DEF QueriesSound, About, Ipc!IpcEvent
  <2> DEFINE new == Count(Waiting', About(q))
             old == Count(Waiting, About(q))
  <2>1. /\ new \in Nat /\ old \in Nat
        /\ new <= old - (IF event # NULL /\ event \in About(q) THEN 1 ELSE 0)
        /\ event # NULL /\ event \in About(q) => old >= 1
    <3>1. /\ new \in Nat /\ old \in Nat
          /\ event # NULL /\ event \in About(q) => old >= 1
          /\ new <= old - (IF event # NULL /\ event \in About(q) THEN 1 ELSE 0)
                      + (IF Neutral \in About(q) THEN 1 ELSE 0)
      BY <1>1, <1>6, NeutralFacts, Counting DEF IInv, TypeOK, IpcInv
    <3> HIDE DEF new, old
    <3>2. QED
      BY <3>1, NeutralFacts
  <2>2. /\ old + Len(replies[q]) <= 1
        /\ asked[q] = NULL => old + Len(replies[q]) = 0
        /\ \A i \in 1 .. Len(replies[q]) : Fits(replies[q][i], asked[q])
    BY DEF IInv, QueriesSound
  <2>3. Len(replies[q]) \in Nat
    BY <1>7, LenProperties
  <2> HIDE DEF new, old
  <2>4. CASE q = p
    <3>1. old >= 1 /\ new <= old - 1
      BY <1>1, <1>3, <2>1, <2>4
    <3>2. replies'[q] = Append(replies[q], reply)
      BY <1>5, <1>7, <2>4
    <3>3. /\ Len(replies'[q]) = Len(replies[q]) + 1
          /\ \A i \in 1 .. Len(replies[q]) : replies'[q][i] = replies[q][i]
          /\ replies'[q][Len(replies[q]) + 1] = reply
      BY <1>2, <1>7, <3>2, AppendProperties
    <3>4. new + Len(replies'[q]) <= 1 /\ asked[q] # NULL
      BY <2>1, <2>2, <2>3, <3>1, <3>3
    <3>5. ASSUME NEW i \in 1 .. Len(replies'[q])
          PROVE  Fits(replies'[q][i], asked[q])
      <4>1. i \in 1 .. Len(replies[q]) \/ i = Len(replies[q]) + 1
        BY <2>3, <3>3
      <4>2. Fits(reply, asked[q])
        BY <1>1, <2>4 DEF p, reply
      <4>3. QED
        BY <2>2, <3>3, <4>1, <4>2
    <3>6. QED
      BY <3>4, <3>5 DEF new
  <2>5. CASE q # p
    <3>1. replies'[q] = replies[q]
      BY <1>5, <1>7, <2>5
    <3>2. /\ new + Len(replies[q]) <= 1
          /\ asked[q] = NULL => new + Len(replies[q]) = 0
      BY <2>1, <2>2, <2>3
    <3>3. QED
      BY <2>2, <3>1, <3>2 DEF new
  <2>6. QED
    BY <2>4, <2>5
<1>13. Flags'
  BY <1>1, <1>6, FlagsKept
<1>14. QED
  BY <1>6, <1>9, <1>10, <1>11, <1>12, <1>13, PartsNext DEF Invariants

(* The receivers of the applications that send a plain message or nothing. *)
LEMMA PlainReceiversKeep ==
  ASSUME IInv,
         CoreChanged \/ init_app \/ Sensors_init_app
           \/ friend_request_accept_cb \/ wifi_invoke
  PROVE  IInv'
<1>1. Works /\ UNCHANGED coreVars
  BY Receiving DEF CoreChanged, CoreReceives, init_app, Sensors_init_app,
                   friend_request_accept_cb, wifi_invoke, AppReceives
<1>2. CoreOK' /\ UNCHANGED <<pending, elsewhere, asked, replies>>
  BY <1>1, CoreUnchanged
<1>3. IpcInv' /\ Flags' /\ Invariants'
  <2>1. CASE init_app
    BY <1>1, <1>2, <2>1, PlainSend DEF init_app, Plain, App
  <2>2. CASE CoreChanged \/ Sensors_init_app \/ friend_request_accept_cb
               \/ wifi_invoke
    <3>1. UNCHANGED ipcVars
      BY <2>2 DEF CoreChanged, Sensors_init_app, friend_request_accept_cb,
                  wifi_invoke
    <3>2. QED
      BY <1>1, <1>2, <3>1, Silent
  <2>3. QED
    BY <2>1, <2>2
<1>4. QED
  BY <1>2, <1>3, PartsNext

LEMMA SignalKeeps == IInv /\ signals_cb => IInv'
<1> SUFFICES ASSUME IInv, signals_cb
             PROVE  IInv'
  OBVIOUS
<1>1. Works /\ event \in Ipc!IpcEvent /\ UNCHANGED coreVars
  BY Receiving DEF signals_cb, AppReceives
<1>2. CoreOK' /\ UNCHANGED <<pending, elsewhere, asked, replies>>
  BY <1>1, CoreUnchanged
<1>3. CASE event.data.op = "friendRequest" /\ make_friend_request_list
  <2>1. event \in Chain
    BY <1>1, <1>3 DEF Chain
  <2>2. ToCore(MistConfig, "friendRequestList", NoOne)
    BY <1>3 DEF make_friend_request_list
  <2>3. MistConfig \in App /\ NoOne \in Who
    BY DEF App, Who
  <2>4. IpcInv' /\ Flags' /\ Invariants'
    BY <1>1, <1>2, <2>1, <2>2, <2>3, ChainSend
  <2>5. QED
    BY <1>2, <2>4, PartsNext
<1>4. CASE UNCHANGED ipcVars
  BY <1>1, <1>2, <1>4, Silent, PartsNext
<1>5. QED
  BY <1>3, <1>4 DEF signals_cb

LEMMA ListCallbackKeeps == IInv /\ friend_request_list_cb => IInv'
<1> SUFFICES ASSUME IInv, friend_request_list_cb
             PROVE  IInv'
  OBVIOUS
<1>1. /\ Works
      /\ event \in Ipc!IpcEvent
      /\ event.data.op = "list"
      /\ event.data.who \in Who
      /\ UNCHANGED coreVars
  BY Receiving DEF friend_request_list_cb, AppReceives
<1>2. CoreOK' /\ UNCHANGED <<pending, elsewhere, asked, replies>>
  BY <1>1, CoreUnchanged
<1>3. /\ event \in Chain
      /\ event.data.who = NoOne => event \in Nameless
  BY <1>1 DEF Chain, Nameless
<1>4. ToCore(MistConfig, "friendRequestAccept", event.data.who)
  BY DEF friend_request_list_cb
<1>5. MistConfig \in App
  BY DEF App
<1>6. IpcInv' /\ Flags' /\ Invariants'
  BY <1>1, <1>2, <1>3, <1>4, <1>5, ChainSend
<1>7. QED
  BY <1>2, <1>6, PartsNext

LEMMA AnswerReadKeeps == IInv /\ AnswerRead => IInv'
<1> SUFFICES ASSUME IInv, AnswerRead
             PROVE  IInv'
  OBVIOUS
<1> DEFINE p == event.data.who
<1>1. /\ Works
      /\ event # NULL
      /\ event \in Ipc!IpcEvent
      /\ event.app \in App
      /\ event.data.op = "read"
      /\ p \in Query
      /\ asked[p] \in Question
      /\ asked[p].op = "read"
      /\ asked[p].app = event.app
      /\ UNCHANGED coreVars
  BY Receiving DEF AnswerRead, AppReceives, Sound
<1>2. CoreOK' /\ UNCHANGED <<pending, elsewhere, asked, replies>>
  BY <1>1, CoreUnchanged
<1>3. PICK reply \in Answers(event.app, asked[p].ep) :
        ToCore(event.app, "readResponse", [query |-> p, reply |-> reply])
  BY DEF AnswerRead
<1>4. reply \in SomeReply /\ Fits(reply, asked[p])
  BY <1>1, <1>3, AnswersFitQuestions
<1> DEFINE who == [query |-> p, reply |-> reply]
           x == Item("APP_TO_CORE", event.app, "readResponse", who)
<1>5. who \in ReplyTo /\ who \in Who /\ who.query = p /\ who.reply = reply
  BY <1>1, <1>4 DEF ReplyTo, Who
<1>6. Ipc!Send("APP_TO_CORE", event.app, Msg("readResponse", who)) /\ Account
  BY <1>3 DEF ToCore, Ipc!send_app_to_core
<1>7. event \in About(p)
  BY <1>1 DEF About
<1> HIDE DEF p, who
<1>8. x \in Ipc!IpcEvent /\ Posts(x) /\ IpcInv'
  BY <1>1, <1>5, <1>6, Posting DEF Op
<1>9. x.data.op = "readResponse" /\ x.data.who = who
  BY DEF Item, Msg
<1> HIDE DEF x
<1>10. Sound(x, asked)
  BY <1>4, <1>5, <1>9 DEF Sound
<1>11. /\ x \notin Chain /\ x \notin Nameless
       /\ \A q : x \in About(q) => q = p
  BY <1>5, <1>9 DEF Chain, Nameless, About
<1>12. \A q \in Query : x \in About(q) => event # NULL /\ event \in About(q)
  BY <1>1, <1>7, <1>11
<1>13. Invariants'
  BY <1>1, <1>2, <1>8, <1>10, <1>11, <1>12, Quiet
<1>14. Flags'
  BY <1>1, <1>6, FlagsKept
<1>15. QED
  BY <1>2, <1>8, <1>13, <1>14, PartsNext

LEMMA PeriodicKeeps == IInv /\ xdk_sensors_periodic => IInv'
<1> SUFFICES ASSUME IInv, xdk_sensors_periodic
             PROVE  IInv'
  OBVIOUS
<1>1. Between /\ UNCHANGED coreVars
  BY DEF xdk_sensors_periodic, Between
<1>2. CoreOK' /\ UNCHANGED <<pending, elsewhere, asked, replies>>
  BY <1>1, CoreUnchanged
<1>3. IpcInv' /\ Flags' /\ Invariants'
  BY <1>1, <1>2, PlainSend DEF xdk_sensors_periodic, Plain, App
<1>4. QED
  BY <1>2, <1>3, PartsNext

-----------------------------------------------------------------------------

LEMMA FriendRequestKeeps ==
  ASSUME IInv, NEW r \in Request, FriendRequestArrives(r)
  PROVE  IInv'
<1>1. /\ Between
      /\ event = NULL
      /\ r \notin Range(pending)
      /\ r \notin accepted
      /\ pending' = Append(pending, r)
      /\ UNCHANGED <<subscribed, accepted, elsewhere, online, asked, replies>>
  BY DEF FriendRequestArrives, Between, queryVars
<1>2. /\ pending \in Seq(Request)
      /\ IsInjective(pending)
      /\ Len(pending) \in Nat
      /\ Range(pending) \cap accepted = {}
  BY LenProperties DEF IInv, TypeOK
<1>3. /\ pending' \in Seq(Request)
      /\ Len(pending') = Len(pending) + 1
      /\ IsInjective(pending')
      /\ Range(pending') \subseteq Range(pending) \cup {r}
  BY <1>1, <1>2, AppendNew
<1>4. Range(pending') \cap accepted' = {}
  BY <1>1, <1>2, <1>3
<1>5. announced' \in SUBSET Request
  BY DEF FriendRequestArrives, IInv, TypeOK
<1>6. CoreOK'
  BY <1>1, <1>3, <1>4, <1>5 DEF CoreOK, IInv, TypeOK
<1>7. PICK x \in Ipc!IpcEvent :
        /\ Posts(x) /\ IpcInv'
        /\ Account \/ UNCHANGED lost
        /\ Sound(x, asked)
        /\ x \notin Nameless
        /\ \A q : x \notin About(q)
  <2>1. CASE UNCHANGED ipcVars
    BY <2>1, Nothing, NeutralFacts
  <2>2. CASE ToApp(MistConfig, "friendRequest", NoOne)
    <3> DEFINE m == Item("CORE_TO_APP", MistConfig, "friendRequest", NoOne)
    <3>1. Ipc!Send("CORE_TO_APP", MistConfig, Msg("friendRequest", NoOne))
            /\ Account
      BY <2>2 DEF ToApp, Ipc!send_core_to_app
    <3>2. m \in Ipc!IpcEvent /\ Posts(m) /\ IpcInv'
      BY <3>1, Posting DEF Op, Who, App
    <3>3. m.data.op = "friendRequest"
      BY DEF Item, Msg
    <3> HIDE DEF m
    <3>4. Sound(m, asked) /\ m \notin Nameless /\ \A q : m \notin About(q)
      BY <3>3 DEF Sound, Nameless, About
    <3>5. QED
      BY <3>1, <3>2, <3>4
  <2>3. QED
    BY <2>1, <2>2 DEF FriendRequestArrives
<1>8. MessagesSound'
  BY <1>1, <1>7, SoundKept DEF IInv, TypeOK, IpcInv
<1>9. RequestsCovered' /\ NamelessCovered'
  <2>1. Len(pending') \in Nat /\ elsewhere \in Nat
    BY <1>2, <1>3 DEF IInv, TypeOK
  <2>2. RequestsCovered'
    BY <1>1, <1>2, <1>3, <1>7, <2>1, RequestsKept
  <2>3. NamelessCovered'
    BY <1>1, <1>7, NamelessKept
  <2>4. QED
    BY <2>2, <2>3
<1>10. QueriesSound'
  BY <1>1, <1>7, QueriesKept
<1>11. Flags'
  BY <1>1, <1>7, FlagsKept
<1>12. QED
  BY <1>6, <1>7, <1>8, <1>9, <1>10, <1>11, PartsNext DEF Invariants

LEMMA RemoteDecidesKeeps == IInv /\ RemoteDecides => IInv'
<1> SUFFICES ASSUME IInv, RemoteDecides
             PROVE  IInv'
  OBVIOUS
<1>1. PICK k \in DOMAIN pending :
        /\ pending' = RemoveAt(pending, k)
        /\ accepted' \in {accepted, accepted \cup {pending[k]}}
  BY DEF RemoteDecides
<1>2. /\ Between
      /\ elsewhere < MaxRemote
      /\ elsewhere' = elsewhere + 1
      /\ UNCHANGED <<ipcVars, subscribed, announced, online, asked, replies>>
  BY DEF RemoteDecides, Between, queryVars
<1>3. /\ pending \in Seq(Request)
      /\ IsInjective(pending)
      /\ Len(pending) \in Nat
      /\ DOMAIN pending = 1 .. Len(pending)
      /\ Range(pending) \cap accepted = {}
      /\ accepted \in SUBSET Request
      /\ elsewhere \in 0 .. MaxRemote
  BY LenProperties DEF IInv, TypeOK
<1>4. /\ pending' \in Seq(Request)
      /\ Len(pending') = Len(pending) - 1
      /\ IsInjective(pending')
      /\ Range(pending') \subseteq Range(pending) \ {pending[k]}
  BY <1>1, <1>3, RemoveAtFacts
<1>5. elsewhere' \in 0 .. MaxRemote
  BY <1>2, <1>3
<1>6. CoreOK'
  <2>1. accepted' \in SUBSET Request
    BY <1>1, <1>3, ElementOfSeq
  <2>2. Range(pending') \cap accepted' = {}
    BY <1>1, <1>3, <1>4
  <2>3. QED
    BY <1>2, <1>4, <1>5, <2>1, <2>2 DEF CoreOK, IInv, TypeOK
<1>7. Posts(Neutral) /\ IpcInv' /\ UNCHANGED lost
  BY <1>2, Nothing
<1>8. MessagesSound'
  BY <1>2, <1>7, NeutralFacts, SoundKept DEF IInv, TypeOK, IpcInv
<1>9. RequestsCovered'
  <2>1. Len(pending') \in Nat /\ elsewhere' \in Nat
    BY <1>4, <1>5, LenProperties
  <2>2. Len(pending) + elsewhere <= Len(pending') + elsewhere'
    BY <1>2, <1>3, <1>4
  <2>3. event = NULL
    BY DEF RemoteDecides
  <2>4. QED
    BY <1>2, <1>3, <1>7, <2>1, <2>2, <2>3, NeutralFacts, RequestsKept
<1>10. NamelessCovered'
  <2>1. Waiting' = Waiting
    BY <1>2 DEF Waiting, Between, ipcVars
  <2>2. Waiting \in Seq(Ipc!IpcEvent)
    BY ListFacts DEF Waiting, RemoteDecides, IInv, TypeOK, IpcInv
  <2>3. Count(Waiting, Nameless) \in Nat
    BY <2>2, CountType
  <2>4. Count(Waiting, Nameless) <= elsewhere'
    BY <1>2, <1>3, <2>3 DEF IInv, NamelessCovered
  <2>5. QED
    BY <2>1, <2>4 DEF NamelessCovered, Nameless, Ipc!IpcEvent
<1>11. QueriesSound'
  BY <1>2, <1>7, NeutralFacts, QueriesKept
<1>12. Flags'
  BY <1>2, <1>7, FlagsKept
<1>13. QED
  BY <1>6, <1>7, <1>8, <1>9, <1>10, <1>11, <1>12, PartsNext DEF Invariants

LEMMA QueryKeeps ==
  ASSUME IInv, NEW p \in Query, QueryArrives(p)
  PROVE  IInv'
<1>1. PICK question \in Question :
        /\ question.app \in online
        /\ asked' = [asked EXCEPT ![p] = question]
        /\ ToApp(question.app, question.op, p)
  BY DEF QueryArrives
<1>2. /\ Between
      /\ event = NULL
      /\ asked[p] = NULL
      /\ UNCHANGED <<friendVars, online, replies>>
  BY DEF QueryArrives, Between
<1>3. /\ asked \in [Query -> Question \cup {NULL}]
      /\ asked'[p] = question
      /\ \A q \in Query : q # p => asked'[q] = asked[q]
      /\ question # NULL
  BY <1>1 DEF IInv, TypeOK
<1>4. CoreOK'
  BY <1>1, <1>2 DEF CoreOK, IInv, TypeOK, friendVars
<1>5. question.op \in {"read", "invoke"} /\ question.app \in App
  BY <1>1 DEF Question, IInv, TypeOK
<1> DEFINE x == Item("CORE_TO_APP", question.app, question.op, p)
<1>6. /\ Ipc!Send("CORE_TO_APP", question.app, Msg(question.op, p))
      /\ Account
  BY <1>1 DEF ToApp, Ipc!send_core_to_app
<1>7. x \in Ipc!IpcEvent /\ Posts(x) /\ IpcInv'
  BY <1>5, <1>6, Posting DEF Op, Who
<1>8. x.data.op = question.op /\ x.data.who = p /\ x.app = question.app
  BY DEF Item, Msg
<1> HIDE DEF x
<1>9. Sound(x, asked')
  BY <1>3, <1>5, <1>8 DEF Sound
<1>10. /\ x \notin Chain /\ x \notin Nameless
       /\ \A q : x \in About(q) => q = p
  BY <1>5, <1>8 DEF Chain, Nameless, About
<1>11. MessagesSound'
  <2>1. ASSUME NEW e \in Ipc!IpcEvent, Sound(e, asked)
        PROVE  Sound(e, asked')
    <3>1. ASSUME NEW q \in Query, asked[q] \in Question
          PROVE  asked'[q] = asked[q]
      <4>1. q # p
        BY <1>2, <3>1
      <4>2. QED
        BY <1>3, <4>1
    <3>2. CASE e.data.op = "read"
      BY <2>1, <3>1, <3>2 DEF Sound
    <3>3. CASE e.data.op = "readResponse"
      <4>1. /\ e.data.who \in ReplyTo
            /\ Fits(e.data.who.reply, asked[e.data.who.query])
        BY <2>1, <3>3 DEF Sound
      <4>2. /\ e.data.who.query \in Query
            /\ asked[e.data.who.query] \in Question
        BY <4>1 DEF ReplyTo, Fits
      <4>3. asked'[e.data.who.query] = asked[e.data.who.query]
        BY <3>1, <4>2
      <4>4. QED
        BY <3>3, <4>1, <4>3 DEF Sound
    <3>4. CASE e.data.op \notin {"read", "readResponse"}
      BY <2>1, <3>4 DEF Sound
    <3>5. QED
      BY <3>2, <3>3, <3>4
  <2>2. QED
    BY <1>7, <1>9, <2>1, SoundKept DEF IInv, TypeOK, IpcInv
<1>12. RequestsCovered' /\ NamelessCovered'
  <2>1. /\ UNCHANGED <<pending, elsewhere>>
        /\ Len(pending) \in Nat /\ elsewhere \in Nat
    BY <1>2, LenProperties DEF friendVars, IInv, TypeOK
  <2>2. RequestsCovered'
    BY <1>2, <1>7, <1>10, <2>1, RequestsKept
  <2>3. NamelessCovered'
    BY <1>2, <1>7, <1>10, <2>1, NamelessKept
  <2>4. QED
    BY <2>2, <2>3
<1>13. QueriesSound'
  <2> SUFFICES ASSUME NEW q \in Query
               PROVE  /\ Count(Waiting', About(q)) + Len(replies[q]) <= 1
                      /\ asked'[q] = NULL =>
                           Count(Waiting', About(q)) + Len(replies[q]) = 0
                      /\ \A i \in 1 .. Len(replies[q]) :
                           Fits(replies[q][i], asked'[q])
    BY <1>2 DEF QueriesSound, About, Ipc!IpcEvent
  <2> DEFINE new == Count(Waiting', About(q))
             old == Count(Waiting, About(q))
  <2>1. /\ new \in Nat /\ old \in Nat
        /\ new <= old + (IF x \in About(q) THEN 1 ELSE 0)
    <3>1. /\ new \in Nat /\ old \in Nat
          /\ new <= old - (IF event # NULL /\ event \in About(q) THEN 1 ELSE 0)
                      + (IF x \in About(q) THEN 1 ELSE 0)
      BY <1>2, <1>7, Counting DEF IInv, TypeOK, IpcInv
    <3> HIDE DEF new, old
    <3>2. QED
      BY <1>2, <3>1
  <2>2. /\ old + Len(replies[q]) <= 1
        /\ asked[q] = NULL => old + Len(replies[q]) = 0
        /\ \A i \in 1 .. Len(replies[q]) : Fits(replies[q][i], asked[q])
    BY DEF IInv, QueriesSound
  <2>3. Len(replies[q]) \in Nat
    BY LenProperties DEF IInv, TypeOK
  <2> HIDE DEF new, old
  <2>4. CASE q = p
    <3>1. old + Len(replies[q]) = 0
      BY <1>2, <2>2, <2>4
    <3>2. Len(replies[q]) = 0 /\ new <= 1
      BY <2>1, <2>3, <3>1
    <3>3. asked'[q] # NULL
      BY <1>3, <2>4
    <3>4. QED
      BY <2>1, <3>2, <3>3 DEF new
  <2>5. CASE q # p
    <3>1. asked'[q] = asked[q] /\ new <= old
      BY <1>3, <1>10, <2>1, <2>5
    <3>2. /\ new + Len(replies[q]) <= 1
          /\ asked[q] = NULL => new + Len(replies[q]) = 0
      BY <2>1, <2>2, <2>3, <3>1
    <3>3. QED
      BY <2>2, <3>1, <3>2 DEF new
  <2>6. QED
    BY <2>4, <2>5
<1>14. Flags'
  BY <1>2, <1>6, FlagsKept
<1>15. QED
  BY <1>4, <1>7, <1>11, <1>12, <1>13, <1>14, PartsNext DEF Invariants

(* The steps of port_service_ipc_task itself.                              *)

LEMMA TaskCallsKeeps == IInv /\ TaskCalls => IInv'
<1> SUFFICES ASSUME IInv, TaskCalls
             PROVE  IInv'
  OBVIOUS
<1>1. /\ Ipc!TaskCalls
      /\ event = NULL
      /\ ~answered'
      /\ UNCHANGED <<ipc_event_queue, lost, coreVars>>
  BY DEF TaskCalls, Ipc!TaskCalls
<1>2. IpcInv'
  BY <1>1, IpcKept DEF Ipc!Next, IInv, TypeOK, IpcInv
<1>3. Waiting' = Waiting
  BY <1>1 DEF Waiting
<1>4. CoreOK' /\ UNCHANGED <<pending, elsewhere, asked, replies>>
  BY <1>1, CoreUnchanged
<1>5. Invariants'
  BY <1>1, <1>3, <1>4, Stutters
<1>6. Flags'
  BY DEF TaskCalls, Flags, IInv, TypeOK
<1>7. QED
  BY <1>2, <1>4, <1>5, <1>6, PartsNext

LEMMA TaskReturnsKeeps == IInv /\ TaskReturns => IInv'
<1> SUFFICES ASSUME IInv, TaskReturns
             PROVE  IInv'
  OBVIOUS
<1> DEFINE Q == ipc_event_queue
<1>1. /\ Ipc!TaskReturns
      /\ event # NULL /\ event' = NULL /\ answered
      /\ Q' = Tail(Q)
      /\ UNCHANGED <<answered, lost, coreVars>>
  BY DEF TaskReturns, Ipc!TaskReturns
<1>2. IpcInv'
  BY <1>1, IpcKept DEF Ipc!Next, IInv, TypeOK, IpcInv
<1>3. Waiting' = Waiting
  BY <1>1 DEF Waiting
<1>4. CoreOK' /\ UNCHANGED <<pending, elsewhere, asked, replies>>
  BY <1>1, CoreUnchanged
<1>5. \A i \in 1 .. Len(Q') : \E j \in 1 .. Len(Q) : Q'[i] = Q[j]
  <2>1. Q \in Seq(Ipc!IpcEvent) /\ Q # <<>> /\ Len(Q) \in Nat
    BY <1>1, ListFacts DEF IInv, TypeOK, IpcInv
  <2>2. Len(Q') = Len(Q) - 1 /\ \A i \in 1 .. Len(Q') : Q'[i] = Q[i + 1]
    BY <1>1, <2>1, HeadTailProperties
  <2>3. QED
    BY <2>1, <2>2
<1>6. Invariants'
  BY <1>3, <1>4, <1>5, Stutters
<1>7. Flags'
  BY <1>1 DEF Flags, IInv, TypeOK
<1>8. QED
  BY <1>2, <1>4, <1>6, <1>7, PartsNext

LEMMA NothingKeeps ==
  ASSUME IInv, UNCHANGED vars
  PROVE  IInv'
<1>1. UNCHANGED <<ipc_event_queue, event, answered, lost, coreVars>>
  BY DEF vars, ipcVars
<1>2. UNCHANGED Ipc!vars
  BY DEF vars, ipcVars, Ipc!vars
<1>3. IpcInv'
  BY <1>2, IpcKept DEF Ipc!Next, IInv, TypeOK, IpcInv
<1>4. Waiting' = Waiting
  BY <1>1 DEF Waiting
<1>5. CoreOK' /\ UNCHANGED <<pending, elsewhere, asked, replies>>
  BY <1>1, CoreUnchanged
<1>6. Invariants'
  BY <1>1, <1>4, <1>5, Stutters
<1>7. Flags'
  BY <1>1 DEF Flags, IInv, TypeOK
<1>8. QED
  BY <1>3, <1>5, <1>6, <1>7, PartsNext

-----------------------------------------------------------------------------

LEMMA InitIInv == Init => IInv
<1> SUFFICES ASSUME Init
             PROVE  IInv
  OBVIOUS
<1> DEFINE a == Login(MistConfig)
           b == Login(Sensors)
<1>1. /\ a \in Ipc!IpcEvent /\ b \in Ipc!IpcEvent
      /\ a.data.op = "login" /\ b.data.op = "login"
  BY DEF Login, Msg, Ipc!IpcEvent, Message, Op, App
<1>2. /\ ipc_event_queue = <<a, b>>
      /\ event = NULL
      /\ heap = 2 * Len(<<a, b>>)
  BY DEF Init, Ipc!InitWith
<1> HIDE DEF a, b
<1>3. <<a, b>> \in Seq(Ipc!IpcEvent) /\ Len(<<a, b>>) = 2
  BY <1>1
<1>4. IpcInv
  BY <1>2, <1>3 DEF IpcInv, Ipc!TypeOK, Ipc!MessagesHaveMemory
<1>5. Flags
  BY DEF Init, Flags
<1>6. CoreOK
  <2>1. pending = <<>> /\ accepted = {}
    BY DEF Init
  <2>2. pending \in Seq(Request) /\ IsInjective(pending)
    BY <2>1, EmptySeq DEF IsInjective
  <2>3. Range(pending) \cap accepted = {}
    BY <2>1
  <2>4. replies \in [Query -> Seq(SomeReply)]
    BY EmptySeq DEF Init
  <2>5. elsewhere \in 0 .. MaxRemote
    BY DEF Init
  <2>6. QED
    BY <2>2, <2>3, <2>4, <2>5 DEF Init, CoreOK
<1>7. MessagesSound
  <2>1. \A i \in 1 .. 2 : <<a, b>>[i].data.op = "login"
    BY <1>1
  <2>2. QED
    BY <1>2, <1>3, <2>1 DEF MessagesSound, Sound
<1>8. ASSUME NEW S, a \notin S, b \notin S
      PROVE  Count(Waiting, S) = 0
  <2>1. Positions(<<a, b>>, S) = {}
    BY <1>3, <1>8 DEF Positions
  <2>2. Waiting = <<a, b>>
    BY <1>2 DEF Waiting
  <2>3. QED
    BY <2>1, <2>2, FS_EmptySet DEF Count
<1>9. RequestsCovered /\ NamelessCovered
  <2>1. Count(Waiting, Chain) = 0
    BY <1>1, <1>8 DEF Chain
  <2>2. Count(Waiting, Nameless) = 0
    BY <1>1, <1>8 DEF Nameless
  <2>3. Len(pending) = 0 /\ elsewhere = 0
    BY EmptySeq DEF Init
  <2>4. QED
    BY <2>1, <2>2, <2>3 DEF RequestsCovered, NamelessCovered
<1>10. QueriesSound
  <2>1. \A q \in Query : Count(Waiting, About(q)) = 0
    BY <1>1, <1>8 DEF About
  <2>2. \A q \in Query : replies[q] = <<>> /\ Len(replies[q]) = 0
    BY EmptySeq DEF Init
  <2>3. QED
    BY <2>1, <2>2 DEF QueriesSound
<1>11. QED
  BY <1>4, <1>5, <1>6, <1>7, <1>9, <1>10, Parts DEF Invariants

LEMMA StepIInv == IInv /\ [Next]_vars => IInv'
BY CoreLoginKeeps, CoreSignalsKeeps, CoreListKeeps, CoreAcceptKeeps,
   CoreReadResponseKeeps, PlainReceiversKeep, SignalKeeps, ListCallbackKeeps,
   AnswerReadKeeps, PeriodicKeeps, FriendRequestKeeps, QueryKeeps,
   RemoteDecidesKeeps, TaskCallsKeeps, TaskReturnsKeeps, NothingKeeps
   DEF Next, PortServiceIpcTask

LEMMA Invariance == Spec => []IInv
BY InitIInv, StepIInv, PTL DEF Spec

(* The list, the heap, the core's requests and queries keep their types;   *)
(* no request is there twice, and none that has been accepted is still     *)
(* there (port_service_ipc.c:38-145, mist_config.c:242-329).               *)
THEOREM TypeCorrect == Spec => []TypeOK
BY Invariance, PTL DEF IInv

(* What ServiceIpc promises of the list holds under the applications too:  *)
(* every message has its two blocks, and the one being received stays at   *)
(* the head while its receiver sends (port_service_ipc.c:38-145).          *)
THEOREM MemoryInApps == Spec => []Ipc!MessagesHaveMemory
BY Invariance, PTL DEF IInv

(* friend_request_list_cb accepts NULL in place of a request, because the  *)
(* list it gets is empty, no more often than requests are decided by       *)
(* remote management, for any number of requests and whatever messages are *)
(* dropped (mist_config.c:246-247, 279-280, wish_port_config.h:33-35).     *)
THEOREM AcceptsSomeoneAlways == Spec => []AcceptsSomeone
<1>1. IInv => AcceptsSomeone
  <2> SUFFICES ASSUME IInv
               PROVE  AcceptsSomeone
    OBVIOUS
  <2> DEFINE Q == ipc_event_queue
             P == Positions(Q, Nameless)
  <2>1. /\ Q \in Seq(Ipc!IpcEvent)
        /\ Len(Q) \in Nat
        /\ DOMAIN Q = 1 .. Len(Q)
        /\ \A i \in 1 .. Len(Q) : Q[i] \in Ipc!IpcEvent
        /\ event # NULL => Q # <<>>
    BY ListFacts, LenProperties, ElementOfSeq DEF IInv, TypeOK, IpcInv
  <2>2. Nobody = P \cap Undone
    BY <2>1 DEF Nobody, Undone, Positions, Nameless
  <2>3. Cardinality(Nobody) = Count(Waiting, Nameless)
    <3>1. CASE event # NULL /\ answered
      <4>1. Nobody = P \ {1}
        BY <2>1, <2>2, <3>1 DEF Undone, Positions
      <4>2. Waiting = Tail(Q) /\ Q # <<>>
        BY <2>1, <3>1 DEF Waiting
      <4>3. IsFiniteSet(P) /\ Cardinality(P) \in Nat
        BY <2>1, CountType DEF Count
      <4>4. Cardinality(P \ {1}) =
              IF 1 \in P THEN Cardinality(P) - 1 ELSE Cardinality(P)
        BY <4>3, FS_RemoveElement
      <4>5. 1 \in P <=> Head(Q) \in Nameless
        BY <2>1, <4>2, EmptySeq, HeadTailProperties DEF Positions
      <4>6. Cardinality(P) =
              Count(Tail(Q), Nameless) + (IF Head(Q) \in Nameless THEN 1 ELSE 0)
        BY <2>1, <4>2, CountTail DEF Count
      <4>7. Count(Tail(Q), Nameless) \in Nat
        BY <2>1, <4>2, HeadTailProperties, CountType
      <4> HIDE DEF P
      <4>8. QED
        BY <4>1, <4>2, <4>3, <4>4, <4>5, <4>6, <4>7
    <3>2. CASE ~(event # NULL /\ answered)
      <4>1. Nobody = P
        BY <2>1, <2>2, <3>2 DEF Undone, Positions
      <4>2. Waiting = Q
        BY <3>2 DEF Waiting
      <4>3. QED
        BY <4>1, <4>2 DEF Count
    <3>3. QED
      BY <3>1, <3>2
  <2>4. QED
    BY <2>3 DEF AcceptsSomeone, IInv, NamelessCovered
<1>2. QED
  BY Invariance, <1>1, PTL

(* A query gets one answer at most, about the endpoint asked for by its    *)
(* full id, with a datum or an error, although plain ids are compared and  *)
(* sent (mist_config.c:52, xdk_sensors.c:63, 78), for any number of        *)
(* queries under way and whatever messages are dropped.                    *)
THEOREM AnswersFitAlways == Spec => []AnswersFit
<1>1. IInv => AnswersFit
  <2> SUFFICES ASSUME IInv, NEW q \in Query
               PROVE  /\ Len(replies[q]) <= 1
                      /\ \A i \in DOMAIN replies[q] :
                           /\ asked[q] # NULL /\ asked[q].op = "read"
                           /\ replies[q][i].epid =
                                mist_ep_full_epid(asked[q].app, asked[q].ep)
                           /\ replies[q][i].data # NoData
    BY DEF AnswersFit
  <2>1. /\ replies[q] \in Seq(SomeReply)
        /\ Len(replies[q]) \in Nat
        /\ DOMAIN replies[q] = 1 .. Len(replies[q])
    BY LenProperties DEF IInv, TypeOK
  <2>2. Count(Waiting, About(q)) \in Nat
    <3>1. Waiting \in Seq(Ipc!IpcEvent)
      BY ListFacts, HeadTailProperties DEF Waiting, IInv, TypeOK, IpcInv
    <3>2. QED
      BY <3>1, CountType
  <2>3. Len(replies[q]) <= 1
    BY <2>1, <2>2 DEF IInv, QueriesSound
  <2>4. \A i \in 1 .. Len(replies[q]) : Fits(replies[q][i], asked[q])
    BY DEF IInv, QueriesSound
  <2>5. QED
    BY <2>1, <2>3, <2>4 DEF Fits
<1>2. QED
  BY Invariance, <1>1, PTL

-----------------------------------------------------------------------------
(* The list under the applications is a list of ServiceIpc.                *)

LEMMA SendIsStep ==
  ASSUME NEW app \in App, NEW op \in Op, NEW who \in Who,
         ToCore(app, op, who) \/ ToApp(app, op, who)
  PROVE  Ipc!Next
<1>1. Msg(op, who) \in Message
  BY DEF Msg, Message, Who
<1>2. Ipc!send_app_to_core(app, Msg(op, who))
        \/ Ipc!send_core_to_app(app, Msg(op, who))
  BY DEF ToCore, ToApp
<1>3. QED
  BY <1>1, <1>2 DEF Ipc!Next

LEMMA CoreIsStep ==
  ASSUME IInv, CoreLogin \/ CoreSignals \/ CoreList \/ CoreAccept
                 \/ CoreReadResponse \/ CoreChanged
  PROVE  Ipc!Next \/ UNCHANGED Ipc!vars
<1>1. CASE CoreLogin
  <2>1. event.app \in App
    BY <1>1, Receiving DEF CoreLogin, CoreReceives
  <2>2. QED
    BY <1>1, <2>1, SendIsStep DEF CoreLogin, Op, Who
<1>2. CASE CoreSignals
  BY <1>2, SendIsStep DEF CoreSignals, Op, Who, App
<1>3. CASE CoreList
  <2> DEFINE who == IF pending = <<>> THEN NoOne ELSE Head(pending)
  <2>1. who \in Who
    BY HeadTailProperties DEF Who, IInv, TypeOK
  <2>2. ToApp(MistConfig, "list", who)
    BY <1>3 DEF CoreList
  <2> HIDE DEF who
  <2>3. QED
    BY <2>1, <2>2, SendIsStep DEF Op, App
<1>4. CASE CoreAccept
  BY <1>4, SendIsStep DEF CoreAccept, Op, Who, App
<1>5. CASE CoreReadResponse \/ CoreChanged
  BY <1>5 DEF CoreReadResponse, CoreChanged, ipcVars, Ipc!vars
<1>6. QED
  BY <1>1, <1>2, <1>3, <1>4, <1>5

LEMMA AppIsStep ==
  ASSUME IInv, init_app \/ Sensors_init_app \/ signals_cb
                 \/ friend_request_list_cb \/ friend_request_accept_cb
                 \/ AnswerRead \/ wifi_invoke
  PROVE  Ipc!Next \/ UNCHANGED Ipc!vars
<1>1. CASE init_app
  BY <1>1, SendIsStep DEF init_app, Op, Who, App
<1>2. CASE signals_cb
  BY <1>2, SendIsStep
     DEF signals_cb, make_friend_request_list, Op, Who, App, ipcVars, Ipc!vars
<1>3. CASE friend_request_list_cb
  <2>1. event.data.who \in Who
    BY <1>3, Receiving DEF friend_request_list_cb, AppReceives
  <2>2. QED
    BY <1>3, <2>1, SendIsStep DEF friend_request_list_cb, Op, App
<1>4. CASE AnswerRead
  <2> DEFINE p == event.data.who
  <2>1. /\ event.app \in App
        /\ p \in Query
        /\ asked[p] \in Question
        /\ asked[p].op = "read"
        /\ asked[p].app = event.app
    BY <1>4, Receiving DEF AnswerRead, AppReceives, Sound
  <2>2. PICK reply \in Answers(event.app, asked[p].ep) :
          ToCore(event.app, "readResponse", [query |-> p, reply |-> reply])
    BY <1>4 DEF AnswerRead
  <2>3. reply \in SomeReply
    BY <2>1, <2>2, AnswersFitQuestions
  <2>4. [query |-> p, reply |-> reply] \in Who
    BY <2>1, <2>3 DEF Who, ReplyTo
  <2>5. QED
    BY <2>1, <2>2, <2>4, SendIsStep DEF Op
<1>5. CASE Sensors_init_app \/ friend_request_accept_cb \/ wifi_invoke
  BY <1>5 DEF Sensors_init_app, friend_request_accept_cb, wifi_invoke,
              ipcVars, Ipc!vars
<1>6. QED
  BY <1>1, <1>2, <1>3, <1>4, <1>5

LEMMA ListStep == IInv /\ [Next]_vars => [Ipc!Next]_(Ipc!vars)
<1> SUFFICES ASSUME IInv, [Next]_vars
             PROVE  Ipc!Next \/ UNCHANGED Ipc!vars
  OBVIOUS
<1>1. CASE TaskCalls \/ TaskReturns \/ RemoteDecides
  BY <1>1 DEF TaskCalls, TaskReturns, RemoteDecides, ipcVars, Ipc!vars, Ipc!Next
<1>2. ASSUME NEW r \in Request, FriendRequestArrives(r)
      PROVE  Ipc!Next \/ UNCHANGED Ipc!vars
  BY <1>2, SendIsStep
     DEF FriendRequestArrives, Op, Who, App, ipcVars, Ipc!vars
<1>3. ASSUME NEW q \in Query, QueryArrives(q)
      PROVE  Ipc!Next
  <2>1. PICK question \in Question :
          /\ question.app \in online
          /\ ToApp(question.app, question.op, q)
    BY <1>3 DEF QueryArrives
  <2>2. question.app \in App /\ question.op \in Op
    BY <2>1 DEF Question, Op, IInv, TypeOK
  <2>3. QED
    BY <2>1, <2>2, SendIsStep DEF Who
<1>4. CASE xdk_sensors_periodic
  BY <1>4, SendIsStep DEF xdk_sensors_periodic, Op, Who, App
<1>5. CASE UNCHANGED vars
  BY <1>5 DEF vars, ipcVars, Ipc!vars
<1>6. QED
  BY <1>1, <1>2, <1>3, <1>4, <1>5, CoreIsStep, AppIsStep
     DEF Next, PortServiceIpcTask

(* The core, MistConfig and Sensors share one list; from the two logins on *)
(* what is not dropped is received once, unchanged, in the order in which  *)
(* it was sent, whichever of the three sent it (port_service_ipc.c:38-145).*)
THEOREM OrderInApps == Spec => [][Ipc!Fifo!Next]_(Ipc!Fifo!vars)
<1>1. IInv /\ [Next]_vars => [Ipc!Fifo!Next]_(Ipc!Fifo!vars)
  <2> SUFFICES ASSUME IInv, [Next]_vars
               PROVE  [Ipc!Fifo!Next]_(Ipc!Fifo!vars)
    OBVIOUS
  <2>1. IpcP!IInv /\ [IpcP!Next]_(IpcP!vars)
    BY ListStep, SameIpc DEF IpcInv, IInv, TypeOK
  <2>2. [IpcP!Fifo!Next]_(IpcP!Fifo!vars)
    BY <2>1, IpcP!StepIsFifo
  <2>3. QED
    BY <2>2
       DEF IpcP!Fifo!Next, Ipc!Fifo!Next, IpcP!Fifo!vars, Ipc!Fifo!vars,
           IpcP!Fifo!Raise, Ipc!Fifo!Raise, IpcP!Fifo!Serve, Ipc!Fifo!Serve,
           IpcP!Fifo!Done, Ipc!Fifo!Done, IpcP!IpcEvent, Ipc!IpcEvent
<1>2. QED
  BY Invariance, <1>1, PTL DEF Spec
=============================================================================
