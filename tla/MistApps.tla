------------------------------- MODULE MistApps -------------------------------
(***************************************************************************)
(* The two built-in applications over the service IPC (mist_config.c,      *)
(* xdk_sensors.c, port_service_ipc.c).  Each arrow between an application  *)
(* and the core is a message through the one list of ServiceIpc, so that   *)
(* everything interleaves.                                                 *)
(*                                                                         *)
(* MistConfig accepts friend requests: it subscribes to the core's         *)
(* signals; on the signal "friendRequest" it asks for the list of          *)
(* requests; it accepts the first request of the list it gets.  Both       *)
(* applications answer what peers ask of their endpoints (Endpoints), and  *)
(* Sensors reports once a second that a value has changed.  The core's     *)
(* side, which is not in the repository, is as the applications take it;   *)
(* somebody else may decide a request too, since the port is configured    *)
(* with WISH_REMOTE_MANAGEMENT (wish_port_config.h:33-35).                 *)
(***************************************************************************)
EXTENDS Integers, Sequences, FiniteSets, SequencesExt, Endpoints

CONSTANTS
  Request,     \* the friend requests remote users make
  Query,       \* the reads and invocations remote peers make
  NoOne,       \* a message that names nobody; the NULL luid and ruid
  MaxChanged,  \* bound: reports of changed values in the list at a time
  MaxRemote,   \* bound: decisions made by remote management
  NULL, HeapBlocks

Op == {"login", "ready", "signals", "otherSignal", "friendRequest",
       "friendRequestList", "list", "friendRequestAccept", "accepted",
       "read", "invoke", "readResponse", "changed"}

SomeReply == UNION {Answers(q.app, q.ep) : q \in {p \in Question : p.op = "read"}}
ReplyTo == [query : Query, reply : SomeReply]

Message == [op : Op, who : Request \cup {NoOne} \cup Query \cup ReplyTo]

(* The logins of both applications find memory. *)
ASSUME MistAppsAssumption ==
  /\ MistConfig # Sensors
  /\ NoOne \notin Request
  /\ NULL \notin [type : {"APP_TO_CORE", "CORE_TO_APP"}, app : App, data : Message]
  /\ NULL \notin Question
  /\ HeapBlocks \in Nat /\ HeapBlocks >= 4
  /\ MaxRemote \in Nat

VARIABLES
  ipc_event_queue, event, heap,  \* ServiceIpc's
  answered,    \* the receiver that was called has done its work
  subscribed,  \* the core has MistConfig's request for signals
  pending,     \* the core's friend requests, oldest first
  announced,   \* history: the requests the core has sent a signal for
  accepted,    \* the requests that have become friends
  elsewhere,   \* history: the requests decided by remote management
  online,      \* the applications that have logged in
  asked,       \* what each query asks, or NULL
  replies,     \* history: the answers the core got to each query
  lost         \* history: a message has been dropped

ipcVars == <<ipc_event_queue, event, heap, lost>>
friendVars == <<subscribed, pending, announced, accepted, elsewhere>>
queryVars == <<online, asked, replies>>
coreVars == <<friendVars, queryVars>>
vars == <<ipcVars, answered, coreVars>>

Ipc == INSTANCE ServiceIpc WITH Data <- Message

TypeOK ==
  /\ Ipc!TypeOK
  /\ answered \in BOOLEAN /\ subscribed \in BOOLEAN /\ lost \in BOOLEAN
  /\ pending \in Seq(Request) /\ IsInjective(pending)
  /\ announced \in SUBSET Request
  /\ accepted \in SUBSET Request
  /\ elsewhere \in 0 .. MaxRemote
  /\ online \in SUBSET App
  /\ asked \in [Query -> Question \cup {NULL}]
  /\ replies \in [Query -> Seq(SomeReply)]
  /\ Range(pending) \cap accepted = {}

Msg(op, who) == [op |-> op, who |-> who]

Login(app) ==
  [type |-> "APP_TO_CORE", app |-> app, data |-> Msg("login", NoOne)]

(* Both applications end their start with wish_app_connected: a login. *)
Init ==
  /\ Ipc!InitWith(<<Login(MistConfig), Login(Sensors)>>)
  /\ answered = FALSE
  /\ subscribed = FALSE
  /\ pending = <<>> /\ announced = {} /\ accepted = {} /\ elsewhere = 0
  /\ online = {}
  /\ asked = [q \in Query |-> NULL]
  /\ replies = [q \in Query |-> <<>>]
  /\ lost = FALSE

Account == lost' = (lost \/ UNCHANGED ipc_event_queue)

ToCore(app, op, who) == Ipc!send_app_to_core(app, Msg(op, who)) /\ Account
ToApp(app, op, who) == Ipc!send_core_to_app(app, Msg(op, who)) /\ Account

-----------------------------------------------------------------------------
(* The core                                                                *)

(* A request comes in over a connection, while the loop drains events. *)
FriendRequestArrives(r) ==
  /\ event = NULL
  /\ r \notin Range(pending) \cup accepted
  /\ pending' = Append(pending, r)
  /\ \/ ~subscribed /\ UNCHANGED <<ipcVars, announced>>
     \/ /\ subscribed
        /\ ToApp(MistConfig, "friendRequest", NoOne)
        /\ announced' = announced \cup {r}
  /\ UNCHANGED <<answered, subscribed, accepted, elsewhere, queryVars>>

(* Remote management accepts or declines a request, without a signal. *)
RemoteDecides ==
  /\ event = NULL
  /\ elsewhere < MaxRemote
  /\ \E i \in DOMAIN pending :
       /\ pending' = RemoveAt(pending, i)
       /\ accepted' \in {accepted, accepted \cup {pending[i]}}
  /\ elsewhere' = elsewhere + 1
  /\ UNCHANGED <<ipcVars, answered, subscribed, announced, queryVars>>

(* The core is the receiver of a message with this op. *)
CoreReceives(op) ==
  /\ event # NULL /\ ~answered
  /\ event.type = "APP_TO_CORE" /\ event.data.op = op
  /\ answered' = TRUE

CoreLogin ==
  /\ CoreReceives("login")
  /\ online' = online \cup {event.app}
  /\ ToApp(event.app, "ready", NoOne)
  /\ UNCHANGED <<friendVars, asked, replies>>

CoreSignals ==
  /\ CoreReceives("signals")
  /\ subscribed' = TRUE
  /\ ToApp(MistConfig, "otherSignal", NoOne)
  /\ UNCHANGED <<pending, announced, accepted, elsewhere, queryVars>>

CoreList ==
  /\ CoreReceives("friendRequestList")
  /\ ToApp(MistConfig, "list", IF pending = <<>> THEN NoOne ELSE Head(pending))
  /\ UNCHANGED coreVars

(* Accepting a request that is gone is an error and changes nothing. *)
CoreAccept ==
  /\ CoreReceives("friendRequestAccept")
  /\ LET r == event.data.who IN
       \/ \E i \in DOMAIN pending :
            /\ pending[i] = r
            /\ pending' = RemoveAt(pending, i)
            /\ accepted' = accepted \cup {r}
       \/ r \notin Range(pending) /\ UNCHANGED <<pending, accepted>>
  /\ ToApp(MistConfig, "accepted", NoOne)
  /\ UNCHANGED <<subscribed, announced, elsewhere, queryVars>>

(* A peer asks something of an endpoint of an application. *)
QueryArrives(q) ==
  /\ event = NULL
  /\ asked[q] = NULL
  /\ \E question \in Question :
       /\ question.app \in online
       /\ asked' = [asked EXCEPT ![q] = question]
       /\ ToApp(question.app, question.op, q)
  /\ UNCHANGED <<answered, friendVars, online, replies>>

(* The core passes the answer on to the peer. *)
CoreReadResponse ==
  /\ CoreReceives("readResponse")
  /\ replies' = [replies EXCEPT ![event.data.who.query] =
                   Append(@, event.data.who.reply)]
  /\ UNCHANGED <<ipcVars, friendVars, online, asked>>

(* The core tells the peers that follow the application. *)
CoreChanged ==
  CoreReceives("changed") /\ UNCHANGED <<ipcVars, coreVars>>

-----------------------------------------------------------------------------
(* The applications                                                        *)

AppReceives(ops) ==
  /\ event # NULL /\ ~answered
  /\ event.type = "CORE_TO_APP" /\ event.data.op \in ops
  /\ answered' = TRUE
  /\ UNCHANGED coreVars

(* MistConfig asks for the core's signals. *)
init_app ==
  /\ AppReceives({"ready"})
  /\ event.app = MistConfig
  /\ ToCore(MistConfig, "signals", NoOne)

(* The function of the same name of xdk_sensors.c only prints. *)
Sensors_init_app ==
  /\ AppReceives({"ready"})
  /\ event.app = Sensors
  /\ UNCHANGED ipcVars

make_friend_request_list == ToCore(MistConfig, "friendRequestList", NoOne)

(* Mutant: every signal is taken for a friend request. *)
SignalsUnfiltered ==
  /\ AppReceives({"friendRequest", "otherSignal"})
  /\ make_friend_request_list

signals_cb ==
  /\ AppReceives({"friendRequest", "otherSignal"})
  /\ \/ event.data.op = "friendRequest" /\ make_friend_request_list
     \/ event.data.op # "friendRequest" /\ UNCHANGED ipcVars

(* Mutant: the requests are taken from a reply that has been freed. *)
ListCallbackReusesReply ==
  /\ AppReceives({"list"})
  /\ ToCore(MistConfig, "friendRequestAccept", NULL)

(* Mutant: the list is only looked at. *)
ListCallbackPrints ==
  /\ AppReceives({"list"})
  /\ UNCHANGED ipcVars

(* Only "data.0" is looked at; luid and ruid stay NULL if there is none. *)
friend_request_list_cb ==
  /\ AppReceives({"list"})
  /\ ToCore(MistConfig, "friendRequestAccept", event.data.who)

friend_request_accept_cb ==
  /\ AppReceives({"accepted"})
  /\ UNCHANGED ipcVars

(* Mutant: an error is not answered. *)
AnswerReadUnlessError ==
  /\ AppReceives({"read"})
  /\ LET q == event.data.who IN
       \E reply \in Answers(event.app, asked[q].ep) :
         IF reply.data = ApiError THEN UNCHANGED ipcVars
         ELSE ToCore(event.app, "readResponse", [query |-> q, reply |-> reply])

(* mist_read_response or mist_read_error, from inside the read function. *)
AnswerRead ==
  /\ AppReceives({"read"})
  /\ LET q == event.data.who IN
       \E reply \in Answers(event.app, asked[q].ep) :
         ToCore(event.app, "readResponse", [query |-> q, reply |-> reply])

(* The body is compiled out: no answer, and no error either. *)
wifi_invoke ==
  /\ AppReceives({"invoke"})
  /\ UNCHANGED ipcVars

Changes == {i \in DOMAIN ipc_event_queue : ipc_event_queue[i].data.op = "changed"}

(* The main loop's one-second work: mist_value_changed. *)
xdk_sensors_periodic ==
  /\ event = NULL
  /\ Cardinality(Changes) < MaxChanged
  /\ ToCore(Sensors, "changed", NoOne)
  /\ UNCHANGED <<answered, coreVars>>

-----------------------------------------------------------------------------

TaskCalls ==
  Ipc!TaskCalls /\ answered' = FALSE /\ UNCHANGED <<lost, coreVars>>

TaskReturns ==
  answered /\ Ipc!TaskReturns /\ UNCHANGED <<answered, lost, coreVars>>

(* port_service_ipc_task, with the receivers it calls. *)
PortServiceIpcTask ==
  \/ TaskCalls
  \/ CoreLogin \/ CoreSignals \/ CoreList \/ CoreAccept
  \/ CoreReadResponse \/ CoreChanged
  \/ init_app \/ Sensors_init_app
  \/ signals_cb \/ friend_request_list_cb \/ friend_request_accept_cb
  \/ AnswerRead \/ wifi_invoke
  \/ TaskReturns

Next ==
  \/ PortServiceIpcTask
  \/ \E r \in Request : FriendRequestArrives(r)
  \/ \E q \in Query : QueryArrives(q)
  \/ RemoteDecides
  \/ xdk_sensors_periodic

Spec == Init /\ [][Next]_vars

(* The main loop calls port_service_ipc_task in every pass. *)
LiveSpec == Spec /\ WF_vars(PortServiceIpcTask)

-----------------------------------------------------------------------------

(* The messages whose receiver has not done its work yet. *)
Undone == {i \in DOMAIN ipc_event_queue : i = 1 /\ event # NULL => ~answered}

(* The lists and the acceptances among them that name nobody. *)
Nobody ==
  {i \in Undone :
     /\ ipc_event_queue[i].data.op \in {"list", "friendRequestAccept"}
     /\ ipc_event_queue[i].data.who = NoOne}

(***************************************************************************)
(* friend_request_list_cb accepts "data.0" without looking whether the     *)
(* list is empty; luid and ruid are then NULL, and 32 bytes are copied     *)
(* from there (mist_config.c:246-247, 279, 280).  That happens no more     *)
(* often than somebody else decides a request, however many requests       *)
(* arrive meanwhile and whatever messages are lost: of the signals,        *)
(* questions, lists and acceptances under way there are never more than    *)
(* requests pending and decided elsewhere.                                 *)
(***************************************************************************)
AcceptsSomeone == Cardinality(Nobody) <= elsewhere

(* A signal that the application has not handled yet. *)
SignalWaiting == \E i \in Undone : ipc_event_queue[i].data.op = "friendRequest"

(***************************************************************************)
(* As long as no message is dropped, a signal gets the oldest friend       *)
(* request accepted, unless remote management decides it first, even if    *)
(* several are handled at the same time (mist_config.c:242-329).           *)
(***************************************************************************)
SignalLeadsToAcceptance ==
  \A r \in Request :
    (pending # <<>> /\ Head(pending) = r /\ SignalWaiting)
      ~> (r \notin Range(pending) \/ lost)

(***************************************************************************)
(* "accepting friend request now!" (mist_config.c:328): when all messages  *)
(* have been received, none was dropped, and the core has sent a signal    *)
(* for every request, no request is left over.                             *)
(***************************************************************************)
AnnouncedAreAccepted ==
  ipc_event_queue = <<>> /\ ~lost /\ Range(pending) \subseteq announced
    => pending = <<>>

(***************************************************************************)
(* A query gets one answer at most, and it is about the endpoint asked     *)
(* for, by its full id, with a datum or an error.  wifi_read compares      *)
(* plain ids ("FIXME: should use full_epid in name comparisons",           *)
(* mist_config.c:52), and the error of sensor_read is sent with the plain  *)
(* id (xdk_sensors.c:78), in place of the full id; that does no harm in    *)
(* the two trees that are registered.                                      *)
(***************************************************************************)
AnswersFit ==
  \A q \in Query :
    /\ Len(replies[q]) <= 1
    /\ \A i \in DOMAIN replies[q] :
         /\ asked[q] # NULL /\ asked[q].op = "read"
         /\ replies[q][i].epid = mist_ep_full_epid(asked[q].app, asked[q].ep)
         /\ replies[q][i].data # NoData

(***************************************************************************)
(* As long as no message is dropped a read is answered, also when the      *)
(* sensor fails (xdk_sensors.c:77-80), whatever else is in the list.       *)
(***************************************************************************)
ReadsAnswered ==
  \A q \in Query :
    (asked[q] # NULL /\ asked[q].op = "read") ~> (replies[q] # <<>> \/ lost)
=============================================================================
