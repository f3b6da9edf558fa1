# Verification of the Wish/Mist port for the Bosch XDK

TLA+ models, TLC runs and TLAPS proofs for the code under `src/source`: the port
of the Wish core and the Mist API to the Bosch XDK (FreeRTOS, the TI SimpleLink
network processor). The Wish core, Mist, SPIFFS and the vendor's libraries are
submodules or SDK parts that the repository does not contain; they appear only
as the environment of the port.

## The system

One FreeRTOS task (`mist_task_init`) waits until the board has joined a WLAN and
then runs `port_main`: start-up, and a loop that never ends. All of Wish runs in
that task. What makes it hard is not threads but re-entrance: the loop calls the
core, and before the core returns it calls the port back, which opens and closes
sockets and queues events while the loop is in the middle of a pass whose
descriptor sets were computed earlier.

| component | source | state | operations | talks to |
|---|---|---|---|---|
| event queue | `mist_port/event.c` | ring of 40 events, two cursors, a counter | notify, get next | filled by the loop and the core, drained by the loop |
| connection sockets | `mist_port/port_net.c` | per context: `context_state`, `curr_transport_state`, `send_arg->sock_fd`; its ring of received bytes | open, open by name, close, connected, connect failed; set up the servers; adverts | called by the core; signals TCP events to it |
| relay client | `mist_port/relay_client.c` | per relay: `curr_state`, `sockfd`; one global relay address | open, close, send | called by the core; read by the loop |
| main loop | `mist_port/port_main.c` | descriptor sets, `max_fd`, two timestamps | one pass: select, discovery, relays, contexts, server, drain, periodic, IPC | everything |
| service IPC | `mist_port/port_service_ipc.c` | list of messages between core and app | send to core, send to app, one message per pass | the core, MistConfig |
| MistConfig | `apps/mist_config/mist_config.c` | requests under way, a tree of endpoints | signals, list and accept friend requests; read and invoke an endpoint | service IPC |
| Sensors | `apps/xdk_sensors/xdk_sensors.c` | a tree of endpoints | read an endpoint, report a change | service IPC, vendor API |
| start-up and WLAN | `mist-port-bosch-xdk.c`, `Main.c` | `once`, `network_init`, timer, command queue | scan, join, get an address | the Mist task |
| platform | `mist_port/port_platform.c` | core's identities | load identities, bindings | the file system |
| file system | `spiffs_integration.c`, `spiffs_config.h` | SPIFFS's cache, the flash | mount, open, read, write, close, erase | SPIFFS |
| address parsing | `mist_port/inet_aton.c` | none | `inet_aton` | sockets |
| time helper | `mist_port/time_helper.c` | none | subtract two times | nobody |

What makes each of them correct:

* event queue: nothing lost, repeated, reordered or changed under the reader,
  as long as the queue does not overflow; an overflow is reported and leaves the
  cursors consistent;
* connection sockets: a descriptor belongs to one party; it is closed by that
  party, together with the context, and a second `close` hits nobody;
* relay client: a relay uses and closes only its own socket although `sockfd` is
  never reset, and holds one socket;
* main loop: what `select` has reported is still true when it is used; a context
  is not released by the loop under an event that the port raised; the events fit
  in the ring; a connection being set up is eventually settled;
* streams: the bytes of a connection reach the core complete and in order, and
  every whole frame is processed, however it was cut up on the way;
* service IPC: a message that is not dropped is received once, in order, also when
  its receiver sends, and keeps its memory while sends fail half way;
* MistConfig: an acceptance names a request unless somebody else has decided one; a
  signal leads to one, and every request announced is accepted in the end;
* endpoints: a query gets one answer, about the endpoint that was asked;
* start-up: Wish gets started; the scan that brings the board into the WLAN does
  not come back under Wish's connections; the board makes itself one identity;
* the clock: the core's one-second work is done once for every second, for ever;
* addresses: what is printed and parsed again is the same address, in every byte
  order on the way;
* the flash: an erase hits one block of the file system and nothing else.

## Modules

| module | models | EXTENDS / INSTANCE |
|---|---|---|
| `EventFifo` | what the event ring and the IPC list promise: an unbounded FIFO with one event in service | |
| `EventQueue` | `event.c` and the pointer the drain loop holds into the ring | INSTANCE `EventFifo` (refinement) |
| `PortNet` | the connections' sockets: `port_net.c` and the branches of `port_main.c` that act on one connection | |
| `PortNetProofs` | theorems about `PortNet` | EXTENDS `PortNet` |
| `RelayClient` | `relay_client.c` and the branches of `port_main.c` that act on a relay | |
| `RelayClientProofs` | theorems about `RelayClient` | EXTENDS `RelayClient` |
| `MainLoop` | one pass of `port_main`'s loop, with the core's calls back into the port | INSTANCE `PortNet`, `RelayClient`, `EventFifo` |
| `MainLoopProofs` | theorems about `MainLoop` | EXTENDS `MainLoop`, INSTANCE `PortNetProofs`, `RelayClientProofs` |
| `ServiceIpc` | `port_service_ipc.c`: the list of messages between applications and core, and the heap it takes | INSTANCE `EventFifo` (refinement) |
| `ServiceIpcProofs` | theorems about `ServiceIpc` | EXTENDS `ServiceIpc` |
| `Endpoints` | the two applications' endpoints and what their read functions answer | |
| `MistApps` | the two applications and the core over the service IPC | EXTENDS `Endpoints`, INSTANCE `ServiceIpc` |
| `MistAppsProofs` | theorems about `MistApps` and `Endpoints` | EXTENDS `MistApps`, INSTANCE `ServiceIpcProofs` |
| `Streams` | the bytes of the connections, from the network processor through the core's ring to frames | |
| `StreamsProofs` | theorems about `Streams` | EXTENDS `Streams` |
| `Boot` | power-up, joining the WLAN, the file of the identities, the servers and applications, with failing calls and power | |
| `BootProofs` | theorems about `Boot` | EXTENDS `Boot` |
| `Periodic` | the seconds of the main loop and the work that compares them | |
| `Address` | IP addresses: printing, `inet_aton`, byte orders | |
| `FlashLayout` | where the file system lies and what it erases | |
| `TimeHelper` | `timeval_subtract` | |
| `ArithmeticProofs` | theorems about the five modules whose difficulty is arithmetic | EXTENDS `EventQueue`, `Periodic`, `Address`, `FlashLayout`, `TimeHelper` |
| `MC...` | the instances TLC checks | EXTENDS the module |

### EventQueue

`event_read`, `event_write`, `num_curr_events` and `events` are the variables of
`event.c`; `ev` is the pointer `port_main` holds while
`wish_message_processor_task` runs. `wish_get_next_event` releases the slot
before the event in it has been used, so the event in service lies in a slot the
ring regards as free. The refinement mapping reads the pending events off the
ring from `event_read` on, and the event in service through `ev`: an event that is
overwritten while it is being processed is a step `EventFifo` does not have. The
ring holds its promise only while pending events *and* the one in service fit
in it (`FitsRing`), one fewer than the code's overflow check allows; `MainLoop`
shows that the load of the loop fits. `RingIsFifo` asks for a step of `EventFifo`
wherever the load fits before and after the step, so it also covers a ring that
has overflowed and been drained; `RingImplementsFifo` in the proofs is the
refinement proper, for a ring that never has to hold more.

### PortNet

`sock` says who holds each descriptor; it is the network processor's table, and
descriptors are handed out again as soon as they are closed. A context owns a
descriptor through `send_arg`. The core's part is taken from the port's use of it:
`wish_connection_init` takes a free context (`Occupy`), and on `TCP_DISCONNECTED`
the core cleans the context up (`Release`; the comment at `port_net.c:137-139`).
`sockfd` is the local of `port_main`'s loop between `connect_fail_cb`, which closes
the descriptor, and the loop's own `close` of it. The constant `OpenOnDisconnect`
says whether the core may open sockets in between. With `TRUE` the second `close`
hits the socket just opened; everything about ownership is checked and proved
for `FALSE`, and that is an assumption on the core: no property is about the
double `close` itself. A connection that finds the pool full is accepted and closed
with nothing in between, a step that changes no variable. The two `malloc` calls for
a `send_arg` are written through unchecked (`port_net.c:89-94`, `port_main.c:336`); a
failed one stops the board, which no step has to say.

### RelayClient

`relay_state` has the states the port tells apart; the states of the relay protocol
are the core's and are all `"OPEN"`. `relay_sockfd` is never reset, as in the code.
When a connection is lost the core is told first and the socket closed after that
(`port_main.c:196-197`, 218-219): `Lose` and `CloseAfterCallback`, with the relay in
`closing` and everything else free to happen in between. Neither
`wish_relay_client_open` nor `wish_relay_client_close` looks at the state of the relay.
The core decides when to call them, and what it is taken to do is said by constants:

* `OpenStates` and `CloseStates`, the states in which it opens and closes a relay. In
  `relay_client` it opens in every state, and closes in every state but
  `"WAIT_RECONNECT"`. With that one TLC finds the stale `close`: a relay's connection is
  lost, another party gets its descriptor, the core closes the relay once more and
  hits the other's socket (`relay_client.c:152`). In `main_loop` it opens a relay in its
  initial state and while it waits to reconnect, and closes one that is connecting or
  open;
* `ReopenInCallback`, whether it opens or closes a relay while it is told that this
  relay's connection is lost. With `TRUE` the loop's `close` hits the socket that the
  callback has just opened, and a connecting relay has none.

### MainLoop

`pc` and `at` are the position in the pass; `rfds` and `wfds` the sets `select`
returned; `caller` the call into the core that has not returned. While `caller` is
set - in the discovery branch, after a relay was connected, has read a byte or was
lost, after a connection was set up, lost or accepted, in the message processor, in
the periodic work and in the IPC - the core may open and close connections and
relays and raise events (`CoreOpens`, `CoreCloses`, `CoreOpensRelay`, `CoreClosesRelay`,
`CoreNotifies`), in any order and any number of times, except that it raises at most
`CoreBurst` events in a pass. An immediate success of `connect` (`port_net.c:120-126`)
signals `TCP_CONNECTED` from inside such a call; the event the core may raise then
is one of these. Of what the core does not do three things are assumed:

* it opens no socket while it handles `TCP_CONNECTED` or `TCP_DISCONNECTED`
  (`OpenOnSignal`). With either one in it `NoStaleReadiness` does not hold: a
  connection gets a descriptor that was reported and is closed by now;
* the two assumptions of `RelayClient`, with its constants.

`dropped`, `fresh` and `early` are history variables: the reported descriptors that the
core has closed since, the others that have been opened again since, and the
contexts of the events that the core raised outside the message processor.
`NoStaleReadiness` excuses `dropped`: see the findings. `max_fd` is left out: it only
grows and is always above every descriptor in the sets. The code gives the negative
descriptor of a failed `accept` to `FD_SET` and `FD_ISSET` (`port_main.c:137-147`, 240);
that it is never ready is taken of the driver's macros. The server's and the
discovery socket are taken to have been opened.

### ServiceIpc

`ipc_event_queue` is the list; `event` the message whose receiver
`port_service_ipc_task` has called, which stays at the head of the list until the
receiver returns. `heap` counts the blocks this file has allocated. A send takes two
blocks, of which one is as long as the message; it may get both, the first one only,
which it then does not give back (`port_service_ipc.c:97-101`), or none, at any time
and as often as may be: whether `malloc` succeeds depends on the length and on the
rest of the program, and nothing follows from a failure about the next one. Sends
may happen at any time, and in particular from the receiver. The refinement hides
the memory: a send that is dropped is a stutter of `EventFifo`. That blocks leak is
in the model and no property is about how many: the code bounds it in no way.

### Streams

Bytes are numbered, and marked when they end a frame; `inbox` is what the network
processor holds of a connection, `rx` the core's ring, `taken` what has been
processed. `VisitConnection` is the branch of `port_main.c:229-275` for a readable
socket: it reads as much as there is room for, up to `max_read`, and any smaller
number if `recv` returns less; it feeds the core and raises one event. `Drain`
hands the events to the core. The core is external, and one assumption on it is
essential: it processes one frame for an event and raises the next event itself
if another whole frame is left. Without it `FramesProcessed` does not hold, since
one `recv` may complete several frames and raises one event. Frames fit in the ring;
a peer that sends longer ones is left out, and so is an error of
`wish_core_get_rx_buffer_free`, which is printed and then compared as an unsigned
number, so that 512 bytes are read (`port_main.c:250-255`).

### MistApps and Endpoints

Every message between the applications and the core goes through `ServiceIpc` (the
receivers are the steps between its `TaskCalls` and `TaskReturns`), so any of them
may be dropped, and friend requests and queries arrive between any two. What the
core does is external and as the applications take it to be: requests are listed
oldest first, accepting one removes it, accepting one that is gone changes
nothing. The port is configured with remote management
(`wish_port_config.h:33-35`), so that somebody else may accept or decline a request at
any time between two messages (`RemoteDecides`, counted in `elsewhere`): then the list
that MistConfig gets may be empty, and it takes NULL for its first entry.
`AcceptsSomeone` says that this happens for no other reason, and no more often than
that. The allocations inside `friend_request_list_cb` are taken to succeed.

`Endpoints` has the trees that are registered and the answers of `wifi_read` and
`sensor_read`, by the endpoint's full id, which is what a peer asks for and what
the answer has to carry. `wifi_read` compares plain ids, `sensor_read` pointers to the
endpoints, and its error is sent with the plain id. `wifi_invoke`'s body is
compiled out: the two endpoints that can only be invoked take the message and
never answer, which the model has as a step that does nothing.

### Boot

Three tasks: `CommandProcessor` runs `appInitSystem` and `ScanAndGetIp`, the latter
in its single blocking calls (`step`); `EnqueueScanwifiNetwork` is the timer's
callback; `MistTask` polls `network_init` and goes through `port_main`'s start-up:
mount, identities, server, discovery, the two applications. `Fails` is the set of
calls that may fail: an `assert(false)` stops the board (`halted`), any other
failure is printed and ignored, as in the code. `mode` is `NCI_DHCP_MODE`; the
firmware is built with 2, and `MistStarts` is about 2, because in the other modes
nothing sets `network_init`: the board joins the WLAN and Mist waits for ever.

The identities are in a file. `my_fs_write` leaves the data in SPIFFS's cache
until the file is closed (`file = "written"`), and a power failure in between may
lose them or not. `PowerCycle` keeps the flash (`own`, `friends`) and resets
everything else. A read of the identities that fails ends them early; `misreads`
counts these, since each one that finds none costs one more identity.

### Periodic

`ticks` is FreeRTOS' counter modulo `TickModulus`; time passes between the look at
the clock and the periodic work and back. `CountsSeconds` needs the clock to be
read at least once in every second (`MaxWait + MaxWork <= Second` in the instance):
a pass that takes longer loses seconds, since `wish_time_report_periodic` is called
once however many have passed. `select`'s 100 ms leave room for that; the work of
the core in a pass is not bounded by anything in the repository.

### Address, FlashLayout, TimeHelper

Pure definitions, and no runs: their claims are about all addresses, texts, pages
and times, which theorems cover and a bounded enumeration would not. In `Address`
a text is the numbers `strtoul` finds in it and the characters after them; an
address is its four bytes as they lie in memory, so that the three byte orders
that meet here (the core's, the board's, the driver's) are different functions.
In `FlashLayout` the page size, which the driver reports at run time, is a
parameter. Nothing calls `my_spiffs_erase_area` and `timeval_subtract` today.

## Runs

| run | instance | shows |
|---|---|---|
| `event_queue` | 3 slots, 2 event values, load up to 8 | the cursors lap each other and still agree; no loss without the message; a FIFO queue whenever the load fits |
| `port_net` | 2 contexts, 3 descriptors, 1 other party | ownership, the double close, who closes what; descriptors run out and are reused |
| `relay_client` | 3 relays (one by name), another party, 3 descriptors | relays use and close only their own sockets, also while the core is told of a loss |
| `relay_sockets` | 1 relay, 3 descriptors | violation: a relay holds more than one socket |
| `main_loop` | 2 contexts, 1 relay, 2 descriptors, 1 event a pass from the core, a ring of 4 | no stale readiness, the events fit in the ring, the loop keeps the contexts of the port's events, refinement of connections and relays; every connection being set up is settled |
| `service_ipc` | 2 applications, 2 contents, 9 blocks | messages have their memory whatever sends leak; the list is a FIFO queue |
| `mist_apps` | 2 friend requests, 1 decision by remote management, 1 query, 7 blocks | an acceptance names a request, but for one decided elsewhere; a signal leads to an acceptance and a read to one fitting answer, unless a message is dropped |
| `friend_requests_all` | 2 requests, nobody else to decide | violation: an announced request is left over |
| `streams` | 2 connections, frames of up to 3 bytes, reads of 2, rings of 3, 4 and 2 bytes sent | bytes stay complete and in order; no full ring is visited; closing drops no frame; every frame is processed |
| `boot` | every call may fail, the power too; the 4 modes, 2 friends, 2 failed reads | no second scan under Mist, one identity, Mist starts |
| `periodic` | seconds of 3 ticks, a counter of 40 | every second is reported once, until the counter wraps |
| `periodic_wrap` | the same, fair | violation: after the wrap the work is never done again |

A relay and two contexts with two descriptors are enough for a descriptor to be
closed by one party and handed to another while a third is still to be visited,
which is the shape of every hazard of the loop; `port_net` has a third descriptor, so
that none is exhausted. A ring of four is exactly two contexts and twice the
core's one event; with three slots TLC finds `EventsWithinRing` violated. The code has
4 contexts and 40 slots, which leaves the core 18 events a pass. Three slots let the ring wrap with one event in service.

`main_loop` has 1 160 580 states and takes some three minutes, `mist_apps` 1 101 579 and
one and a half; the others take seconds. The heap of `service_ipc` holds four messages
and an odd block, so that the list is filled, a block leaked and the list filled
again; that of `mist_apps` is as small as it can be for two requests and a query to
be under way at once. In `streams` a frame can fill the ring, takes two reads, and
may share a read with the next one. The command queue of `boot` has one place: more are never
used (`Stages` in `BootProofs`); two failed reads are enough for an identity beside
one that was made beside another. The counter of `periodic` wraps in the middle of
a second.

`relay_client`, `port_net` and the others that check safety only are not fair. Fairness:

* `main_loop`: weak fairness of the loop's own steps - the task is scheduled, the
  core returns from each call, `select` has a timeout of 100 ms - and, for each
  context, strong fairness of `select` reporting the end of a `connect` that is
  under way, which is what the network processor does. The core may still call
  back for ever; it is not forced to.
* `mist_apps`: weak fairness of `port_service_ipc_task`, which every pass calls.
  Friend requests, queries and remote management are not fair.
* `streams`: weak fairness of the loop; for each connection, strong fairness of
  `select` reporting it while it is readable and of a `recv` that succeeds. A
  connection whose `recv` fails for ever is not released by the port at all
  (`port_main.c:258`). Neither peers nor the core are fair.
* `boot`: weak fairness of each of the three tasks, which FreeRTOS schedules by
  priority and which all block between their steps. `MistStarts` excuses a power
  that fails for ever and the calls Wish cannot do without (`failed`).
* `periodic_wrap`: the loop goes on, and time passes.

## Proofs

Every safety invariant and every action property the passing runs check is also a
theorem, for every value of the constants that satisfies the named assumptions of
the modules (`EventQueueAssumption` and so on) and the hypotheses the theorem
itself states. Of the invariants and refinements few are inductive as they stand;
what each proof adds is this.

* `ArithmeticProofs`, the event queue: for every length of the ring. The inductive
  invariant is `event_write = (event_read + num_curr_events) % LEN`, with the slot in
  service just behind `event_read`. It holds without any bound on the number of
  events, so also after an overflow. From it follow `NoSilentLoss` (two positions
  less than `LEN` apart are different slots, so a pending event is hit only when the
  ring is full) and, wherever the load fits in the ring, the refinement of
  `EventFifo`. The arithmetic of `%` is proved first, then three lemmas about
  windows of the ring as sequences.
* `ArithmeticProofs`, the clock: `ClockTypeCorrect` and `SecondsCounted`, for every
  modulus of the counter and every length of a second. `SecondsCounted` has the
  hypothesis `MaxWait + MaxWork <= Second`, a pass within a second; the invariant
  relates the second last reported to the ticks of the pass. `ClockTypeCorrect` needs no
  hypothesis and has the other side in it: there are never more reports than one
  run of the counter has seconds.
* `ArithmeticProofs`, addresses: for every address and every text. All of it comes
  down to one fact, that four bytes and a word of 32 bits determine each other;
  from it follow that printing and parsing an address is the identity
  (`PrintedIsParsed`), what `inet_aton` accepts (`InetAtonMeaning`), and that the
  address of a relay's second `connect` is never the relay's (`SecondAddressDiffers`).
* `ArithmeticProofs`, flash and time: for every page size the EFM32 family has and every
  block, an erase hits this block only (`BlockIsErased`), and the limits
  `spiffs_config.h` states for its index types hold for the layout of
  `spiffs_integration.c`; the difference of two times is exact for every two, and
  normalized if they are.
* `PortNetProofs`: for every pool and every set of descriptors, under
  `~OpenOnDisconnect`. Ownership is not inductive by itself: the second `close` would
  break it, so the invariant adds that the descriptor closed twice is free.
* `RelayClientProofs`: for every list of relays, if `"WAIT_RECONNECT"` is not in
  `CloseStates` and `~ReopenInCallback`. Both theorems state the two; without either
  one TLC has a counterexample (see `RelayClient` above). Ownership of the descriptor by
  a relay that is connecting, open or about to be closed is inductive; who closes
  what follows.
* `MainLoopProofs`: for every pool, list of relays, set of descriptors and length of the
  ring. `TypeCorrect`, `EventsBounded` and `EventContextKept` take the core as it comes; the
  others have the hypothesis `CoreKeepsOff`, which is that of `PortNetProofs` and the two of
  `RelayClientProofs` in one.
  * `ConnectionsInLoop` and `RelaysInLoop`: a step of the loop is a step of `PortNet` and of
    `RelayClient` or leaves them alone; the invariants of the two are taken over
    through instances of their proof modules, and `Phases` says where the loop is while
    the core has not returned;
  * `EventsBounded`: `PoolSize + 2 * CoreBurst` events fit in the ring. The core may raise
    events in every call, also after the events of a pass have been drained, and
    those add to what the next pass raises: the invariant bounds the load by what can
    have been raised at each point of a pass (`EventLoad`);
  * `EventContextKept`: the events that the port raises while the contexts are visited
    are of contexts visited already, and those of the message processor are drained
    in the same pass (`Visited`). Of the others, `early`, nothing is said: see the findings;
  * `ReadinessNotStale`: at most one relay, and nothing opened in the handlers of TCP
    signals. The core may close whatever it likes in every call, those of the relay
    included. The invariant `Fresh` says that until the relay's turn is over nothing
    `select` has reported is free unless the core has closed it (`Held`), so that a socket
    opened by then has no other descriptor that was reported.
* `StreamsProofs`: for every ring size, limit of a read and number of connections. The
  invariant has three parts: `Framed`, for each connection what has been taken, the
  ring and the network processor's bytes are together what was sent, and a ring
  begins where a frame does; `Announced`, a connection with a whole frame in its ring
  has an event pending; and `Phases`, the events are drained before the loop selects
  again, so that a ring still to be visited holds a fragment only. From them follow
  that it has room (`RingNeverFull`), that the bytes stay complete and in order
  (`BytesIntact`), and that a close is acted on only when no whole frame is left
  (`CloseAfterFrames`).
* `ServiceIpcProofs`: for every set of applications and contents and every heap.
  The invariant says that the blocks allocated cover two for each message in
  the list (`MessagesHaveMemory`) and that the message being received is the head of
  the list; with the latter, the receiver's own sends cannot change what
  `TaskReturns` deletes, which is the refinement of `EventFifo`.
* `MistAppsProofs`: for every set of friend requests and queries and every heap with
  room for the two logins. `Waiting` is the list without a message whose receiver
  has done its work; each action takes at most its own message out of it and puts
  at most one in. `AcceptsSomeone` follows from counting: of signals, questions,
  lists and acceptances no more are waiting than requests are pending
  or decided elsewhere (`RequestsCovered`), so that a list made while nothing is pending
  takes the place of a decision (`NamelessCovered`). `AnswersFit` follows from the same
  count for each query (`QueriesSound`: on its way there, on its way back, or answered, and only one of the three) and from
  what each message says (`Sound`), with lemmas about the two read functions for
  every registered endpoint. Every step is one of `ServiceIpc` or leaves the list
  alone, so that what is proved there holds of the composition (`MemoryInApps`,
  `OrderInApps`); only the refinement of `EventFifo` as a whole does not carry over, since
  the list starts with the two logins in it.
* `BootProofs`: for every set of failing calls and every length of the command queue.
  `NoRejoinUnderMist` is not inductive: `Stages` says how far timer, queue, `once` and
  `network_init` can have come at the same time (in particular that a queued
  `ScanAndGetIp` implies that `network_init` is not set yet). `OneIdentity` needs
  `Identities`: while the Mist task is creating an identity in a mounted file
  system there is none on the flash.

Model-checked only are the liveness properties (`ConnectResolves`,
`SignalLeadsToAcceptance`, `ReadsAnswered`, `FramesProcessed`, `MistStarts`): liveness under
fairness is out of the prover's reach.

## Findings

* A relay leaks a socket on each failed attempt (`relay_client.c:81-89`): the socket
  is closed only on paths that went through `SL_EALREADY`. `wish_port_config.h:11`
  reserves one socket for the relay.
* MistConfig can leave a friend request unanswered (`mist_config.c:252`): two
  requests whose signals are handled before the first acceptance has reached the
  core get the same list, and both answers accept its first entry. The second
  request is accepted only when a third one comes.
* The one-second work stops when the tick counter wraps, after 49.7 days
  (`port_main.c:388`).

Met while modelling, without a run of their own:

* A failed `accept` is treated as an accepted connection: `port_main.c:320-323` only
  prints, and a context with a negative descriptor is announced to the core
  under the comment "New wish connection can be accepted" (`port_main.c:338`).
* The second `connect` of a relay is given `htons` of a 32-bit address
  (`port_main.c:176`), which keeps two of its bytes: no relay but 0.0.0.0 gets its own
  address (`SecondAddressDiffers`). It works if the network processor only looks at
  the socket, where the connection is under way already.
* `wifi_invoke` neither answers nor refuses; its two endpoints are registered.
* In modes 0, 1 and 3 of `NCI_DHCP_MODE` Mist never starts.
* A connection may be taken for ready that is not. When the loop calls into the core
  before it visits the contexts (an advert, or a relay's byte: `port_main.c:160`, 185,
  213-214), a core that closes a connection there and opens another one gets the same
  descriptor, whose bit in `rfds` or `wfds` is still set: the loop reads from the new
  connection (`recv` would only fail) or takes it for connected. One relay is enough.
  `NoStaleReadiness` without `\ dropped` is violated so, and with it says that there is no
  other way, for one relay and under the assumptions named above.
* With more than one relay there is: the first one's `connect` fails and its descriptor is
  closed (`port_main.c:196-197`), the second one is connected, the core opens a
  connection from inside that call and gets the descriptor, which is still in `wfds`.
  The code is written for one: "FIXME only one relay context assumed!"
  (`port_main.c:195`), and `relay_client.c:40-41` has the same reservation.
* An event can outlive its context without the core's doing. What the core raises after
  the events of a pass have been drained, in the periodic work or the IPC, by a
  `connect` that succeeds at once for instance, waits through the next `select`; when that
  reports the peer's close, the loop releases the context first (`port_main.c:268-273`)
  and hands the event to the message processor later. `LoopKeepsEventContext` excuses
  these contexts (`early`) and is violated if it does not.
* With remote management MistConfig may get an empty list of friend requests, and
  copies 32 bytes from NULL twice (`mist_config.c:279`, 280).
* A core that closed a relay while it waits to reconnect would close another's socket
  (`relay_client.c:152`): `sockfd` is not reset.
* Each message whose data find no memory leaks its `struct ipc_event`
  (`port_service_ipc.c:97-101`), with no bound on how often.
* The ten-second interval of `port_main.c:361` is eleven seconds (`>` at line 359);
  "This cycle repeats over and over" (`mist-port-bosch-xdk.c:63`) although `once` at
  line 495 lets it run once; `timeval_subtract` returns seconds as a double where its
  comment says 1 or 0 (`time_helper.c:11`), and of unnormalized times its result may
  have a full million of microseconds (`>` at line 20).

## Plan

Done, most important first: event queue, connection sockets, relay client, main
loop, service IPC, the applications, streams, start-up, clock, addresses, flash
layout, time helper; a theorem for every safety property that is checked. To come:

1. `NoStaleReadiness` with several relays: the weakest condition on what the core opens
   in the relays' calls under which it holds.
2. `RelayClient` with `port_relay_ip`, which all relays share (`relay_client.c:49`, 84):
   which relays connect to their own host when several are opened at once.

## Not modelled

* Outgoing bytes: `write_to_socket` and `relay_send` pass the core's bytes to
  `send()`. A short write is reported as success (`port_net.c:357`), and what the core
  makes of the result is not in the repository.
* What keeps a context in use when `connect` or `socket` fails at once, or when
  `recv` fails for ever: the port leaves it to the core's timeouts. The steps are in
  `PortNet`, `MainLoop` and `Streams`; a liveness property would be about the core.
* `max_fd`, which only grows and bounds `select`'s argument.
* `my_fs_lseek`, `my_fs_rename`, `my_fs_remove`: pass-throughs that nothing in the
  repository calls; `my_spiffs_test` and `my_tests.c`, which only print.
* The code under `#if 0`: MistConfig's WLAN commissioning, the environment sensor.
* Payloads, cryptography and the relay protocol (the core's), SPIFFS's inner
  workings and the vendor's SDK. `mbedtls_config.h` and most of `spiffs_config.h` tune
  libraries whose code the repository does not contain.
