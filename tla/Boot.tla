-------------------------------- MODULE Boot ---------------------------------
(***************************************************************************)
(* From power-up to the main loop (Main.c, mist-port-bosch-xdk.c, the      *)
(* beginning of port_main).  Three tasks and the radio take part: the      *)
(* command processor, which runs appInitSystem and then ScanAndGetIp; the  *)
(* timer task, which enqueues the latter; and the Mist task, which polls   *)
(* network_init, mounts the flash file system, loads or creates the        *)
(* identity, opens the servers' sockets, starts the two applications and   *)
(* then stays in the main loop.  ScanAndGetIp starts with a disconnect, so *)
(* it must not run again under Mist's connections, although it restarts    *)
(* the timer it came from.  The power may fail at any time.                *)
(*                                                                         *)
(* The identities are in a file.  What is written to it (my_fs_write) is   *)
(* in the file system's cache until the file is closed; a power failure in *)
(* between may lose it or not.  A read that fails hides identities from    *)
(* the core.                                                               *)
(***************************************************************************)
EXTENDS Integers, Sequences

CONSTANTS
  Fails,       \* the calls that may fail, and "power"
  Modes,       \* the values of NCI_DHCP_MODE the firmware is built with
  QueueLen,    \* TASK_Q_LEN_MAIN_CMD_PROCESSOR (10 in XDKAppInfo.h)
  MaxFriends,  \* bound: friends made
  MaxMisreads  \* bound: failed reads of the identities

Call == {"systemStartup", "CmdProcessor_enqueue", "WlanConnect_Init",
         "xTimerStart", "xTaskCreate", "WlanConnect_Disconnect",
         "WlanConnect_WPA", "NetworkConfig_GetIpSettings",
         "NetworkConfig_SetIpDhcp",
         "MCU_Flash_Read", "MCU_Flash_Write", "MCU_Flash_Erase",
         "socket", "bind", "listen",
         "start_mist_app", "wish_app_create", "Orientation_init", "power"}

ASSUME BootAssumption ==
  /\ Fails \subseteq Call
  /\ Modes \subseteq 0 .. 3
  /\ QueueLen \in Nat \ {0}
  /\ MaxFriends \in Nat
  /\ MaxMisreads \in Nat

VARIABLES
  mode,          \* NCI_DHCP_MODE
  started,       \* main has started the scheduler
  halted,        \* an assert(false) has stopped the board
  failed,        \* history: a call has failed that Wish cannot do without
  commands,      \* the commands queued and not yet begun
  step,          \* the call ScanAndGetIp has come to, or "idle"
  timer,         \* ScanwifiNetworkHandle is running
  once,          \* the timer's callback has run
  network_init,  \* the IP settings have been read
  callback,      \* the network processor has myDhcpIpCallbackFunc
  dhcpFlag,      \* dhcpFlag_mdu8 = NETWORKCONFIG_DHCP_FLG_ACQ
  wlan,          \* the radio has joined a network
  mist,          \* where the Mist task is
  mounted,       \* the file system has been mounted
  num_ids,       \* core->num_ids, the identities that have been loaded
  file,          \* the identities' file: closed, open, or written to
  services,      \* what port_main has set up
  own, friends,  \* the identities on the flash
  misreads       \* history: how often reading the identities has failed

dhcpVars == <<callback, dhcpFlag>>
boardVars == <<mode, started, halted, failed, commands, step, timer, once,
               network_init, dhcpVars, wlan>>
flashVars == <<own, friends, misreads>>
ramVars == <<mounted, num_ids, file, services>>
mistVars == <<mist, ramVars, flashVars>>
vars == <<boardVars, mistVars>>

Command == {"appInitSystem", "ScanAndGetIp"}
Joining == {"scanNetwork", "disconnect", "setIp", "connect", "getIp"}
Saving == {"open", "write", "close"}
Service == {"server", "discovery", "adverts", "MistConfig", "Sensors", "orientation"}

TypeOK ==
  /\ mode \in Modes
  /\ started \in BOOLEAN
  /\ halted \in BOOLEAN
  /\ failed \in BOOLEAN
  /\ commands \in Seq(Command) /\ Len(commands) <= QueueLen
  /\ step \in Joining \cup {"idle", "startTimer"}
  /\ timer \in BOOLEAN
  /\ once \in BOOLEAN
  /\ network_init \in BOOLEAN
  /\ callback \in BOOLEAN
  /\ dhcpFlag \in BOOLEAN
  /\ wlan \in BOOLEAN
  /\ mist \in Saving \cup {"none", "waiting", "mount", "deps", "load", "reload",
                           "server", "discovery", "config", "sensors", "loop"}
  /\ mounted \in BOOLEAN
  /\ num_ids \in Nat
  /\ file \in {"closed", "open", "written"}
  /\ services \in SUBSET Service
  /\ own \in Nat /\ friends \in 0 .. MaxFriends /\ misreads \in 0 .. MaxMisreads

(* What is in RAM when the board is powered up, and a flash never used.    *)
(* The radio may have joined by itself if it has a profile stored.         *)
Init ==
  /\ mode \in Modes
  /\ started = FALSE /\ halted = FALSE /\ failed = FALSE
  /\ commands = <<>> /\ step = "idle"
  /\ timer = FALSE /\ once = FALSE /\ network_init = FALSE
  /\ callback = FALSE /\ dhcpFlag = FALSE
  /\ wlan \in BOOLEAN
  /\ mist = "none" /\ mounted = FALSE /\ num_ids = 0
  /\ file = "closed" /\ services = {}
  /\ own = 0 /\ friends = 0 /\ misreads = 0

Fail(call) == call \in Fails /\ failed' = TRUE
Halt(call) == Fail(call) /\ halted' = TRUE
Running == started /\ ~halted

(* A failure that the Mist task prints and goes on from. *)
FailOnly(call) ==
  /\ Fail(call)
  /\ UNCHANGED <<mode, started, halted, commands, step, timer, once>>
  /\ UNCHANGED <<network_init, dhcpVars, wlan>>

-----------------------------------------------------------------------------

main ==
  /\ ~started /\ ~halted
  /\ \/ /\ started' = TRUE
        /\ commands' = <<"appInitSystem">>
        /\ UNCHANGED <<halted, failed>>
     \/ /\ Halt("systemStartup")
        /\ UNCHANGED <<started, commands>>
  /\ UNCHANGED <<mode, step, timer, once, network_init, dhcpVars, wlan, mistVars>>

(* The command processor takes its next command. *)
Begin(command) ==
  /\ Running
  /\ step = "idle"
  /\ commands # <<>> /\ Head(commands) = command
  /\ commands' = Tail(commands)

(* xTaskCreate's result is not looked at. *)
appInitSystem ==
  /\ Begin("appInitSystem")
  /\ \/ /\ timer' = TRUE
        /\ \/ mist' = "waiting" /\ UNCHANGED failed
           \/ Fail("xTaskCreate") /\ UNCHANGED mist
        /\ UNCHANGED halted
     \/ /\ Halt("WlanConnect_Init") \/ Halt("xTimerStart")
        /\ UNCHANGED <<timer, mist>>
  /\ UNCHANGED <<mode, started, step, once, network_init, dhcpVars, wlan>>
  /\ UNCHANGED <<ramVars, flashVars>>

(* Mutant: every expiry of the timer enqueues a scan. *)
EnqueueEveryTime ==
  /\ Running /\ timer
  /\ timer' = FALSE
  /\ once' = TRUE
  /\ Len(commands) < QueueLen
  /\ commands' = Append(commands, "ScanAndGetIp")
  /\ UNCHANGED <<mode, started, halted, failed, step, network_init, dhcpVars, wlan>>
  /\ UNCHANGED mistVars

(* Mutant: the callback enqueues the initialization a second time. *)
EnqueueBoth ==
  /\ Running /\ timer
  /\ timer' = FALSE
  /\ once' = TRUE
  /\ commands' = IF once THEN commands
                 ELSE commands \o <<"appInitSystem", "ScanAndGetIp">>
  /\ UNCHANGED <<mode, started, halted, failed, step, network_init, dhcpVars, wlan>>
  /\ UNCHANGED mistVars

(***************************************************************************)
(* The one-shot timer expires.  `once` is set before the command is        *)
(* enqueued, and whether or not that works.                                *)
(***************************************************************************)
EnqueueScanwifiNetwork ==
  /\ Running /\ timer
  /\ timer' = FALSE
  /\ once' = TRUE
  /\ \/ /\ ~once /\ Len(commands) < QueueLen
        /\ commands' = Append(commands, "ScanAndGetIp")
        /\ UNCHANGED failed
     \/ /\ ~once
        /\ (Len(commands) = QueueLen /\ failed' = TRUE) \/ Fail("CmdProcessor_enqueue")
        /\ UNCHANGED commands
     \/ once /\ UNCHANGED <<commands, failed>>
  /\ UNCHANGED <<mode, started, halted, step, network_init, dhcpVars, wlan, mistVars>>

-----------------------------------------------------------------------------
(* ScanAndGetIp.  Of all its failures only the last one, of the timer, is  *)
(* acted upon; the others are printed.                                     *)

At(here) == Running /\ step = here

ScanAndGetIp ==
  /\ Begin("ScanAndGetIp")
  /\ step' = "scanNetwork"
  /\ UNCHANGED <<mode, started, halted, failed, timer, once, network_init>>
  /\ UNCHANGED <<dhcpVars, wlan, mistVars>>

(* What no call of ScanAndGetIp changes. *)
joinUnchanged == <<mode, started, halted, commands, once, mistVars>>

(* Takes seconds and leaves nothing behind. *)
scanNetwork ==
  /\ At("scanNetwork")
  /\ step' = "disconnect"
  /\ UNCHANGED <<joinUnchanged, failed, timer, network_init, dhcpVars, wlan>>

Disconnect ==
  /\ At("disconnect")
  /\ step' = "setIp"
  /\ \/ wlan' = FALSE
     \/ "WlanConnect_Disconnect" \in Fails /\ UNCHANGED wlan
  /\ UNCHANGED <<joinUnchanged, failed, timer, network_init, dhcpVars>>

(***************************************************************************)
(* NetworkConfig_SetIpStatic or SetIpDhcp.  In mode 1 the flag is reset    *)
(* first and the callback handed over; whether that works is only printed. *)
(***************************************************************************)
SetIp ==
  /\ At("setIp")
  /\ step' = "connect"
  /\ \/ mode # 1 /\ UNCHANGED dhcpVars
     \/ /\ mode = 1
        /\ dhcpFlag' = FALSE
        /\ \/ callback' = TRUE
           \/ "NetworkConfig_SetIpDhcp" \in Fails /\ UNCHANGED callback
  /\ UNCHANGED <<joinUnchanged, failed, timer, network_init, wlan>>

Connect ==
  /\ At("connect")
  /\ step' = "getIp"
  /\ \/ wlan' = TRUE
     \/ "WlanConnect_WPA" \in Fails /\ UNCHANGED wlan
  /\ UNCHANGED <<joinUnchanged, failed, timer, network_init, dhcpVars>>

(* The network processor has got an address. *)
myDhcpIpCallbackFunc ==
  /\ Running /\ callback /\ wlan
  /\ dhcpFlag' = TRUE
  /\ UNCHANGED <<joinUnchanged, failed, step, timer, network_init, callback, wlan>>

(* Mutant: the flag waits for the callback of the other DHCP mode. *)
GetIpUnflagged ==
  /\ At("getIp")
  /\ step' = "startTimer"
  /\ IF dhcpFlag THEN network_init' = TRUE ELSE UNCHANGED network_init
  /\ UNCHANGED <<joinUnchanged, failed, timer, dhcpVars, wlan>>

(***************************************************************************)
(* Only in mode 2 is network_init set, when the settings can be read.      *)
(* Modes 0 and 1 print what they read; mode 1 does not even read if its    *)
(* flag has not been set.                                                  *)
(***************************************************************************)
GetIp ==
  /\ At("getIp")
  /\ step' = "startTimer"
  /\ \/ mode = 2 /\ network_init' = TRUE /\ UNCHANGED failed
     \/ mode = 2 /\ Fail("NetworkConfig_GetIpSettings") /\ UNCHANGED network_init
     \/ mode # 2 /\ UNCHANGED <<failed, network_init>>
  /\ UNCHANGED <<joinUnchanged, timer, dhcpVars, wlan>>

StartTimer ==
  /\ At("startTimer")
  /\ step' = "idle"
  /\ \/ timer' = TRUE /\ UNCHANGED <<halted, failed>>
     \/ Halt("xTimerStart") /\ UNCHANGED timer
  /\ UNCHANGED <<mode, started, commands, once, network_init, dhcpVars, wlan, mistVars>>

-----------------------------------------------------------------------------
(* The flash.  The file system's HAL turns an error of the flash into      *)
(* SPIFFS_ERR_INTERNAL; the Mist task prints it at most.                   *)

ReadError == FailOnly("MCU_Flash_Read")
WriteError == FailOnly("MCU_Flash_Write")
EraseError == FailOnly("MCU_Flash_Erase")

-----------------------------------------------------------------------------
(* The Mist task                                                           *)

(* The Mist task finds network_init set and calls port_main. *)
mist_task_init ==
  /\ Running
  /\ mist = "waiting" /\ network_init
  /\ mist' = "mount"
  /\ UNCHANGED <<boardVars, ramVars, flashVars>>

(* The result is only printed. *)
my_spiffs_mount ==
  /\ Running /\ mist = "mount"
  /\ \/ mounted' = TRUE /\ UNCHANGED boardVars
     \/ mounted' = FALSE /\ ReadError
  /\ mist' = "deps"
  /\ UNCHANGED <<num_ids, file, services, flashVars>>

(* The core gets its heap and its file system. *)
port_platform_deps ==
  /\ Running /\ mist = "deps"
  /\ mist' = "load"
  /\ UNCHANGED <<boardVars, ramVars, flashVars>>

(***************************************************************************)
(* Read after read to the end of the file, which is reported as 0 bytes.   *)
(* An error is passed on, and ends the identities early.                   *)
(***************************************************************************)
my_fs_read ==
  \/ /\ num_ids' = own + friends
     /\ UNCHANGED <<boardVars, misreads>>
  \/ /\ misreads < MaxMisreads
     /\ num_ids' \in 0 .. own + friends
     /\ ReadError
     /\ misreads' = misreads + 1

(* There are no identities in a file system that is not mounted. *)
wish_core_update_identities ==
  \/ mounted /\ my_fs_read
  \/ ~mounted /\ num_ids' = 0 /\ UNCHANGED <<boardVars, misreads>>

(* Mutant: an identity is created at every start. *)
LoadAlwaysCreates ==
  /\ Running /\ mist = "load"
  /\ wish_core_update_identities
  /\ mist' = "open"
  /\ UNCHANGED <<mounted, file, services, own, friends>>

(* wish_create_local_identity works in memory only. *)
port_platform_load_identities ==
  /\ Running /\ mist = "load"
  /\ wish_core_update_identities
  /\ mist' = IF num_ids' = 0 THEN "open" ELSE "server"
  /\ UNCHANGED <<mounted, file, services, own, friends>>

(* wish_save_identity_entry opens the file, ...                            *)
my_fs_open ==
  /\ Running /\ mist = "open"
  /\ \/ mounted /\ file' = "open" /\ UNCHANGED boardVars
     \/ UNCHANGED file /\ (ReadError \/ WriteError)
     \/ ~mounted /\ UNCHANGED <<file, boardVars>>
  /\ mist' = "write"
  /\ UNCHANGED <<mounted, num_ids, services, flashVars>>

(* ... writes the identity into the cache, ...                             *)
my_fs_write ==
  /\ Running /\ mist = "write"
  /\ \/ file = "open" /\ file' = "written" /\ UNCHANGED boardVars
     \/ UNCHANGED file /\ (WriteError \/ EraseError)
     \/ file = "closed" /\ UNCHANGED <<file, boardVars>>
  /\ mist' = "close"
  /\ UNCHANGED <<mounted, num_ids, services, flashVars>>

(* ... and closes the file, which writes the cache to the flash.           *)
my_fs_close ==
  /\ Running /\ mist = "close"
  /\ \/ file = "written" /\ own' = own + 1 /\ UNCHANGED boardVars
     \/ file # "written" /\ UNCHANGED <<own, boardVars>>
     \/ UNCHANGED own /\ (WriteError \/ EraseError)
  /\ file' = "closed"
  /\ mist' = "reload"
  /\ UNCHANGED <<mounted, num_ids, services, friends, misreads>>

(* Whether the identity is there now is only printed. *)
ReloadIdentities ==
  /\ Running /\ mist = "reload"
  /\ wish_core_update_identities
  /\ mist' = "server"
  /\ UNCHANGED <<mounted, file, services, own, friends>>

(* One of the calls fails; the others are made all the same. *)
OneFails(calls) == \E call \in calls : FailOnly(call)

(* port_main sets up what it can of the services `what`, and goes on. *)
SetUp(what, calls) ==
  /\ \/ services' = services \cup what /\ UNCHANGED boardVars
     \/ /\ \E up \in SUBSET what : up # what /\ services' = services \cup up
        /\ OneFails(calls)
  /\ UNCHANGED <<mounted, num_ids, file, flashVars>>

setup_wish_server ==
  /\ Running /\ mist = "server"
  /\ SetUp({"server"}, {"socket", "bind", "listen"})
  /\ mist' = "discovery"

(* Two sockets: one hears adverts, the other one sends them. *)
setup_wish_local_discovery ==
  /\ Running /\ mist = "discovery"
  /\ SetUp({"discovery", "adverts"}, {"socket", "bind"})
  /\ mist' = "config"

(* Without memory the function returns at once. *)
mist_config_init ==
  /\ Running /\ mist = "config"
  /\ SetUp({"MistConfig"}, {"start_mist_app", "wish_app_create"})
  /\ mist' = "sensors"

(* The sensor is initialized last; the application does without it. *)
xdk_sensors_app_init ==
  /\ Running /\ mist = "sensors"
  /\ \/ services' = services \cup {"Sensors", "orientation"} /\ UNCHANGED boardVars
     \/ services' = services \cup {"Sensors"} /\ FailOnly("Orientation_init")
     \/ UNCHANGED services /\ OneFails({"start_mist_app", "wish_app_create"})
  /\ mist' = "loop"
  /\ UNCHANGED <<mounted, num_ids, file, flashVars>>

(* The core saves a friend, which takes an identity of its own. *)
Befriend ==
  /\ Running /\ mist = "loop" /\ mounted /\ num_ids > 0
  /\ friends < MaxFriends
  /\ friends' = friends + 1
  /\ num_ids' = num_ids + 1
  /\ UNCHANGED <<boardVars, mist, mounted, file, services, own, misreads>>

-----------------------------------------------------------------------------

(* The access point goes away.  The callback of the disconnect prints it,  *)
(* and nothing joins again.                                                *)
LinkLost ==
  /\ wlan
  /\ wlan' = FALSE
  /\ UNCHANGED <<joinUnchanged, failed, step, timer, network_init, dhcpVars>>

(***************************************************************************)
(* The power fails and comes back, or the board is reset.  What was in the *)
(* cache may have got to the flash.                                        *)
(***************************************************************************)
PowerCycle ==
  /\ "power" \in Fails
  /\ started' = FALSE /\ halted' = FALSE /\ failed' = FALSE
  /\ commands' = <<>> /\ step' = "idle"
  /\ timer' = FALSE /\ once' = FALSE /\ network_init' = FALSE
  /\ callback' = FALSE /\ dhcpFlag' = FALSE
  /\ wlan' \in BOOLEAN
  /\ mist' = "none" /\ mounted' = FALSE /\ num_ids' = 0
  /\ file' = "closed" /\ services' = {}
  /\ own' = own \/ (file = "written" /\ own' = own + 1)
  /\ UNCHANGED <<mode, friends, misreads>>

CommandProcessor ==
  \/ main
  \/ appInitSystem \/ ScanAndGetIp
  \/ scanNetwork \/ Disconnect \/ SetIp \/ Connect \/ GetIp \/ StartTimer

MistTask ==
  \/ mist_task_init \/ my_spiffs_mount \/ port_platform_deps
  \/ port_platform_load_identities
  \/ my_fs_open \/ my_fs_write \/ my_fs_close \/ ReloadIdentities
  \/ setup_wish_server \/ setup_wish_local_discovery
  \/ mist_config_init \/ xdk_sensors_app_init

Next ==
  \/ CommandProcessor
  \/ EnqueueScanwifiNetwork
  \/ MistTask
  \/ Befriend \/ myDhcpIpCallbackFunc \/ LinkLost \/ PowerCycle

Spec == Init /\ [][Next]_vars

(* FreeRTOS runs each of the three tasks that is ready. *)
LiveSpec ==
  /\ Spec
  /\ WF_vars(CommandProcessor)
  /\ WF_vars(EnqueueScanwifiNetwork)
  /\ WF_vars(MistTask)

-----------------------------------------------------------------------------

(***************************************************************************)
(* Once port_main has been called, setAndGetIp does not take the network   *)
(* away from it: no ScanAndGetIp is queued or on its way to a disconnect,  *)
(* although the timer is restarted and expires again                       *)
(* (mist-port-bosch-xdk.c:229, 371, 477, 495, 559).                        *)
(***************************************************************************)
NoRejoinUnderMist ==
  mist \notin {"none", "waiting"} =>
    /\ step \notin Joining
    /\ \A i \in DOMAIN commands : commands[i] # "ScanAndGetIp"

(***************************************************************************)
(* However often the power fails, and wherever start-up is then, the board *)
(* makes itself one identity only (port_platform.c:47-65).  A failed mount *)
(* hides the identities, but also keeps a second one from being saved, and *)
(* what the power failure leaves of a file that was being written is found *)
(* by the next start.  Only a read of the identities that fails can bring  *)
(* about another identity, and each of them only one.  Friends always      *)
(* belong to an identity.                                                  *)
(***************************************************************************)
OneIdentity == own <= 1 + misreads /\ (friends > 0 => own > 0)

(***************************************************************************)
(* As long as the calls succeed that the board cannot do without, and the  *)
(* power does not fail for ever, Wish is running in the end with an        *)
(* identity and all it is to serve, whatever becomes of the WLAN: a join   *)
(* that fails is only printed (mist-port-bosch-xdk.c:295-312, 559-568;     *)
(* port_main.c:55-83).  This holds of the mode the port is built with;     *)
(* with the other three network_init is never set.                         *)
(***************************************************************************)
MistStarts ==
  mode = 2 =>
    \/ []<>~started
    \/ <>[](failed \/ (mist = "loop" /\ num_ids > 0 /\ services = Service))
=============================================================================
