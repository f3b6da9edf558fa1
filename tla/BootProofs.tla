----------------------------- MODULE BootProofs ------------------------------
(***************************************************************************)
(* Theorems about start-up, whatever calls fail, however long the command  *)
(* queue is and however often the power fails.  That ScanAndGetIp is run   *)
(* once follows from where `once` may still be FALSE; the invariant        *)
(* therefore describes every stage on the way to the first scan.           *)
(***************************************************************************)
EXTENDS Boot, SequenceTheorems, TLAPS

USE BootAssumption

(* The stages of start-up, and what holds in each of them. *)
Stages ==
  /\ \/ commands = <<>>
     \/ commands = <<"appInitSystem">>
     \/ commands = <<"ScanAndGetIp">>
  /\ ~started => commands = <<>> /\ ~timer /\ ~once
  /\ commands = <<"appInitSystem">> => ~timer /\ ~once
  /\ commands = <<"ScanAndGetIp">> =>
       once /\ ~timer /\ ~network_init /\ step = "idle"
  /\ ~once => step = "idle" /\ ~network_init
  /\ timer => commands = <<>> /\ step = "idle"
  /\ step # "idle" => commands = <<>>
  /\ step \in Joining => ~network_init
  /\ mist \notin {"none", "waiting"} => network_init

(* An identity is being saved only if the flash has none, or if a read of  *)
(* those it has went wrong and has not yet cost a second one.              *)
Identities ==
  /\ own <= 1 + misreads
  /\ friends > 0 => own > 0
  /\ mist \in Saving /\ mounted => own <= misreads
  /\ file # "closed" => mounted /\ mist \in Saving
  /\ num_ids > 0 => own > 0

(* TypeOK in two parts: the provers take flags and data one at a time.     *)
Flags ==
  /\ started \in BOOLEAN
  /\ halted \in BOOLEAN
  /\ failed \in BOOLEAN
  /\ timer \in BOOLEAN
  /\ once \in BOOLEAN
  /\ network_init \in BOOLEAN
  /\ callback \in BOOLEAN
  /\ dhcpFlag \in BOOLEAN
  /\ wlan \in BOOLEAN
  /\ mounted \in BOOLEAN

Values ==
  /\ mode \in Modes
  /\ commands \in Seq(Command) /\ Len(commands) <= QueueLen
  /\ step \in Joining \cup {"idle", "startTimer"}
  /\ mist \in Saving \cup {"none", "waiting", "mount", "deps", "load", "reload",
                           "server", "discovery", "config", "sensors", "loop"}
  /\ num_ids \in Nat
  /\ file \in {"closed", "open", "written"}
  /\ services \in SUBSET Service
  /\ own \in Nat /\ friends \in 0 .. MaxFriends /\ misreads \in 0 .. MaxMisreads

IInv == Flags /\ Values /\ Stages /\ Identities

LEMMA CommandFacts ==
  /\ <<>> \in Seq(Command) /\ Len(<<>>) = 0
  /\ \A c \in Command :
       /\ <<c>> \in Seq(Command) /\ Len(<<c>>) = 1
       /\ <<c>> # <<>>
       /\ Head(<<c>>) = c /\ Tail(<<c>>) = <<>>
       /\ Append(<<>>, c) = <<c>>
BY DEF Command

(* The three values of the command queue are different.                    *)
LEMMA QueuesDiffer ==
  /\ <<"appInitSystem">> # <<>>
  /\ <<"ScanAndGetIp">> # <<>>
  /\ <<"appInitSystem">> # <<"ScanAndGetIp">>
  /\ <<>> \in Seq(Command) /\ Len(<<>>) = 0
  /\ <<"appInitSystem">> \in Seq(Command) /\ Len(<<"appInitSystem">>) = 1
  /\ <<"ScanAndGetIp">> \in Seq(Command) /\ Len(<<"ScanAndGetIp">>) = 1
<1>1. Head(<<"appInitSystem">>) # Head(<<"ScanAndGetIp">>)
  OBVIOUS
<1>2. QED
  BY <1>1, CommandFacts DEF Command

(* The tuples of variables that actions leave alone, taken apart.          *)
LEMMA MistVarsUnchanged ==
  ASSUME UNCHANGED mistVars
  PROVE  UNCHANGED <<mist, mounted, num_ids, file, services, own, friends, misreads>>
BY DEF mistVars, ramVars, flashVars

LEMMA BoardVarsUnchanged ==
  ASSUME UNCHANGED boardVars
  PROVE  UNCHANGED <<mode, started, halted, failed, commands, step, timer, once,
                     network_init, callback, dhcpFlag, wlan>>
BY DEF boardVars, dhcpVars

LEMMA InitIInv == Init => IInv
<1> SUFFICES ASSUME Init PROVE IInv
  OBVIOUS
<1>1. Flags
  BY DEF Init, Flags
<1>2. Values
  BY QueuesDiffer DEF Init, Values, Service
<1>3. Stages
  BY QueuesDiffer DEF Init, Stages, Joining
<1>4. Identities
  BY DEF Init, Identities, Saving
<1>5. QED
  BY <1>1, <1>2, <1>3, <1>4 DEF IInv

(***************************************************************************)
(* The identities depend on what the Mist task and the core do only: steps *)
(* of the board keep them.                                                 *)
(***************************************************************************)
LEMMA BoardKeepsIdentities == Identities /\ UNCHANGED mistVars => Identities'
BY MistVarsUnchanged DEF Identities

LEMMA MainStep == IInv /\ main => IInv'
<1> SUFFICES ASSUME IInv, main PROVE IInv'
  OBVIOUS
<1>0. UNCHANGED mistVars
  BY DEF main
<1>1. Flags'
  BY <1>0, MistVarsUnchanged DEF main, Halt, Fail, IInv, Flags, dhcpVars
<1>2. /\ \/ started' /\ commands' = <<"appInitSystem">>
         \/ UNCHANGED <<started, commands>>
      /\ ~started
      /\ UNCHANGED <<mode, step, timer, once, network_init>>
  BY DEF main
<1>3. Values'
  <2>1. 1 <= QueueLen
    OBVIOUS
  <2>2. commands' \in Seq(Command) /\ Len(commands') <= QueueLen
    BY <1>2, <2>1, QueuesDiffer DEF IInv, Values
  <2>3. QED
    BY <1>0, <1>2, <2>2, MistVarsUnchanged DEF IInv, Values
<1>4. Stages'
  BY <1>0, <1>2, QueuesDiffer, MistVarsUnchanged DEF IInv, Stages, Joining
<1>5. Identities'
  BY <1>0, BoardKeepsIdentities DEF IInv
<1>6. QED
  BY <1>1, <1>3, <1>4, <1>5 DEF IInv

LEMMA AppInitStep == IInv /\ appInitSystem => IInv'
<1> SUFFICES ASSUME IInv, appInitSystem PROVE IInv'
  OBVIOUS
<1>0. UNCHANGED <<mode, started, step, once, network_init, callback, dhcpFlag, wlan,
                  mounted, num_ids, file, services, own, friends, misreads>>
  BY DEF appInitSystem, dhcpVars, ramVars, flashVars
<1>1. commands = <<"appInitSystem">> /\ commands' = <<>> /\ step = "idle"
  BY CommandFacts
     DEF appInitSystem, Begin, IInv, Stages, Command
<1>2. mist' = "waiting" \/ mist' = mist
  BY DEF appInitSystem
<1>3. file = "closed" /\ ~network_init
  BY <1>1, QueuesDiffer DEF IInv, Stages, Identities, Saving
<1>4. Flags'
  BY <1>0 DEF appInitSystem, Halt, Fail, IInv, Flags
<1>5. Values'
  BY <1>0, <1>1, <1>2, QueuesDiffer DEF IInv, Values
<1>6. Stages'
  BY <1>0, <1>1, <1>2, QueuesDiffer
     DEF appInitSystem, Begin, Running, IInv, Stages, Joining
<1>7. Identities'
  BY <1>0, <1>2, <1>3 DEF IInv, Identities, Saving
<1>8. QED
  BY <1>4, <1>5, <1>6, <1>7 DEF IInv

LEMMA ScanStep == IInv /\ ScanAndGetIp => IInv'
<1> SUFFICES ASSUME IInv, ScanAndGetIp PROVE IInv'
  OBVIOUS
<1>0. /\ UNCHANGED mistVars
      /\ UNCHANGED <<mode, started, halted, failed, timer, once, network_init,
                     callback, dhcpFlag, wlan>>
      /\ step' = "scanNetwork" /\ started
  BY DEF ScanAndGetIp, Begin, Running, dhcpVars
<1>1. commands = <<"ScanAndGetIp">> /\ commands' = <<>>
  BY CommandFacts
     DEF ScanAndGetIp, Begin, IInv, Stages, Command
<1>2. Flags' /\ Values'
  BY <1>0, <1>1, QueuesDiffer, MistVarsUnchanged DEF IInv, Flags, Values, Joining
<1>3. Stages'
  BY <1>0, <1>1, QueuesDiffer, MistVarsUnchanged DEF IInv, Stages, Joining
<1>4. Identities'
  BY <1>0, BoardKeepsIdentities DEF IInv
<1>5. QED
  BY <1>2, <1>3, <1>4 DEF IInv

LEMMA TimerStep == IInv /\ EnqueueScanwifiNetwork => IInv'
<1> SUFFICES ASSUME IInv, EnqueueScanwifiNetwork PROVE IInv'
  OBVIOUS
<1>0. /\ UNCHANGED mistVars
      /\ UNCHANGED <<mode, started, halted, step, network_init, callback, dhcpFlag, wlan>>
  BY DEF EnqueueScanwifiNetwork, dhcpVars
<1>1. commands = <<>> /\ step = "idle"
  BY DEF EnqueueScanwifiNetwork, IInv, Stages
<1>2. \/ commands' = <<>>
      \/ commands' = <<"ScanAndGetIp">> /\ ~once
  BY <1>1, CommandFacts DEF EnqueueScanwifiNetwork, Command
<1>3. Flags'
  BY <1>0, MistVarsUnchanged DEF EnqueueScanwifiNetwork, Fail, IInv, Flags
<1>4. Values'
  <2>1. 1 <= QueueLen /\ QueueLen \in Nat
    OBVIOUS
  <2>2. commands' = <<>> \/ commands' = <<"ScanAndGetIp">>
    BY <1>2
  <2>3. commands' \in Seq(Command) /\ Len(commands') <= QueueLen
    <3>1. CASE commands' = <<>>
      BY <2>1, <3>1, QueuesDiffer
    <3>2. CASE commands' = <<"ScanAndGetIp">>
      <4>1. Len(<<"ScanAndGetIp">>) <= QueueLen
        BY <2>1, QueuesDiffer
      <4>2. QED
        BY <3>2, <4>1, QueuesDiffer
    <3>3. QED
      BY <2>2, <3>1, <3>2
  <2>4. QED
    BY <1>0, <2>3, MistVarsUnchanged DEF IInv, Values
<1>5. Stages'
  BY <1>0, <1>1, <1>2, QueuesDiffer, MistVarsUnchanged
     DEF EnqueueScanwifiNetwork, Running, IInv, Stages, Joining
<1>6. Identities'
  BY <1>0, BoardKeepsIdentities DEF IInv
<1>7. QED
  BY <1>3, <1>4, <1>5, <1>6 DEF IInv

(* A step of ScanAndGetIp, between its calls, or of the radio. *)
LEMMA JoinStep ==
  IInv /\ (scanNetwork \/ Disconnect \/ SetIp \/ Connect \/ GetIp \/ StartTimer
             \/ myDhcpIpCallbackFunc \/ LinkLost) => IInv'
<1> SUFFICES ASSUME IInv,
                    scanNetwork \/ Disconnect \/ SetIp \/ Connect \/ GetIp \/ StartTimer
                      \/ myDhcpIpCallbackFunc \/ LinkLost
             PROVE  IInv'
  OBVIOUS
<1>1. /\ UNCHANGED mistVars
      /\ UNCHANGED <<mode, started, commands, once>>
      /\ callback' \in BOOLEAN /\ dhcpFlag' \in BOOLEAN /\ wlan' \in BOOLEAN
      /\ failed' \in BOOLEAN /\ halted' \in BOOLEAN
  BY DEF scanNetwork, Disconnect, SetIp, Connect, GetIp, StartTimer, LinkLost,
         myDhcpIpCallbackFunc, joinUnchanged, dhcpVars, Halt, Fail, IInv, Flags
<1>2. \/ /\ step \in Joining /\ step' \in Joining
         /\ UNCHANGED <<timer, network_init>>
      \/ /\ step \in Joining /\ step' = "startTimer"
         /\ network_init' \in BOOLEAN /\ UNCHANGED timer
      \/ /\ step = "startTimer" /\ step' = "idle"
         /\ timer' \in BOOLEAN /\ UNCHANGED network_init
         /\ started
      \/ UNCHANGED <<step, timer, network_init>>
  BY DEF scanNetwork, Disconnect, SetIp, Connect, GetIp, StartTimer, LinkLost,
         myDhcpIpCallbackFunc, joinUnchanged, Joining, IInv, Flags, At, Running
<1>3. Flags'
  BY <1>1, <1>2, MistVarsUnchanged DEF IInv, Flags
<1>4. Values'
  BY <1>1, <1>2, MistVarsUnchanged DEF IInv, Values, Joining
<1>5. Stages'
  BY <1>1, <1>2, MistVarsUnchanged, QueuesDiffer DEF IInv, Stages, Joining
<1>6. Identities'
  BY <1>1, BoardKeepsIdentities DEF IInv
<1>7. QED
  BY <1>3, <1>4, <1>5, <1>6 DEF IInv

(***************************************************************************)
(* A step of the Mist task leaves the rest of the board alone, except that *)
(* a failure is noted.  It keeps Stages once the task has left "waiting".  *)
(***************************************************************************)
TaskStep ==
  /\ failed' \in BOOLEAN
  /\ UNCHANGED <<mode, started, halted, commands, step, timer, once, network_init,
                 callback, dhcpFlag, wlan>>
  /\ network_init
  /\ mist' \notin {"none", "waiting"}

LEMMA FailOnlyStep ==
  ASSUME NEW call, FailOnly(call)
  PROVE  /\ failed' \in BOOLEAN
         /\ UNCHANGED <<mode, started, halted, commands, step, timer, once,
                        network_init, callback, dhcpFlag, wlan>>
BY DEF FailOnly, Fail, dhcpVars

LEMMA NoFailureStep ==
  ASSUME IInv, UNCHANGED boardVars
  PROVE  /\ failed' \in BOOLEAN
         /\ UNCHANGED <<mode, started, halted, commands, step, timer, once,
                        network_init, callback, dhcpFlag, wlan>>
BY BoardVarsUnchanged DEF IInv, Flags

LEMMA TaskKeepsStages ==
  ASSUME IInv, TaskStep, mounted' \in BOOLEAN
  PROVE  Flags' /\ Stages'
<1>1. Flags'
  BY DEF TaskStep, IInv, Flags
<1>2. Stages'
  BY DEF TaskStep, IInv, Stages
<1>3. QED
  BY <1>1, <1>2

(* What is outside the Mist task, if its values have their types again.    *)
LEMMA TaskKeeps ==
  ASSUME IInv, TaskStep, mounted' \in BOOLEAN,
         mist' \in Saving \cup {"mount", "deps", "load", "reload",
                     "server", "discovery", "config", "sensors", "loop"},
         num_ids' \in Nat,
         file' \in {"closed", "open", "written"},
         services' \in SUBSET Service,
         own' \in Nat, friends' \in 0 .. MaxFriends, misreads' \in 0 .. MaxMisreads,
         Identities'
  PROVE  IInv'
<1>1. Flags' /\ Stages'
  BY TaskKeepsStages
<1>2. Values'
  BY DEF TaskStep, IInv, Values
<1>3. QED
  BY <1>1, <1>2 DEF IInv

(* Reading the identities. *)
LEMMA UpdateStep ==
  ASSUME IInv, wish_core_update_identities,
         UNCHANGED <<mounted, file, services, own, friends>>
  PROVE  /\ failed' \in BOOLEAN
         /\ UNCHANGED <<mode, started, halted, commands, step, timer, once,
                        network_init, callback, dhcpFlag, wlan>>
         /\ num_ids' \in Nat
         /\ num_ids' > 0 => own > 0
         /\ \/ misreads' = misreads /\ num_ids' = (IF mounted THEN own + friends ELSE 0)
            \/ misreads' = misreads + 1 /\ misreads < MaxMisreads
<1>1. CASE /\ num_ids' = IF mounted THEN own + friends ELSE 0
           /\ UNCHANGED <<boardVars, misreads>>
  <2>1. num_ids' \in Nat /\ (num_ids' > 0 => own > 0)
    BY <1>1 DEF IInv, Values, Identities
  <2>2. UNCHANGED boardVars
    BY <1>1
  <2>3. QED
    BY <1>1, <2>1, <2>2, NoFailureStep
<1>2. CASE /\ mounted /\ misreads < MaxMisreads
           /\ num_ids' \in 0 .. own + friends
           /\ ReadError
           /\ misreads' = misreads + 1
  <2>1. num_ids' \in Nat /\ (num_ids' > 0 => own > 0)
    BY <1>2 DEF IInv, Values, Identities
  <2>2. QED
    BY <1>2, <2>1, FailOnlyStep DEF ReadError
<1>3. QED
  BY <1>1, <1>2 DEF wish_core_update_identities, my_fs_read

LEMMA StartServices ==
  IInv /\ (setup_wish_server \/ setup_wish_local_discovery \/ mist_config_init
             \/ xdk_sensors_app_init) => IInv'
<1> SUFFICES ASSUME IInv,
                    setup_wish_server \/ setup_wish_local_discovery
                      \/ mist_config_init \/ xdk_sensors_app_init
             PROVE  IInv'
  OBVIOUS
<1>1. /\ mist \in {"server", "discovery", "config", "sensors"}
      /\ mist' \in {"discovery", "config", "sensors", "loop"}
      /\ UNCHANGED <<mounted, num_ids, file, own, friends, misreads>>
  BY DEF setup_wish_server, setup_wish_local_discovery, mist_config_init,
         xdk_sensors_app_init, SetUp, flashVars
<1>2. services' \in SUBSET Service
  BY DEF setup_wish_server, setup_wish_local_discovery, mist_config_init,
         xdk_sensors_app_init, SetUp, Service, IInv, Values
<1>3. \/ UNCHANGED boardVars
      \/ \E call : FailOnly(call)
  BY DEF setup_wish_server, setup_wish_local_discovery, mist_config_init,
         xdk_sensors_app_init, SetUp, OneFails
<1>4. TaskStep
  BY <1>1, <1>3, NoFailureStep, FailOnlyStep DEF TaskStep, IInv, Stages
<1>5. mounted' \in BOOLEAN
  BY <1>1 DEF IInv, Flags
<1>6. Identities'
  BY <1>1 DEF IInv, Identities, Saving
<1>7. /\ num_ids' \in Nat /\ file' \in {"closed", "open", "written"}
      /\ own' \in Nat /\ friends' \in 0 .. MaxFriends /\ misreads' \in 0 .. MaxMisreads
  BY <1>1 DEF IInv, Values
<1>8. QED
  BY <1>1, <1>2, <1>4, <1>5, <1>6, <1>7, TaskKeeps

LEMMA MistStep == IInv /\ (MistTask \/ Befriend) => IInv'
<1> SUFFICES ASSUME IInv, MistTask \/ Befriend PROVE IInv'
  OBVIOUS
<1>0. /\ mounted \in BOOLEAN /\ num_ids \in Nat
      /\ file \in {"closed", "open", "written"} /\ services \in SUBSET Service
      /\ own \in Nat /\ friends \in 0 .. MaxFriends /\ misreads \in 0 .. MaxMisreads
      /\ MaxFriends \in Nat /\ MaxMisreads \in Nat
  BY DEF IInv, Flags, Values
<1>1. CASE mist_task_init
  <2>1. UNCHANGED boardVars /\ mist' = "mount" /\ network_init
        /\ mist = "waiting"
        /\ UNCHANGED <<mounted, num_ids, file, services, own, friends, misreads>>
    BY <1>1 DEF mist_task_init, ramVars, flashVars
  <2>2. TaskStep
    BY <2>1, NoFailureStep DEF TaskStep
  <2>3. Identities'
    BY <2>1 DEF IInv, Identities, Saving
  <2>4. QED
    BY <1>0, <2>1, <2>2, <2>3, TaskKeeps
<1>2. CASE my_spiffs_mount
  <2>1. /\ mist = "mount" /\ mist' = "deps" /\ mounted' \in BOOLEAN
        /\ UNCHANGED <<num_ids, file, services, own, friends, misreads>>
    BY <1>2 DEF my_spiffs_mount, flashVars
  <2>2. TaskStep
    BY <1>2, <2>1, NoFailureStep, FailOnlyStep
       DEF my_spiffs_mount, ReadError, TaskStep, IInv, Stages
  <2>3. Identities'
    BY <2>1 DEF IInv, Identities, Saving
  <2>4. QED
    BY <1>0, <2>1, <2>2, <2>3, TaskKeeps
<1>3. CASE port_platform_deps
  <2>1. /\ mist = "deps" /\ mist' = "load" /\ UNCHANGED boardVars
        /\ UNCHANGED <<mounted, num_ids, file, services, own, friends, misreads>>
    BY <1>3 DEF port_platform_deps, ramVars, flashVars
  <2>2. TaskStep
    BY <2>1, NoFailureStep DEF TaskStep, IInv, Stages
  <2>3. Identities'
    BY <2>1 DEF IInv, Identities, Saving
  <2>4. QED
    BY <1>0, <2>1, <2>2, <2>3, TaskKeeps
<1>4. CASE port_platform_load_identities
  <2>1. /\ mist = "load" /\ wish_core_update_identities
        /\ mist' = IF num_ids' = 0 THEN "open" ELSE "server"
        /\ UNCHANGED <<mounted, file, services, own, friends>>
    BY <1>4 DEF port_platform_load_identities
  <2>2. TaskStep
    BY <2>1, UpdateStep DEF TaskStep, IInv, Stages
  <2>3. num_ids' \in Nat /\ misreads' \in 0 .. MaxMisreads
    BY <1>0, <2>1, UpdateStep
  <2>4. mounted /\ num_ids' = 0 => own <= misreads'
    BY <1>0, <2>1, UpdateStep DEF IInv, Identities
  <2>5. file = "closed"
    BY <2>1 DEF IInv, Identities, Saving
  <2>6. own <= 1 + misreads' /\ (num_ids' > 0 => own > 0)
    BY <1>0, <2>1, UpdateStep DEF IInv, Identities
  <2>7. Identities'
    BY <1>0, <2>1, <2>4, <2>5, <2>6 DEF IInv, Identities, Saving
  <2>8. QED
    BY <1>0, <2>1, <2>2, <2>3, <2>7, TaskKeeps DEF Saving
<1>5. CASE my_fs_open
  <2>1. /\ mist = "open" /\ mist' = "write"
        /\ file' = file \/ (mounted /\ file' = "open")
        /\ UNCHANGED <<mounted, num_ids, services, own, friends, misreads>>
    BY <1>5 DEF my_fs_open, flashVars
  <2>2. TaskStep
    BY <1>5, <2>1, NoFailureStep, FailOnlyStep
       DEF my_fs_open, ReadError, WriteError, TaskStep, IInv, Stages
  <2>3. Identities'
    BY <2>1 DEF IInv, Identities, Saving
  <2>4. QED
    BY <1>0, <2>1, <2>2, <2>3, TaskKeeps DEF Saving
<1>6. CASE my_fs_write
  <2>1. /\ mist = "write" /\ mist' = "close"
        /\ file' = file \/ (file = "open" /\ file' = "written")
        /\ UNCHANGED <<mounted, num_ids, services, own, friends, misreads>>
    BY <1>6 DEF my_fs_write, flashVars
  <2>2. TaskStep
    BY <1>6, <2>1, NoFailureStep, FailOnlyStep
       DEF my_fs_write, EraseError, WriteError, TaskStep, IInv, Stages
  <2>3. Identities'
    BY <2>1 DEF IInv, Identities, Saving
  <2>4. QED
    BY <1>0, <2>1, <2>2, <2>3, TaskKeeps DEF Saving
<1>7. CASE my_fs_close
  <2>1. /\ mist = "close" /\ mist' = "reload" /\ file' = "closed"
        /\ own' = own \/ (file = "written" /\ own' = own + 1)
        /\ UNCHANGED <<mounted, num_ids, services, friends, misreads>>
    BY <1>7 DEF my_fs_close
  <2>2. TaskStep
    BY <1>7, <2>1, NoFailureStep, FailOnlyStep
       DEF my_fs_close, EraseError, WriteError, TaskStep, IInv, Stages
  <2>3. file = "written" => own <= misreads
    BY <2>1 DEF IInv, Identities, Saving
  <2>4. Identities'
    BY <1>0, <2>1, <2>3 DEF IInv, Identities, Saving
  <2>5. QED
    BY <1>0, <2>1, <2>2, <2>4, TaskKeeps
<1>8. CASE ReloadIdentities
  <2>1. /\ mist = "reload" /\ wish_core_update_identities
        /\ mist' = "server"
        /\ UNCHANGED <<mounted, file, services, own, friends>>
    BY <1>8 DEF ReloadIdentities
  <2>2. TaskStep
    BY <2>1, UpdateStep DEF TaskStep, IInv, Stages
  <2>3. num_ids' \in Nat /\ misreads' \in 0 .. MaxMisreads
    BY <1>0, <2>1, UpdateStep
  <2>4. own <= 1 + misreads' /\ (num_ids' > 0 => own > 0)
    BY <1>0, <2>1, UpdateStep DEF IInv, Identities
  <2>5. Identities'
    BY <1>0, <2>1, <2>4 DEF IInv, Identities, Saving
  <2>6. QED
    BY <1>0, <2>1, <2>2, <2>3, <2>5, TaskKeeps
<1>9. CASE Befriend
  <2>1. /\ mist = "loop" /\ num_ids > 0 /\ friends < MaxFriends
        /\ friends' = friends + 1 /\ num_ids' = num_ids + 1
        /\ UNCHANGED boardVars
        /\ UNCHANGED <<mist, mounted, file, services, own, misreads>>
    BY <1>9 DEF Befriend
  <2>2. TaskStep
    BY <2>1, NoFailureStep DEF TaskStep, IInv, Stages
  <2>3. Identities'
    BY <1>0, <2>1 DEF IInv, Identities, Saving
  <2>4. QED
    BY <1>0, <2>1, <2>2, <2>3, TaskKeeps
<1>10. QED
  BY <1>1, <1>2, <1>3, <1>4, <1>5, <1>6, <1>7, <1>8, <1>9, StartServices DEF MistTask

LEMMA OutsideStep == IInv /\ (PowerCycle \/ UNCHANGED vars) => IInv'
<1> SUFFICES ASSUME IInv, PowerCycle \/ UNCHANGED vars PROVE IInv'
  OBVIOUS
<1>1. CASE PowerCycle
  <2>1. Flags'
    BY <1>1 DEF PowerCycle, Flags
  <2>2. own' = own \/ (file = "written" /\ own' = own + 1)
    BY <1>1 DEF PowerCycle
  <2>3. Values'
    BY <1>1, <2>2, QueuesDiffer DEF PowerCycle, IInv, Values
  <2>4. Stages'
    BY <1>1, QueuesDiffer DEF PowerCycle, Stages, Joining
  <2>5. file = "written" => own <= misreads
    BY DEF IInv, Identities
  <2>6. Identities'
    BY <1>1, <2>2, <2>5 DEF PowerCycle, IInv, Values, Identities, Saving
  <2>7. QED
    BY <2>1, <2>3, <2>4, <2>6 DEF IInv
<1>2. CASE UNCHANGED vars
  <2>1. UNCHANGED boardVars /\ UNCHANGED mistVars
    BY <1>2 DEF vars
  <2>2. QED
    BY <2>1, BoardVarsUnchanged, MistVarsUnchanged
       DEF IInv, Flags, Values, Stages, Identities
<1>3. QED
  BY <1>1, <1>2

LEMMA Inductive == Spec => []IInv
<1>1. IInv /\ [Next]_vars => IInv'
  BY MainStep, AppInitStep, ScanStep, TimerStep, JoinStep, MistStep, OutsideStep
     DEF Next, CommandProcessor
<1>2. QED
  BY InitIInv, <1>1, PTL DEF Spec

(* port_main is not called before the last disconnect, and no ScanAndGetIp *)
(* follows.                                                                *)
THEOREM NoRejoin == Spec => []NoRejoinUnderMist
<1>1. IInv => NoRejoinUnderMist
  BY CommandFacts
     DEF IInv, Stages, NoRejoinUnderMist, Command
<1>2. QED
  BY Inductive, <1>1, PTL

(* The board never makes itself another identity unless reading those it   *)
(* has has failed.                                                         *)
THEOREM IdentityIsUnique == Spec => []OneIdentity
<1>1. IInv => OneIdentity
  BY DEF IInv, Identities, OneIdentity
<1>2. QED
  BY Inductive, <1>1, PTL

(* The types, and with them the bound on the command queue.                *)
THEOREM TypeCorrect == Spec => []TypeOK
<1>1. IInv => TypeOK
  BY DEF IInv, Flags, Values, TypeOK
<1>2. QED
  BY Inductive, <1>1, PTL
=============================================================================
