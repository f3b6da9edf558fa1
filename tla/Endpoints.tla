------------------------------ MODULE Endpoints -------------------------------
(***************************************************************************)
(* The Mist models of the two built-in applications: the endpoints         *)
(* MistConfig and Sensors register when they start, where they are in the  *)
(* tree, and what their read functions answer (mist_config.c, xdk_sensors  *)
(* .c).  An endpoint is named by its id; its full id is its path, for      *)
(* instance <<"mist", "name">>.                                            *)
(***************************************************************************)
EXTENDS Sequences

CONSTANTS MistConfig, Sensors

App == {MistConfig, Sensors}

Root == "root"

(* mist_ep_add: the endpoints with their parents. *)
ConfigTree ==
  [mist |-> Root, name |-> "mist", mistType |-> Root, mistVersion |-> Root,
   mistWifiListAvailable |-> Root, mistWifiCommissioning |-> Root,
   portVersion |-> Root, uptime |-> Root]

(* The mist_ep structures of Sensors, ...                                  *)
SensorsEp ==
  {"mist", "name", "accelerometer", "x", "y", "z", "orientation",
   "environment", "rh", "abs_hum", "t", "p", "test"}

(* ... and those no mist_ep_add is compiled for.                           *)
Unregistered ==
  {"accelerometer", "x", "y", "z", "environment", "rh", "abs_hum", "t", "p", "test"}

SensorsTree ==
  [ep \in SensorsEp \ Unregistered |-> IF ep = "name" THEN "mist" ELSE Root]

Tree(app) == IF app = MistConfig THEN ConfigTree ELSE SensorsTree

(* .read is NULL for these; they can only be invoked. *)
InvokeOnly == {"mistWifiListAvailable", "mistWifiCommissioning"}

Operations == {"read", "invoke"}

(* What a peer can ask of the endpoints of an application. *)
Question ==
  (UNION {[op : {"read"}, app : {app}, ep : DOMAIN Tree(app) \ InvokeOnly] : app \in App})
    \cup [op : {"invoke"}, app : {MistConfig}, ep : InvokeOnly]

mist_ep_full_epid(app, ep) ==
  IF Tree(app)[ep] = Root THEN <<ep>> ELSE <<Tree(app)[ep], ep>>

(* A read's answer: the endpoint it speaks of and the datum; NoData if the *)
(* document has no "data".                                                 *)
Reply(epid, data) == [epid |-> epid, data |-> data]
NoData == "no data"
ApiError == "error"

(* Mutant: the id of the endpoint in place of its full id. *)
WifiReadShortId(ep) ==
  {Reply(<<ep>>, "MistConfig")}

wifi_read(ep) ==
  {Reply(mist_ep_full_epid(MistConfig, ep),
     CASE ep = "mistType"    -> "WifiCommissioning"
       [] ep = "mistVersion" -> "1.0.1"
       [] ep = "portVersion" -> "PORT_VERSION"
       [] ep = "uptime"      -> "0"
       [] ep = "mist"        -> ""
       [] ep = "name"        -> "MistConfig"
       [] OTHER              -> NoData)}

(***************************************************************************)
(* Orientation_readEulerDegreeVal may fail.  The error is sent with the    *)
(* endpoint's own id, not with its full id.                                *)
(***************************************************************************)
sensor_read(ep) ==
  IF ep = "orientation"
  THEN {Reply(mist_ep_full_epid(Sensors, ep), "euler"), Reply(<<ep>>, ApiError)}
  ELSE {Reply(mist_ep_full_epid(Sensors, ep),
          CASE ep = "mist" -> ""
            [] ep = "name" -> "Sensors"
            [] OTHER       -> NoData)}

Answers(app, ep) == IF app = MistConfig THEN wifi_read(ep) ELSE sensor_read(ep)
=============================================================================
