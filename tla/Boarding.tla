------------------------------ MODULE Boarding ------------------------------
(***************************************************************************)
(* How the device gets its Wi-Fi network (main.c, device_flash.c,          *)
(* tc_iot_wifi_boarding_esp8266.c): what the flash says decides what a     *)
(* boot does; without a network the device opens an access point of its    *)
(* own (softAP) or listens to the air (smartconfig), and two tasks, one    *)
(* for the phone's commands and one for Wi-Fi and MQTT, work beside the    *)
(* one that started them and beside the event handler of the Wi-Fi driver. *)
(* The power may be cut at any step.                                       *)
(***************************************************************************)
EXTENDS Naturals

CONSTANTS
  Networks,       \* networks the user may send, each an SSID with a password
  Usable,         \* those the device can connect to
  MaxPolls,       \* turns of udp_server_task and tcp_server_task
  MaxBlinks,      \* turns of softAP_task and smartconfig_task
  MaxCuts         \* bound: power cuts

ASSUME BoardingAssumption ==
  /\ Usable \subseteq Networks
  /\ {"absent", "empty"} \cap Networks = {}
  /\ MaxPolls \in Nat \ {0} /\ MaxBlinks \in Nat \ {0} /\ MaxCuts \in Nat

VARIABLES
  \* flash
  wifi_status, ssid, password,
  \* the device
  mode,           \* "boot", "softap", "smart", "station", "online", "factory"
                  \* or "idle"
  starting,       \* what start_softAP or start_smartconfig does next
  comm,           \* the server task
  polls,          \* its turns left
  wifi,           \* the softAP or smartconfig task
  blinks,         \* its turns left
  comm_task_run, wifi_task_run, \* g_comm_task_run; g_sap_task_run or
                  \* g_smart_task_run
  mqtt_connected, signature_sent,
  tmp,            \* ssid_tmp and password_tmp, always written together
  finished,       \* a command said that everything is done
  \* the driver
  target,         \* the network it was told to connect to
  sta_connected, connected_bit, done_bit,
  ap,             \* its own access point is open
  cuts

flashVars == <<wifi_status, ssid, password>>
flagVars  == <<comm_task_run, wifi_task_run, mqtt_connected, signature_sent>>
taskVars  == <<starting, comm, polls, wifi, blinks, tmp, finished>>
wifiVars  == <<target, sta_connected, connected_bit, done_bit, ap>>
ramVars   == <<flagVars, taskVars, wifiVars>>
vars == <<flashVars, mode, ramVars, cuts>>

Values == Networks \cup {"absent", "empty"}

\* The flash is new, or holds what an earlier life of the device left there.
Init ==
  /\ wifi_status \in {"none", "smart", "sta", "softap", "fac"}
  /\ ssid \in Networks \cup {"absent"} /\ password = ssid
  /\ mode = "boot"
  /\ starting = "no" /\ comm = "none" /\ wifi = "none"
  /\ polls = MaxPolls /\ blinks = MaxBlinks
  /\ comm_task_run = FALSE /\ wifi_task_run = FALSE
  /\ mqtt_connected = FALSE /\ signature_sent = FALSE
  /\ tmp = "empty" /\ finished = FALSE
  /\ target = "empty" /\ sta_connected = FALSE
  /\ connected_bit = FALSE /\ done_bit = FALSE /\ ap = FALSE
  /\ cuts = 0

\* esp_restart, and the power coming back.
Reset(to) ==
  /\ mode' = to
  /\ starting' = "no" /\ comm' = "none" /\ wifi' = "none"
  /\ polls' = MaxPolls /\ blinks' = MaxBlinks
  /\ comm_task_run' = FALSE /\ wifi_task_run' = FALSE
  /\ mqtt_connected' = FALSE /\ signature_sent' = FALSE
  /\ tmp' = "empty" /\ finished' = FALSE
  /\ target' = "empty" /\ sta_connected' = FALSE
  /\ connected_bit' = FALSE /\ done_bit' = FALSE /\ ap' = FALSE

Restart == Reset("boot")

PowerCut ==
  /\ cuts < MaxCuts /\ cuts' = cuts + 1
  /\ Restart
  /\ UNCHANGED flashVars

-----------------------------------------------------------------------------
(***************************************************************************)
(* app_main.                                                               *)
(***************************************************************************)
Boot ==
  /\ mode = "boot" /\ starting = "no"
  /\ \/ \* no status, softAP asked for, or no network known
        /\ \/ wifi_status \in {"none", "softap"}
           \/ wifi_status = "sta" /\ ssid = "absent"
        /\ mode' = "softap" /\ starting' = "comm" /\ ap' = TRUE
        /\ wifi_status' = "sta"
     \/ \* the network that is known
        /\ wifi_status = "sta" /\ ssid # "absent" /\ password # "absent"
        /\ mode' = "station"
        /\ UNCHANGED <<wifi_status, starting, ap>>
     \/ \* an SSID without a password: no branch for it
        /\ \/ wifi_status = "sta" /\ ssid # "absent" /\ password = "absent"
           \/ wifi_status = "smart"
        /\ mode' = "idle"
        /\ UNCHANGED <<wifi_status, starting, ap>>
     \/ \* one factory test, then as before
        /\ wifi_status = "fac"
        /\ mode' = "factory" /\ wifi_status' = "sta"
        /\ UNCHANGED <<starting, ap>>
  /\ UNCHANGED <<ssid, password, flagVars, comm, polls, wifi, blinks, tmp,
                 finished, target, sta_connected, connected_bit, done_bit,
                 cuts>>

\* start_smartconfig, which is for the application to call.
StartSmartconfig ==
  /\ mode = "idle"
  /\ mode' = "smart" /\ starting' = "comm"
  /\ UNCHANGED <<flashVars, flagVars, comm, polls, wifi, blinks, tmp, finished,
                 wifiVars, cuts>>

\* As a station the device is on line, or it is told that it is disconnected
\* and restarts.
StationUp ==
  /\ mode = "station" /\ ssid \in Usable /\ ssid = password
  /\ mode' = "online"
  /\ UNCHANGED <<flashVars, ramVars, cuts>>

StationDown ==
  /\ mode \in {"station", "online"}
  /\ Restart
  /\ UNCHANGED <<flashVars, cuts>>

-----------------------------------------------------------------------------
(***************************************************************************)
(* start_softAP and start_smartconfig: each task is created, and its flag  *)
(* is set afterwards, when the task may long be running.  (That a task     *)
(* cannot be created is left out.)                                         *)
(***************************************************************************)
CreateComm ==
  /\ starting = "comm"
  /\ starting' = "commflag" /\ comm' = "start"
  /\ UNCHANGED <<flashVars, mode, flagVars, polls, wifi, blinks, tmp, finished,
                 wifiVars, cuts>>

SetCommFlag ==
  /\ starting = "commflag"
  /\ starting' = "wifi" /\ comm_task_run' = TRUE
  /\ UNCHANGED <<flashVars, mode, wifi_task_run, mqtt_connected,
                 signature_sent, comm, polls, wifi, blinks, tmp, finished,
                 wifiVars, cuts>>

CreateWifi ==
  /\ starting = "wifi"
  /\ starting' = "wififlag" /\ wifi' = "wait"
  /\ UNCHANGED <<flashVars, mode, flagVars, comm, polls, blinks, tmp, finished,
                 wifiVars, cuts>>

SetWifiFlag ==
  /\ starting = "wififlag"
  /\ starting' = "no" /\ wifi_task_run' = TRUE
  /\ UNCHANGED <<flashVars, mode, comm_task_run, mqtt_connected,
                 signature_sent, comm, polls, wifi, blinks, tmp, finished,
                 wifiVars, cuts>>

-----------------------------------------------------------------------------
(***************************************************************************)
(* udp_server_task and tcp_server_task.  A turn of the loop ends with a    *)
(* command that was handled, or with nothing.                              *)
(***************************************************************************)
CommStep(from, to) ==
  /\ comm = from
  /\ comm' = to
  /\ UNCHANGED <<flashVars, mode, starting, wifi, blinks, cuts>>

\* The socket is opened and bound, or not: then the task ends.
CommStart ==
  /\ \/ CommStep("start", "listen")
     \/ CommStep("start", "end")
  /\ UNCHANGED <<flagVars, polls, tmp, finished, wifiVars>>

Turn == comm_task_run /\ polls > 1 /\ polls' = polls - 1

\* Mutant: the turns are not counted.
NoCommandUncounted ==
  /\ CommStep("listen", "listen")
  /\ comm_task_run
  /\ UNCHANGED <<polls, flagVars, tmp, finished, wifiVars>>

\* Time-outs, and commands that are not understood, cannot be answered, or
\* carry no network.
NoCommand ==
  /\ CommStep("listen", "listen")
  /\ Turn
  /\ UNCHANGED <<flagVars, tmp, finished, wifiVars>>

ListenEnds ==
  /\ CommStep("listen", "end")
  /\ ~comm_task_run \/ polls = 1
  /\ UNCHANGED <<flagVars, polls, tmp, finished, wifiVars>>

\* CMD_GET_INFO: up to three seconds are given to MQTT, then the signature is
\* sent, and only then the result is looked at.
GetInfo ==
  /\ ap \/ sta_connected
  /\ CommStep("listen", "sign")
  /\ Turn
  /\ UNCHANGED <<flagVars, tmp, finished, wifiVars>>

ReplySignature ==
  /\ CommStep("sign", "signed")
  /\ signature_sent' = TRUE
  /\ UNCHANGED <<comm_task_run, wifi_task_run, mqtt_connected, polls, tmp,
                 finished, wifiVars>>

\* Mutant: finished as soon as the signature is sent.
GetInfoReturnsSigned ==
  /\ CommStep("signed", "end")
  /\ finished' = TRUE
  /\ UNCHANGED <<flagVars, polls, tmp, wifiVars>>

GetInfoReturns ==
  /\ CommStep("signed", IF mqtt_connected THEN "end" ELSE "listen")
  /\ finished' = mqtt_connected
  /\ UNCHANGED <<flagVars, polls, tmp, wifiVars>>

\* CMD_SEND_SSID_PW: the network is kept in RAM and the driver told to connect;
\* the job is done if the signature was sent before.
SendSsid(n) ==
  /\ ap \/ sta_connected
  /\ CommStep("listen", IF signature_sent THEN "end" ELSE "listen")
  /\ Turn
  /\ tmp' = n
  /\ target' = n /\ ap' = TRUE
  /\ finished' = signature_sent
  /\ UNCHANGED <<flagVars, sta_connected, connected_bit, done_bit>>

\* The access point is closed and the other task is told to stop.
CommEnd ==
  /\ CommStep("end", IF mode = "softap" THEN "clear" ELSE "quit")
  /\ ap' = IF wifi_task_run /\ mode = "softap" THEN FALSE ELSE ap
  /\ wifi_task_run' = FALSE
  /\ UNCHANGED <<comm_task_run, mqtt_connected, signature_sent, polls, tmp,
                 finished, target, sta_connected, connected_bit, done_bit>>

\* esp_qcloud_wifi_clear_info, esp_qcloud_wifi_save_info and esp_restart: the
\* flash is written entry by entry, with whatever RAM holds.
Saving(from, to) ==
  /\ comm = from
  /\ comm' = to
  /\ UNCHANGED <<wifi_status, mode, flagVars, starting, polls, wifi, blinks,
                 tmp, finished, wifiVars, cuts>>

\* Mutant: the old network is not erased first.
ClearInfoNot ==
  /\ Saving("clear", "ssid")
  /\ UNCHANGED <<ssid, password>>

ClearInfo ==
  /\ Saving("clear", "ssid")
  /\ ssid' = "absent" /\ password' = "absent"

SaveSsid ==
  /\ Saving("ssid", "password")
  /\ ssid' = tmp
  /\ UNCHANGED password

SavePassword ==
  /\ Saving("password", "restart")
  /\ password' = tmp
  /\ UNCHANGED ssid

CommRestart ==
  /\ comm = "restart"
  /\ Restart
  /\ UNCHANGED <<flashVars, cuts>>

-----------------------------------------------------------------------------
(***************************************************************************)
(* softAP_task and smartconfig_task.                                       *)
(***************************************************************************)
WifiStep(from, to) ==
  /\ wifi = from
  /\ wifi' = to
  /\ UNCHANGED <<flashVars, mode, starting, comm, polls, comm_task_run,
                 wifi_task_run, signature_sent, tmp, finished, cuts>>

\* xEventGroupWaitBits clears the bits it was woken for.
Blink ==
  /\ wifi_task_run /\ blinks > 1
  /\ WifiStep("wait", CASE connected_bit -> "mqtt"
                        [] ~connected_bit /\ done_bit -> "stop"
                        [] OTHER -> "wait")
  /\ blinks' = blinks - 1
  /\ connected_bit' = FALSE
  /\ done_bit' = IF mode = "smart" THEN FALSE ELSE done_bit
  /\ UNCHANGED <<mqtt_connected, target, sta_connected, ap>>

BlinkEnds ==
  /\ ~wifi_task_run \/ blinks = 1
  /\ WifiStep("wait", "stop")
  /\ UNCHANGED <<mqtt_connected, blinks, wifiVars>>

\* do_one_mqtt_connect.
MqttConnect ==
  /\ WifiStep("mqtt", "stop")
  /\ mqtt_connected' \in {mqtt_connected, TRUE}
  /\ UNCHANGED <<blinks, wifiVars>>

\* The access point is closed once the phone has its signature; smartconfig
\* stops listening and clears the event bits.
WifiStops ==
  /\ WifiStep("stop", "quit")
  /\ ap' = IF mode = "softap" /\ signature_sent THEN FALSE ELSE ap
  /\ connected_bit' = IF mode = "smart" THEN FALSE ELSE connected_bit
  /\ done_bit' = IF mode = "smart" THEN FALSE ELSE done_bit
  /\ UNCHANGED <<mqtt_connected, blinks, target, sta_connected>>

\* Both tasks of smartconfig are gone: nothing is saved, nobody restarts, and the
\* flags are set anew by the next start.
SmartconfigOver ==
  /\ mode = "smart" /\ starting = "no" /\ comm = "quit" /\ wifi = "quit"
  /\ Reset("idle")
  /\ UNCHANGED <<flashVars, cuts>>

\* stop_softAP and stop_smartconfig, which are for the application to call.
Stop ==
  /\ mode \in {"softap", "smart"} /\ starting = "no"
  /\ comm_task_run' = FALSE /\ wifi_task_run' = FALSE
  /\ ap' = FALSE
  /\ UNCHANGED <<flashVars, mode, mqtt_connected, signature_sent, taskVars,
                 target, sta_connected, connected_bit, done_bit, cuts>>

-----------------------------------------------------------------------------
(***************************************************************************)
(* The driver: _wifi_event_handler and _smartconfig_event_cb.              *)
(***************************************************************************)
DriverVarsOnly ==
  /\ mode \in {"softap", "smart"}
  /\ UNCHANGED <<flashVars, mode, flagVars, taskVars, cuts>>

GotIp ==
  /\ DriverVarsOnly
  /\ target \in Usable /\ ~sta_connected
  /\ sta_connected' = TRUE /\ connected_bit' = TRUE
  /\ UNCHANGED <<target, done_bit, ap>>

Disconnected ==
  /\ DriverVarsOnly
  /\ target # "empty"
  /\ sta_connected' = FALSE /\ connected_bit' = FALSE
  /\ UNCHANGED <<target, done_bit, ap>>

\* SC_STATUS_LINK and SC_STATUS_LINK_OVER.
SmartconfigLink(n) ==
  /\ DriverVarsOnly
  /\ mode = "smart" /\ wifi = "wait" /\ target = "empty"
  /\ target' = n
  /\ UNCHANGED <<sta_connected, connected_bit, done_bit, ap>>

SmartconfigLinkOver ==
  /\ DriverVarsOnly
  /\ mode = "smart" /\ wifi = "wait" /\ target # "empty" /\ ~done_bit
  /\ done_bit' = TRUE
  /\ UNCHANGED <<target, sta_connected, connected_bit, ap>>

-----------------------------------------------------------------------------
Starting == CreateComm \/ SetCommFlag \/ CreateWifi \/ SetWifiFlag

Comm ==
  \/ CommStart \/ NoCommand \/ ListenEnds \/ GetInfo \/ ReplySignature
  \/ GetInfoReturns \/ CommEnd \/ ClearInfo \/ SaveSsid \/ SavePassword
  \/ CommRestart
  \/ \E n \in Networks : SendSsid(n)

Wifi == Blink \/ BlinkEnds \/ MqttConnect \/ WifiStops

Driver ==
  \/ GotIp \/ Disconnected \/ SmartconfigLinkOver
  \/ \E n \in Networks : SmartconfigLink(n)

Next ==
  \/ Boot \/ StartSmartconfig \/ StationUp \/ StationDown \/ SmartconfigOver
  \/ Starting \/ Comm \/ Wifi \/ Driver
  \/ Stop \/ PowerCut

Spec == Init /\ [][Next]_vars

\* The tasks run.  No phone, network or power supply is relied upon.
Fairness ==
  /\ WF_vars(Boot) /\ WF_vars(SmartconfigOver)
  /\ WF_vars(Starting) /\ WF_vars(Comm) /\ WF_vars(Wifi)

FairSpec == Spec /\ Fairness

-----------------------------------------------------------------------------
(***************************************************************************)
(* Properties.                                                             *)
(***************************************************************************)
TypeOK ==
  /\ wifi_status \in {"none", "smart", "sta", "softap", "fac"}
  /\ ssid \in Values /\ password \in Values
  /\ mode \in {"boot", "softap", "smart", "station", "online", "factory", "idle"}
  /\ starting \in {"no", "comm", "commflag", "wifi", "wififlag"}
  /\ comm \in {"none", "start", "listen", "sign", "signed", "end", "clear",
               "ssid", "password", "restart", "quit"}
  /\ wifi \in {"none", "wait", "mqtt", "stop", "quit"}
  /\ polls \in 1 .. MaxPolls /\ blinks \in 1 .. MaxBlinks
  /\ tmp \in Networks \cup {"empty"} /\ target \in Networks \cup {"empty"}
  /\ comm_task_run \in BOOLEAN /\ wifi_task_run \in BOOLEAN
  /\ mqtt_connected \in BOOLEAN /\ signature_sent \in BOOLEAN
  /\ finished \in BOOLEAN /\ sta_connected \in BOOLEAN
  /\ connected_bit \in BOOLEAN /\ done_bit \in BOOLEAN /\ ap \in BOOLEAN
  /\ cuts \in 0 .. MaxCuts

\* The flash never holds the name of one network and the password of another,
\* wherever the power is cut and however often the phone changes its mind: the
\* old network is erased before the new one is written (line 1036), and name and
\* password come from one command (line 662).
NoMixture ==
  {ssid, password} \subseteq Networks => ssid = password

\* The server says that the job is done only when there is a network to save.
\* The two commands come in either order, and what CMD_GET_INFO answers depends
\* on how far the other task has got meanwhile (lines 624-643).
FinishedHasNetwork ==
  finished /\ mode = "softap" => tmp # "empty"

\* softAP ends in a restart and smartconfig ends, with or without a phone.
BoardingEnds ==
  \A m \in {"softap", "smart"} : mode = m ~> mode # m

\* "There is information about the network" (main.c:55): a device that starts as
\* a station has a network to connect to.
NetworkInfoIsThere ==
  mode = "station" => ssid \in Networks
====
