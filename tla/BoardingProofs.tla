-------------------------- MODULE BoardingProofs ---------------------------
(***************************************************************************)
(* What the flash holds and what the phone is told while the device gets   *)
(* its network: proved of Boarding for any networks, any number of turns   *)
(* of the tasks and any number of power cuts.                              *)
(***************************************************************************)
EXTENDS Boarding, TLAPS

-----------------------------------------------------------------------------
(***************************************************************************)
(* The inductive invariant.                                                *)
(***************************************************************************)
NetworkType ==
  /\ ssid \in Values /\ password \in Values
  /\ tmp \in Networks \cup {"empty"} /\ target \in Networks \cup {"empty"}

PlaceType ==
  /\ wifi_status \in {"none", "smart", "sta", "softap", "fac"}
  /\ mode \in {"boot", "softap", "smart", "station", "online", "factory", "idle"}
  /\ starting \in {"no", "comm", "commflag", "wifi", "wififlag"}
  /\ comm \in {"none", "start", "listen", "sign", "signed", "end", "clear",
               "ssid", "password", "restart", "quit"}
  /\ wifi \in {"none", "wait", "mqtt", "stop", "quit"}

CountType ==
  polls \in 1 .. MaxPolls /\ blinks \in 1 .. MaxBlinks /\ cuts \in 0 .. MaxCuts

FlagType ==
  /\ comm_task_run \in BOOLEAN /\ wifi_task_run \in BOOLEAN
  /\ mqtt_connected \in BOOLEAN /\ signature_sent \in BOOLEAN
  /\ finished \in BOOLEAN /\ sta_connected \in BOOLEAN
  /\ connected_bit \in BOOLEAN /\ done_bit \in BOOLEAN /\ ap \in BOOLEAN

\* How far the network of the last command has been written, by what the server
\* task writes next.
SavingInv ==
  /\ comm = "ssid" => ssid = "absent" /\ password = "absent"
  /\ comm = "password" => ssid = tmp /\ password = "absent"
  /\ comm = "restart" => ssid = tmp /\ password = tmp

\* Outside softAP and smartconfig there are no tasks, and RAM is as it was when
\* the device started.
QuietInv ==
  mode \notin {"softap", "smart"} =>
    /\ starting = "no" /\ comm = "none" /\ wifi = "none"
    /\ target = "empty" /\ tmp = "empty"
    /\ finished = FALSE /\ mqtt_connected = FALSE /\ connected_bit = FALSE

\* Who got as far as MQTT was told of a network, and in softAP it was the phone
\* that told it.
TargetInv ==
  /\ connected_bit = TRUE \/ wifi = "mqtt" \/ mqtt_connected = TRUE
       => target # "empty"
  /\ mode = "softap" /\ target # "empty" => tmp # "empty"

IInv ==
  /\ NetworkType /\ PlaceType /\ CountType /\ FlagType
  /\ SavingInv /\ NoMixture
  /\ QuietInv /\ TargetInv /\ FinishedHasNetwork

-----------------------------------------------------------------------------
LEMMA Types == NetworkType /\ PlaceType /\ CountType /\ FlagType => TypeOK
BY DEF NetworkType, PlaceType, CountType, FlagType, TypeOK

LEMMA InitInv == Init => IInv
<1> SUFFICES ASSUME Init
             PROVE  IInv
  OBVIOUS
<1>1. NetworkType /\ PlaceType
  BY DEF Init, NetworkType, PlaceType, Values
<1>2. CountType
  BY BoardingAssumption DEF Init, CountType
<1>3. FlagType
  BY DEF Init, FlagType
<1>4. SavingInv /\ NoMixture
  BY DEF Init, SavingInv, NoMixture
<1>5. QuietInv /\ TargetInv /\ FinishedHasNetwork
  BY DEF Init, QuietInv, TargetInv, FinishedHasNetwork
<1> QED
  BY <1>1, <1>2, <1>3, <1>4, <1>5 DEF IInv

\* A restart leaves the flash as it is and everything else as it is at boot.
LEMMA ResetInv ==
  ASSUME IInv, NEW m \in {"boot", "idle"}, Reset(m), UNCHANGED flashVars,
         cuts' \in 0 .. MaxCuts
  PROVE  IInv'
<1>1. NetworkType' /\ PlaceType'
  BY DEF Reset, flashVars, IInv, NetworkType, PlaceType
<1>2. CountType'
  BY BoardingAssumption DEF Reset, CountType
<1>3. FlagType'
  BY DEF Reset, FlagType
<1>4. SavingInv' /\ NoMixture'
  BY DEF Reset, flashVars, IInv, SavingInv, NoMixture
<1>5. QuietInv' /\ TargetInv' /\ FinishedHasNetwork'
  BY DEF Reset, QuietInv, TargetInv, FinishedHasNetwork
<1> QED
  BY <1>1, <1>2, <1>3, <1>4, <1>5 DEF IInv

\* The ends of boarding, and the power.
LEMMA RestartPreserves ==
  ASSUME IInv, StationDown \/ SmartconfigOver \/ CommRestart \/ PowerCut
  PROVE  IInv'
<1>1. CASE StationDown \/ SmartconfigOver \/ CommRestart
  BY <1>1, ResetInv
  DEF StationDown, SmartconfigOver, CommRestart, Restart, IInv, CountType
<1>2. CASE PowerCut
  <2>1. cuts' \in 0 .. MaxCuts
    BY <1>2, BoardingAssumption DEF PowerCut, IInv, CountType
  <2> QED
    BY <1>2, <2>1, ResetInv DEF PowerCut, Restart
<1> QED
  BY <1>1, <1>2

\* What a boot does, and a station.
LEMMA BootPreserves ==
  ASSUME IInv, Boot \/ StartSmartconfig \/ StationUp \/ Stop
  PROVE  IInv'
<1> USE DEF flashVars, ramVars, flagVars, taskVars, wifiVars, IInv
<1>1. CASE Boot
  <2>1. NetworkType' /\ PlaceType'
    BY <1>1, BoardingAssumption DEF Boot, NetworkType, PlaceType, Values
  <2>2. CountType'
    BY <1>1, BoardingAssumption DEF Boot, CountType
  <2>3. FlagType'
    BY <1>1 DEF Boot, FlagType
  <2>4. SavingInv' /\ NoMixture'
    BY <1>1, BoardingAssumption DEF Boot, SavingInv, NoMixture
  <2>5. QuietInv' /\ TargetInv' /\ FinishedHasNetwork'
    BY <1>1, BoardingAssumption
    DEF Boot, FlagType, QuietInv, TargetInv, FinishedHasNetwork
  <2> QED
    BY <2>1, <2>2, <2>3, <2>4, <2>5
<1>2. CASE StartSmartconfig
  <2>1. NetworkType' /\ PlaceType'
    BY <1>2, BoardingAssumption
    DEF StartSmartconfig, NetworkType, PlaceType, Values
  <2>2. CountType'
    BY <1>2, BoardingAssumption DEF StartSmartconfig, CountType
  <2>3. FlagType'
    BY <1>2 DEF StartSmartconfig, FlagType
  <2>4. SavingInv' /\ NoMixture'
    BY <1>2, BoardingAssumption DEF StartSmartconfig, SavingInv, NoMixture
  <2>5. QuietInv' /\ TargetInv' /\ FinishedHasNetwork'
    BY <1>2, BoardingAssumption
    DEF StartSmartconfig, FlagType, QuietInv, TargetInv, FinishedHasNetwork
  <2> QED
    BY <2>1, <2>2, <2>3, <2>4, <2>5
<1>3. CASE StationUp
  <2>1. NetworkType' /\ PlaceType'
    BY <1>3, BoardingAssumption DEF StationUp, NetworkType, PlaceType, Values
  <2>2. CountType'
    BY <1>3, BoardingAssumption DEF StationUp, CountType
  <2>3. FlagType'
    BY <1>3 DEF StationUp, FlagType
  <2>4. SavingInv' /\ NoMixture'
    BY <1>3, BoardingAssumption DEF StationUp, SavingInv, NoMixture
  <2>5. QuietInv' /\ TargetInv' /\ FinishedHasNetwork'
    BY <1>3, BoardingAssumption
    DEF StationUp, FlagType, QuietInv, TargetInv, FinishedHasNetwork
  <2> QED
    BY <2>1, <2>2, <2>3, <2>4, <2>5
<1>4. CASE Stop
  <2>1. NetworkType' /\ PlaceType'
    BY <1>4, BoardingAssumption DEF Stop, NetworkType, PlaceType, Values
  <2>2. CountType'
    BY <1>4, BoardingAssumption DEF Stop, CountType
  <2>3. FlagType'
    BY <1>4 DEF Stop, FlagType
  <2>4. SavingInv' /\ NoMixture'
    BY <1>4, BoardingAssumption DEF Stop, SavingInv, NoMixture
  <2>5. QuietInv' /\ TargetInv' /\ FinishedHasNetwork'
    BY <1>4, BoardingAssumption
    DEF Stop, FlagType, QuietInv, TargetInv, FinishedHasNetwork
  <2> QED
    BY <2>1, <2>2, <2>3, <2>4, <2>5
<1> QED
  BY <1>1, <1>2, <1>3, <1>4

\* The tasks are created.
LEMMA StartingPreserves ==
  ASSUME IInv, Starting
  PROVE  IInv'
<1> USE DEF flashVars, flagVars, taskVars, wifiVars, IInv
<1>1. CASE CreateComm
  <2>1. NetworkType' /\ PlaceType'
    BY <1>1, BoardingAssumption DEF CreateComm, NetworkType, PlaceType, Values
  <2>2. CountType'
    BY <1>1, BoardingAssumption DEF CreateComm, CountType
  <2>3. FlagType'
    BY <1>1 DEF CreateComm, FlagType
  <2>4. SavingInv' /\ NoMixture'
    BY <1>1, BoardingAssumption DEF CreateComm, SavingInv, NoMixture
  <2>5. QuietInv' /\ TargetInv' /\ FinishedHasNetwork'
    BY <1>1, BoardingAssumption
    DEF CreateComm, FlagType, QuietInv, TargetInv, FinishedHasNetwork
  <2> QED
    BY <2>1, <2>2, <2>3, <2>4, <2>5
<1>2. CASE SetCommFlag
  <2>1. NetworkType' /\ PlaceType'
    BY <1>2, BoardingAssumption DEF SetCommFlag, NetworkType, PlaceType, Values
  <2>2. CountType'
    BY <1>2, BoardingAssumption DEF SetCommFlag, CountType
  <2>3. FlagType'
    BY <1>2 DEF SetCommFlag, FlagType
  <2>4. SavingInv' /\ NoMixture'
    BY <1>2, BoardingAssumption DEF SetCommFlag, SavingInv, NoMixture
  <2>5. QuietInv' /\ TargetInv' /\ FinishedHasNetwork'
    BY <1>2, BoardingAssumption
    DEF SetCommFlag, FlagType, QuietInv, TargetInv, FinishedHasNetwork
  <2> QED
    BY <2>1, <2>2, <2>3, <2>4, <2>5
<1>3. CASE CreateWifi
  <2>1. NetworkType' /\ PlaceType'
    BY <1>3, BoardingAssumption DEF CreateWifi, NetworkType, PlaceType, Values
  <2>2. CountType'
    BY <1>3, BoardingAssumption DEF CreateWifi, CountType
  <2>3. FlagType'
    BY <1>3 DEF CreateWifi, FlagType
  <2>4. SavingInv' /\ NoMixture'
    BY <1>3, BoardingAssumption DEF CreateWifi, SavingInv, NoMixture
  <2>5. QuietInv' /\ TargetInv' /\ FinishedHasNetwork'
    BY <1>3, BoardingAssumption
    DEF CreateWifi, FlagType, QuietInv, TargetInv, FinishedHasNetwork
  <2> QED
    BY <2>1, <2>2, <2>3, <2>4, <2>5
<1>4. CASE SetWifiFlag
  <2>1. NetworkType' /\ PlaceType'
    BY <1>4, BoardingAssumption DEF SetWifiFlag, NetworkType, PlaceType, Values
  <2>2. CountType'
    BY <1>4, BoardingAssumption DEF SetWifiFlag, CountType
  <2>3. FlagType'
    BY <1>4 DEF SetWifiFlag, FlagType
  <2>4. SavingInv' /\ NoMixture'
    BY <1>4, BoardingAssumption DEF SetWifiFlag, SavingInv, NoMixture
  <2>5. QuietInv' /\ TargetInv' /\ FinishedHasNetwork'
    BY <1>4, BoardingAssumption
    DEF SetWifiFlag, FlagType, QuietInv, TargetInv, FinishedHasNetwork
  <2> QED
    BY <2>1, <2>2, <2>3, <2>4, <2>5
<1> QED
  BY <1>1, <1>2, <1>3, <1>4 DEF Starting

\* The server task.
LEMMA CommPreserves ==
  ASSUME IInv, Comm
  PROVE  IInv'
<1> USE DEF flashVars, flagVars, taskVars, wifiVars, IInv
<1>1. CASE CommStart
  <2>1. NetworkType' /\ PlaceType'
    BY <1>1, BoardingAssumption
    DEF CommStart, CommStep, Turn, NetworkType, PlaceType, Values
  <2>2. CountType'
    BY <1>1, BoardingAssumption DEF CommStart, CommStep, Turn, CountType
  <2>3. FlagType'
    BY <1>1 DEF CommStart, CommStep, Turn, FlagType
  <2>4. SavingInv' /\ NoMixture'
    BY <1>1, BoardingAssumption
    DEF CommStart, CommStep, Turn, SavingInv, NoMixture
  <2>5. QuietInv' /\ TargetInv' /\ FinishedHasNetwork'
    BY <1>1, BoardingAssumption
    DEF CommStart, CommStep, Turn, FlagType, QuietInv, TargetInv,
        FinishedHasNetwork
  <2> QED
    BY <2>1, <2>2, <2>3, <2>4, <2>5
<1>2. CASE NoCommand
  <2>1. NetworkType' /\ PlaceType'
    BY <1>2, BoardingAssumption
    DEF NoCommand, CommStep, Turn, NetworkType, PlaceType, Values
  <2>2. CountType'
    BY <1>2, BoardingAssumption DEF NoCommand, CommStep, Turn, CountType
  <2>3. FlagType'
    BY <1>2 DEF NoCommand, CommStep, Turn, FlagType
  <2>4. SavingInv' /\ NoMixture'
    BY <1>2, BoardingAssumption
    DEF NoCommand, CommStep, Turn, SavingInv, NoMixture
  <2>5. QuietInv' /\ TargetInv' /\ FinishedHasNetwork'
    BY <1>2, BoardingAssumption
    DEF NoCommand, CommStep, Turn, FlagType, QuietInv, TargetInv,
        FinishedHasNetwork
  <2> QED
    BY <2>1, <2>2, <2>3, <2>4, <2>5
<1>3. CASE ListenEnds
  <2>1. NetworkType' /\ PlaceType'
    BY <1>3, BoardingAssumption
    DEF ListenEnds, CommStep, Turn, NetworkType, PlaceType, Values
  <2>2. CountType'
    BY <1>3, BoardingAssumption DEF ListenEnds, CommStep, Turn, CountType
  <2>3. FlagType'
    BY <1>3 DEF ListenEnds, CommStep, Turn, FlagType
  <2>4. SavingInv' /\ NoMixture'
    BY <1>3, BoardingAssumption
    DEF ListenEnds, CommStep, Turn, SavingInv, NoMixture
  <2>5. QuietInv' /\ TargetInv' /\ FinishedHasNetwork'
    BY <1>3, BoardingAssumption
    DEF ListenEnds, CommStep, Turn, FlagType, QuietInv, TargetInv,
        FinishedHasNetwork
  <2> QED
    BY <2>1, <2>2, <2>3, <2>4, <2>5
<1>4. CASE GetInfo
  <2>1. NetworkType' /\ PlaceType'
    BY <1>4, BoardingAssumption
    DEF GetInfo, CommStep, Turn, NetworkType, PlaceType, Values
  <2>2. CountType'
    BY <1>4, BoardingAssumption DEF GetInfo, CommStep, Turn, CountType
  <2>3. FlagType'
    BY <1>4 DEF GetInfo, CommStep, Turn, FlagType
  <2>4. SavingInv' /\ NoMixture'
    BY <1>4, BoardingAssumption
    DEF GetInfo, CommStep, Turn, SavingInv, NoMixture
  <2>5. QuietInv' /\ TargetInv' /\ FinishedHasNetwork'
    BY <1>4, BoardingAssumption
    DEF GetInfo, CommStep, Turn, FlagType, QuietInv, TargetInv,
        FinishedHasNetwork
  <2> QED
    BY <2>1, <2>2, <2>3, <2>4, <2>5
<1>5. CASE ReplySignature
  <2>1. NetworkType' /\ PlaceType'
    BY <1>5, BoardingAssumption
    DEF ReplySignature, CommStep, Turn, NetworkType, PlaceType, Values
  <2>2. CountType'
    BY <1>5, BoardingAssumption DEF ReplySignature, CommStep, Turn, CountType
  <2>3. FlagType'
    BY <1>5 DEF ReplySignature, CommStep, Turn, FlagType
  <2>4. SavingInv' /\ NoMixture'
    BY <1>5, BoardingAssumption
    DEF ReplySignature, CommStep, Turn, SavingInv, NoMixture
  <2>5. QuietInv' /\ TargetInv' /\ FinishedHasNetwork'
    BY <1>5, BoardingAssumption
    DEF ReplySignature, CommStep, Turn, FlagType, QuietInv, TargetInv,
        FinishedHasNetwork
  <2> QED
    BY <2>1, <2>2, <2>3, <2>4, <2>5
<1>6. CASE GetInfoReturns
  <2>1. NetworkType' /\ PlaceType'
    BY <1>6, BoardingAssumption
    DEF GetInfoReturns, CommStep, Turn, NetworkType, PlaceType, Values
  <2>2. CountType'
    BY <1>6, BoardingAssumption DEF GetInfoReturns, CommStep, Turn, CountType
  <2>3. FlagType'
    BY <1>6 DEF GetInfoReturns, CommStep, Turn, FlagType
  <2>4. SavingInv' /\ NoMixture'
    BY <1>6, BoardingAssumption
    DEF GetInfoReturns, CommStep, Turn, SavingInv, NoMixture
  <2>5. QuietInv' /\ TargetInv' /\ FinishedHasNetwork'
    BY <1>6, BoardingAssumption
    DEF GetInfoReturns, CommStep, Turn, FlagType, QuietInv, TargetInv,
        FinishedHasNetwork
  <2> QED
    BY <2>1, <2>2, <2>3, <2>4, <2>5
<1>7. CASE CommEnd
  <2>1. NetworkType' /\ PlaceType'
    BY <1>7, BoardingAssumption
    DEF CommEnd, CommStep, Turn, NetworkType, PlaceType, Values
  <2>2. CountType'
    BY <1>7, BoardingAssumption DEF CommEnd, CommStep, Turn, CountType
  <2>3. FlagType'
    BY <1>7 DEF CommEnd, CommStep, Turn, FlagType
  <2>4. SavingInv' /\ NoMixture'
    BY <1>7, BoardingAssumption
    DEF CommEnd, CommStep, Turn, SavingInv, NoMixture
  <2>5. QuietInv' /\ TargetInv' /\ FinishedHasNetwork'
    BY <1>7, BoardingAssumption
    DEF CommEnd, CommStep, Turn, FlagType, QuietInv, TargetInv,
        FinishedHasNetwork
  <2> QED
    BY <2>1, <2>2, <2>3, <2>4, <2>5
<1>8. CASE ClearInfo
  <2>1. NetworkType' /\ PlaceType'
    BY <1>8, BoardingAssumption
    DEF ClearInfo, Saving, NetworkType, PlaceType, Values
  <2>2. CountType'
    BY <1>8, BoardingAssumption DEF ClearInfo, Saving, CountType
  <2>3. FlagType'
    BY <1>8 DEF ClearInfo, Saving, FlagType
  <2>4. SavingInv' /\ NoMixture'
    BY <1>8, BoardingAssumption DEF ClearInfo, Saving, SavingInv, NoMixture
  <2>5. QuietInv' /\ TargetInv' /\ FinishedHasNetwork'
    BY <1>8, BoardingAssumption
    DEF ClearInfo, Saving, FlagType, QuietInv, TargetInv, FinishedHasNetwork
  <2> QED
    BY <2>1, <2>2, <2>3, <2>4, <2>5
<1>9. CASE SaveSsid
  <2>1. NetworkType' /\ PlaceType'
    BY <1>9, BoardingAssumption
    DEF SaveSsid, Saving, NetworkType, PlaceType, Values
  <2>2. CountType'
    BY <1>9, BoardingAssumption DEF SaveSsid, Saving, CountType
  <2>3. FlagType'
    BY <1>9 DEF SaveSsid, Saving, FlagType
  <2>4. SavingInv' /\ NoMixture'
    BY <1>9, BoardingAssumption DEF SaveSsid, Saving, SavingInv, NoMixture
  <2>5. QuietInv' /\ TargetInv' /\ FinishedHasNetwork'
    BY <1>9, BoardingAssumption
    DEF SaveSsid, Saving, FlagType, QuietInv, TargetInv, FinishedHasNetwork
  <2> QED
    BY <2>1, <2>2, <2>3, <2>4, <2>5
<1>10. CASE SavePassword
  <2>1. NetworkType' /\ PlaceType'
    BY <1>10, BoardingAssumption
    DEF SavePassword, Saving, NetworkType, PlaceType, Values
  <2>2. CountType'
    BY <1>10, BoardingAssumption DEF SavePassword, Saving, CountType
  <2>3. FlagType'
    BY <1>10 DEF SavePassword, Saving, FlagType
  <2>4. SavingInv' /\ NoMixture'
    BY <1>10, BoardingAssumption DEF SavePassword, Saving, SavingInv, NoMixture
  <2>5. QuietInv' /\ TargetInv' /\ FinishedHasNetwork'
    BY <1>10, BoardingAssumption
    DEF SavePassword, Saving, FlagType, QuietInv, TargetInv, FinishedHasNetwork
  <2> QED
    BY <2>1, <2>2, <2>3, <2>4, <2>5
<1>11. ASSUME NEW n \in Networks, SendSsid(n)
      PROVE  IInv'
  <2>1. NetworkType' /\ PlaceType'
    BY <1>11, BoardingAssumption
    DEF SendSsid, CommStep, Turn, NetworkType, PlaceType, Values
  <2>2. CountType'
    BY <1>11, BoardingAssumption DEF SendSsid, CommStep, Turn, CountType
  <2>3. FlagType'
    BY <1>11 DEF SendSsid, CommStep, Turn, FlagType
  <2>4. SavingInv' /\ NoMixture'
    BY <1>11, BoardingAssumption
    DEF SendSsid, CommStep, Turn, SavingInv, NoMixture
  <2>5. QuietInv' /\ TargetInv' /\ FinishedHasNetwork'
    BY <1>11, BoardingAssumption
    DEF SendSsid, CommStep, Turn, FlagType, QuietInv, TargetInv,
        FinishedHasNetwork
  <2> QED
    BY <2>1, <2>2, <2>3, <2>4, <2>5
<1>12. CASE CommRestart
  BY <1>12, RestartPreserves
<1> QED
  BY <1>1, <1>2, <1>3, <1>4, <1>5, <1>6, <1>7, <1>8, <1>9, <1>10, <1>11, <1>12
  DEF Comm

\* The softAP or smartconfig task.
LEMMA WifiPreserves ==
  ASSUME IInv, Wifi
  PROVE  IInv'
<1> USE DEF flashVars, flagVars, taskVars, wifiVars, IInv
<1>1. CASE Blink
  <2>1. NetworkType' /\ PlaceType'
    BY <1>1, BoardingAssumption
    DEF Blink, WifiStep, NetworkType, PlaceType, Values
  <2>2. CountType'
    BY <1>1, BoardingAssumption DEF Blink, WifiStep, CountType
  <2>3. FlagType'
    BY <1>1 DEF Blink, WifiStep, FlagType
  <2>4. SavingInv' /\ NoMixture'
    BY <1>1, BoardingAssumption DEF Blink, WifiStep, SavingInv, NoMixture
  <2>5. QuietInv' /\ TargetInv' /\ FinishedHasNetwork'
    BY <1>1, BoardingAssumption
    DEF Blink, WifiStep, FlagType, QuietInv, TargetInv, FinishedHasNetwork
  <2> QED
    BY <2>1, <2>2, <2>3, <2>4, <2>5
<1>2. CASE BlinkEnds
  <2>1. NetworkType' /\ PlaceType'
    BY <1>2, BoardingAssumption
    DEF BlinkEnds, WifiStep, NetworkType, PlaceType, Values
  <2>2. CountType'
    BY <1>2, BoardingAssumption DEF BlinkEnds, WifiStep, CountType
  <2>3. FlagType'
    BY <1>2 DEF BlinkEnds, WifiStep, FlagType
  <2>4. SavingInv' /\ NoMixture'
    BY <1>2, BoardingAssumption DEF BlinkEnds, WifiStep, SavingInv, NoMixture
  <2>5. QuietInv' /\ TargetInv' /\ FinishedHasNetwork'
    BY <1>2, BoardingAssumption
    DEF BlinkEnds, WifiStep, FlagType, QuietInv, TargetInv, FinishedHasNetwork
  <2> QED
    BY <2>1, <2>2, <2>3, <2>4, <2>5
<1>3. CASE MqttConnect
  <2>1. NetworkType' /\ PlaceType'
    BY <1>3, BoardingAssumption
    DEF MqttConnect, WifiStep, NetworkType, PlaceType, Values
  <2>2. CountType'
    BY <1>3, BoardingAssumption DEF MqttConnect, WifiStep, CountType
  <2>3. FlagType'
    BY <1>3 DEF MqttConnect, WifiStep, FlagType
  <2>4. SavingInv' /\ NoMixture'
    BY <1>3, BoardingAssumption DEF MqttConnect, WifiStep, SavingInv, NoMixture
  <2>5. QuietInv' /\ TargetInv' /\ FinishedHasNetwork'
    BY <1>3, BoardingAssumption
    DEF MqttConnect, WifiStep, FlagType, QuietInv, TargetInv,
        FinishedHasNetwork
  <2> QED
    BY <2>1, <2>2, <2>3, <2>4, <2>5
<1>4. CASE WifiStops
  <2>1. NetworkType' /\ PlaceType'
    BY <1>4, BoardingAssumption
    DEF WifiStops, WifiStep, NetworkType, PlaceType, Values
  <2>2. CountType'
    BY <1>4, BoardingAssumption DEF WifiStops, WifiStep, CountType
  <2>3. FlagType'
    BY <1>4 DEF WifiStops, WifiStep, FlagType
  <2>4. SavingInv' /\ NoMixture'
    BY <1>4, BoardingAssumption DEF WifiStops, WifiStep, SavingInv, NoMixture
  <2>5. QuietInv' /\ TargetInv' /\ FinishedHasNetwork'
    BY <1>4, BoardingAssumption
    DEF WifiStops, WifiStep, FlagType, QuietInv, TargetInv, FinishedHasNetwork
  <2> QED
    BY <2>1, <2>2, <2>3, <2>4, <2>5
<1> QED
  BY <1>1, <1>2, <1>3, <1>4 DEF Wifi

\* The Wi-Fi driver.
LEMMA DriverPreserves ==
  ASSUME IInv, Driver
  PROVE  IInv'
<1> USE DEF flashVars, flagVars, taskVars, wifiVars, IInv
<1>1. CASE GotIp
  <2>1. NetworkType' /\ PlaceType'
    BY <1>1, BoardingAssumption
    DEF GotIp, DriverVarsOnly, NetworkType, PlaceType, Values
  <2>2. CountType'
    BY <1>1, BoardingAssumption DEF GotIp, DriverVarsOnly, CountType
  <2>3. FlagType'
    BY <1>1 DEF GotIp, DriverVarsOnly, FlagType
  <2>4. SavingInv' /\ NoMixture'
    BY <1>1, BoardingAssumption DEF GotIp, DriverVarsOnly, SavingInv, NoMixture
  <2>5. QuietInv' /\ TargetInv' /\ FinishedHasNetwork'
    BY <1>1, BoardingAssumption
    DEF GotIp, DriverVarsOnly, FlagType, QuietInv, TargetInv,
        FinishedHasNetwork
  <2> QED
    BY <2>1, <2>2, <2>3, <2>4, <2>5
<1>2. CASE Disconnected
  <2>1. NetworkType' /\ PlaceType'
    BY <1>2, BoardingAssumption
    DEF Disconnected, DriverVarsOnly, NetworkType, PlaceType, Values
  <2>2. CountType'
    BY <1>2, BoardingAssumption DEF Disconnected, DriverVarsOnly, CountType
  <2>3. FlagType'
    BY <1>2 DEF Disconnected, DriverVarsOnly, FlagType
  <2>4. SavingInv' /\ NoMixture'
    BY <1>2, BoardingAssumption
    DEF Disconnected, DriverVarsOnly, SavingInv, NoMixture
  <2>5. QuietInv' /\ TargetInv' /\ FinishedHasNetwork'
    BY <1>2, BoardingAssumption
    DEF Disconnected, DriverVarsOnly, FlagType, QuietInv, TargetInv,
        FinishedHasNetwork
  <2> QED
    BY <2>1, <2>2, <2>3, <2>4, <2>5
<1>3. CASE SmartconfigLinkOver
  <2>1. NetworkType' /\ PlaceType'
    BY <1>3, BoardingAssumption
    DEF SmartconfigLinkOver, DriverVarsOnly, NetworkType, PlaceType, Values
  <2>2. CountType'
    BY <1>3, BoardingAssumption
    DEF SmartconfigLinkOver, DriverVarsOnly, CountType
  <2>3. FlagType'
    BY <1>3 DEF SmartconfigLinkOver, DriverVarsOnly, FlagType
  <2>4. SavingInv' /\ NoMixture'
    BY <1>3, BoardingAssumption
    DEF SmartconfigLinkOver, DriverVarsOnly, SavingInv, NoMixture
  <2>5. QuietInv' /\ TargetInv' /\ FinishedHasNetwork'
    BY <1>3, BoardingAssumption
    DEF SmartconfigLinkOver, DriverVarsOnly, FlagType, QuietInv, TargetInv,
        FinishedHasNetwork
  <2> QED
    BY <2>1, <2>2, <2>3, <2>4, <2>5
<1>4. ASSUME NEW n \in Networks, SmartconfigLink(n)
      PROVE  IInv'
  <2>1. NetworkType' /\ PlaceType'
    BY <1>4, BoardingAssumption
    DEF SmartconfigLink, DriverVarsOnly, NetworkType, PlaceType, Values
  <2>2. CountType'
    BY <1>4, BoardingAssumption DEF SmartconfigLink, DriverVarsOnly, CountType
  <2>3. FlagType'
    BY <1>4 DEF SmartconfigLink, DriverVarsOnly, FlagType
  <2>4. SavingInv' /\ NoMixture'
    BY <1>4, BoardingAssumption
    DEF SmartconfigLink, DriverVarsOnly, SavingInv, NoMixture
  <2>5. QuietInv' /\ TargetInv' /\ FinishedHasNetwork'
    BY <1>4, BoardingAssumption
    DEF SmartconfigLink, DriverVarsOnly, FlagType, QuietInv, TargetInv,
        FinishedHasNetwork
  <2> QED
    BY <2>1, <2>2, <2>3, <2>4, <2>5
<1> QED
  BY <1>1, <1>2, <1>3, <1>4 DEF Driver

LEMMA NextInv == IInv /\ [Next]_vars => IInv'
<1> SUFFICES ASSUME IInv, [Next]_vars
             PROVE  IInv'
  OBVIOUS
<1>1. CASE Next
  BY <1>1, BootPreserves, RestartPreserves, StartingPreserves, CommPreserves,
     WifiPreserves, DriverPreserves
  DEF Next
<1>2. CASE UNCHANGED vars
  <2>1. NetworkType' /\ PlaceType' /\ CountType' /\ FlagType'
    BY <1>2
    DEF vars, flashVars, ramVars, flagVars, taskVars, wifiVars, IInv,
        NetworkType, PlaceType, CountType, FlagType
  <2>2. /\ SavingInv' /\ NoMixture' /\ QuietInv' /\ TargetInv'
        /\ FinishedHasNetwork'
    BY <1>2
    DEF vars, flashVars, ramVars, flagVars, taskVars, wifiVars, IInv, SavingInv,
        NoMixture, QuietInv, TargetInv, FinishedHasNetwork
  <2> QED
    BY <2>1, <2>2 DEF IInv
<1> QED
  BY <1>1, <1>2

-----------------------------------------------------------------------------
(***************************************************************************)
(* The theorems.                                                           *)
(***************************************************************************)

\* What the tasks, the driver and the flash may be found in at any moment,
\* wherever the power was cut.
THEOREM Invariance == Spec => []IInv
BY InitInv, NextInv, PTL DEF Spec

\* Every variable keeps its type: turns and power cuts stay within bounds.
THEOREM TypeCorrect == Spec => []TypeOK
<1>1. IInv => TypeOK
  BY Types DEF IInv
<1> QED
  BY <1>1, Invariance, PTL

\* The flash never holds the name of one network with the password of another.
THEOREM FlashIsNotMixed == Spec => []NoMixture
<1>1. IInv => NoMixture
  BY DEF IInv
<1> QED
  BY <1>1, Invariance, PTL

\* In softAP the job is only said to be done when there is a network to save.
THEOREM FinishedIsTrue == Spec => []FinishedHasNetwork
<1>1. IInv => FinishedHasNetwork
  BY DEF IInv
<1> QED
  BY <1>1, Invariance, PTL
====
