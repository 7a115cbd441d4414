----------------------------- MODULE Networking -----------------------------
(***************************************************************************)
(* The network supervision of the ESP32 build: the supervisor's thread     *)
(* (sscma/repl/supervisor.hpp) polls the Wi-Fi interface                   *)
(* (sscma/interface/wifi.hpp) and then the MQTT transport                  *)
(* (sscma/interface/transport/mqtt.hpp), which set the driver down and     *)
(* bring it up to what is configured; the worker stores configurations;    *)
(* the driver's events (NetworkEsp) change the status between any two of   *)
(* the supervisor's steps.  A step of the supervisor ends where it reads   *)
(* the status from the driver, or waits for it to change.                  *)
(*                                                                         *)
(* A device has one topic.  Not modelled: the device lock, which only makes *)
(* publishers wait while the session is set down.                          *)
(***************************************************************************)
EXTENDS NetworkEsp, SynchronizableObject

CONSTANTS
  WifiConfigs,      \* configurations AT+WIFI may store: a subset of {"off", "ap"}
  MqttConfigs,      \* AT+MQTTSERVER: "off" or a server
  MaxWifiStores, MaxMqttStores  \* bounds: configurations stored

ASSUME ConfigsAssumption ==
  /\ WifiConfigs \subseteq {"off", "ap"}
  /\ MqttConfigs \subseteq {"off"} \cup Servers
  /\ {"boot", "off"} \cap Servers = {}
  /\ MaxWifiStores \in Nat /\ MaxMqttStores \in Nat

VARIABLES
  wifiConfig, mqttConfig,   \* the two synchronizable objects
  topicsSet,        \* _sub_topics_set is not empty
  present,          \* _is_present of the MQTT transport
  pc,               \* the supervisor
  wifi, mqtt,       \* locals of WiFi's and MQTT's calls
  direct            \* history: see MqttPoll

store == <<wifiConfig, mqttConfig>>
vars == <<driver, store, topicsSet, present, pc, wifi, mqtt, direct>>

(* wifi_sta_e and mqtt_sta_e, in their order *)
UNKNOWN == 0
UNINTIALIZED == 1
IDLE == 2
JOINED == 3
BUSY == 4

DISCONNECTED == 1
CONNECTED == 2
ACTIVE == 3

WifiTarget(v) == CASE v = "ap" -> JOINED [] v = "off" -> UNINTIALIZED [] OTHER -> UNKNOWN

MqttTarget(v) == CASE v \in Servers -> ACTIVE [] v = "off" -> DISCONNECTED [] OTHER -> UNKNOWN

(* sync_status_from_driver of either *)
WifiSta(s) ==
  CASE s = "LOST" -> UNINTIALIZED [] s = "IDLE" -> IDLE
    [] s = "JOINED" -> JOINED [] s = "CONNECTED" -> BUSY

MqttSta(s, topics) ==
  IF s # "CONNECTED" THEN DISCONNECTED ELSE IF topics THEN ACTIVE ELSE CONNECTED

(* A call's locals: the configuration it works on, current_sta, whether to  *)
(* synchronize in the end, and, for MQTT, whether it is the callback that   *)
(* WiFi's set_down invokes.                                                 *)
Idle(o) == [cfg |-> o.prev, sta |-> UNKNOWN, fresh |-> FALSE, nested |-> FALSE]

Init ==
  /\ DriverInit
  /\ wifiConfig = Constructed("boot") /\ mqttConfig = Constructed("boot")
  /\ topicsSet = FALSE /\ present = TRUE
  /\ pc = "sleep"
  /\ wifi = Idle(wifiConfig) /\ mqtt = Idle(mqttConfig)
  /\ direct = FALSE

-----------------------------------------------------------------------------
(* The worker: set_wifi_config and set_mqtt_server_config. *)

StoreWifi ==
  /\ Load(wifiConfig).n < MaxWifiStores
  /\ \E v \in WifiConfigs : wifiConfig' = Stored(wifiConfig, v)
  /\ UNCHANGED <<driver, mqttConfig, topicsSet, present, pc, wifi, mqtt, direct>>

StoreMqtt ==
  /\ Load(mqttConfig).n < MaxMqttStores
  /\ \E v \in MqttConfigs : mqttConfig' = Stored(mqttConfig, v)
  /\ UNCHANGED <<driver, wifiConfig, topicsSet, present, pc, wifi, mqtt, direct>>

-----------------------------------------------------------------------------
(* WiFi, on the supervisor's thread. *)

WifiTo(next) == pc' = next /\ UNCHANGED <<store, topicsSet, present, mqtt, direct>>

(* poll_from_supervisor: brought up again if less than configured, set down *)
(* and brought up if there is something new.                                *)
WifiPoll ==
  /\ pc = "sleep"
  /\ IF IsSynchorized(wifiConfig)
       THEN /\ wifi' = Idle(wifiConfig)
            /\ WifiTo(IF WifiSta(status) < WifiTarget(wifiConfig.prev.v)
                        THEN "wifi_bring_up" ELSE "mqtt_poll")
       ELSE /\ wifi' = [Idle(wifiConfig) EXCEPT !.cfg = Load(wifiConfig), !.fresh = TRUE]
            /\ WifiTo("wifi_set_down")
  /\ UNCHANGED driver

(* The entry of set_down and of bring_up. *)
WifiRead ==
  /\ pc \in {"wifi_set_down", "wifi_bring_up"}
  /\ wifi' = [wifi EXCEPT !.sta = WifiSta(status)]
  /\ WifiTo(IF pc = "wifi_set_down" THEN "wifi_down" ELSE "wifi_up")
  /\ UNCHANGED driver

(* The return of a poll, and of set_down to it. *)
WifiEnd == WifiTo("mqtt_poll") /\ wifi' = Idle(wifiConfig)

WifiDownTarget == WifiTarget(wifi.cfg.v)

WifiDownDone ==
  /\ pc = "wifi_down"
  /\ wifi.sta < WifiDownTarget \/ wifi.sta = UNINTIALIZED
  /\ WifiTo("wifi_bring_up")
  /\ UNCHANGED <<driver, wifi>>

(* BUSY: the pre-down callback, MQTT's set_down to DISCONNECTED. *)
WifiDownBusy ==
  /\ pc = "wifi_down" /\ wifi.sta = BUSY
  /\ pc' = "mqtt_set_down"
  /\ mqtt' = [Idle(mqttConfig) EXCEPT !.nested = TRUE]
  /\ UNCHANGED <<driver, store, topicsSet, present, wifi, direct>>

WifiDownJoined ==
  /\ pc = "wifi_down" /\ wifi.sta = JOINED /\ ~(wifi.sta < WifiDownTarget)
  /\ QuitCall
  /\ WifiTo("wifi_down_wait")
  /\ UNCHANGED wifi

WifiDownIdle ==
  /\ pc = "wifi_down" /\ wifi.sta = IDLE /\ ~(wifi.sta < WifiDownTarget)
  /\ DeinitCall
  /\ WifiTo("wifi_down_wait")
  /\ UNCHANGED wifi

(* ensure_status_changed_from, without a bound on the wait.  A lower status *)
(* is handled by a branch still to come, a higher one by none.              *)
WifiDownWait ==
  /\ pc = "wifi_down_wait" /\ WifiSta(status) # wifi.sta
  /\ IF WifiSta(status) < wifi.sta
       THEN wifi' = [wifi EXCEPT !.sta = WifiSta(status)] /\ WifiTo("wifi_down")
       ELSE WifiEnd
  /\ UNCHANGED driver

WifiUpInit ==
  /\ pc = "wifi_up" /\ wifi.sta = UNINTIALIZED /\ wifi.sta < WifiTarget(wifi.cfg.v)
  /\ InitCall
  /\ WifiTo("wifi_up_wait")
  /\ UNCHANGED wifi

WifiUpJoin ==
  /\ pc = "wifi_up" /\ wifi.sta = IDLE /\ wifi.sta < WifiTarget(wifi.cfg.v)
  /\ JoinCall
  /\ IF JoinOk THEN WifiTo("wifi_up_wait") /\ UNCHANGED wifi ELSE WifiEnd

(* try_ensure_wifi_status_changed_from: it may give up. *)
WifiUpWait ==
  /\ pc = "wifi_up_wait"
  /\ WifiSta(status) # wifi.sta \/ "timeout" \in Faults
  /\ IF WifiSta(status) > wifi.sta
       THEN wifi' = [wifi EXCEPT !.sta = WifiSta(status)] /\ WifiTo("wifi_up")
       ELSE WifiEnd
  /\ UNCHANGED driver

(* As configured; no post-up callback is ever registered.  Nothing else is  *)
(* done for a status that is more than JOINED.                              *)
WifiUpDone ==
  /\ pc = "wifi_up" /\ wifi.sta # BUSY
  /\ wifi.sta = JOINED \/ wifi.sta >= WifiTarget(wifi.cfg.v)
  /\ wifiConfig' = IF wifi.fresh THEN Synchorized(wifiConfig, wifi.cfg) ELSE wifiConfig
  /\ wifi' = Idle(wifiConfig')
  /\ pc' = "mqtt_poll"
  /\ UNCHANGED <<driver, mqttConfig, topicsSet, present, mqtt, direct>>

WifiUpBusy ==
  /\ pc = "wifi_up" /\ wifi.sta = BUSY
  /\ WifiEnd
  /\ UNCHANGED driver

Wifi ==
  \/ WifiPoll \/ WifiRead
  \/ WifiDownDone \/ WifiDownBusy \/ WifiDownJoined \/ WifiDownIdle \/ WifiDownWait
  \/ WifiUpInit \/ WifiUpJoin \/ WifiUpWait \/ WifiUpDone \/ WifiUpBusy

-----------------------------------------------------------------------------
(* MQTT, on the supervisor's thread. *)

MqttGoes(next) == pc' = next /\ UNCHANGED <<store, wifi>>

MqttTo(next) == MqttGoes(next) /\ UNCHANGED direct

(* History: a server is taken up directly if the client of another lives.   *)
Directly(v) ==
  v \in Servers /\ \E i \in DOMAIN clients : Alive(clients[i]) /\ clients[i].server # v

MqttPoll ==
  /\ pc = "mqtt_poll"
  /\ IF IsSynchorized(mqttConfig)
       THEN /\ mqtt' = Idle(mqttConfig)
            /\ MqttTo(IF MqttSta(status, topicsSet) < MqttTarget(mqttConfig.prev.v)
                        THEN "mqtt_bring_up" ELSE "sleep")
       ELSE /\ mqtt' = [Idle(mqttConfig) EXCEPT !.cfg = Load(mqttConfig), !.fresh = TRUE]
            /\ MqttGoes("mqtt_set_down")
            /\ direct' = Directly(Load(mqttConfig).v)
  /\ UNCHANGED <<driver, topicsSet, present>>

MqttEnd == MqttTo("sleep") /\ mqtt' = Idle(mqttConfig)

MqttRead ==
  /\ pc \in {"mqtt_set_down", "mqtt_bring_up"}
  /\ IF pc = "mqtt_bring_up" /\ WifiSta(status) < JOINED
       THEN MqttEnd
       ELSE /\ mqtt' = [mqtt EXCEPT !.sta = MqttSta(status, topicsSet)]
            /\ MqttTo(IF pc = "mqtt_set_down" THEN "mqtt_down" ELSE "mqtt_up")
  /\ UNCHANGED <<driver, topicsSet, present>>

MqttDownTarget == IF mqtt.nested THEN DISCONNECTED ELSE MqttTarget(mqtt.cfg.v)

(* set_down returns: to the poll, or to WiFi's set_down, which does not     *)
(* look at the result.                                                      *)
MqttDownReturns(ok) ==
  IF mqtt.nested
    THEN MqttTo("wifi_down_wait") /\ mqtt' = Idle(mqttConfig)
    ELSE IF ok THEN MqttTo("mqtt_bring_up") /\ UNCHANGED mqtt ELSE MqttEnd

MqttDownDone ==
  /\ pc = "mqtt_down"
  /\ mqtt.sta < MqttDownTarget \/ mqtt.sta = DISCONNECTED
  /\ MqttDownReturns(TRUE)
  /\ UNCHANGED <<driver, topicsSet, present>>

MqttDownActive ==
  /\ pc = "mqtt_down" /\ mqtt.sta = ACTIVE
  /\ UnsubscribeCall
  /\ topicsSet' = FALSE
  /\ mqtt' = [mqtt EXCEPT !.sta = MqttSta(status, FALSE)]
  /\ MqttTo("mqtt_down")
  /\ UNCHANGED present

MqttDownConnected ==
  /\ pc = "mqtt_down" /\ mqtt.sta = CONNECTED /\ ~(mqtt.sta < MqttDownTarget)
  /\ DisconnectCall
  /\ IF DisconnectOk
       THEN present' = FALSE /\ MqttTo("mqtt_down_wait") /\ UNCHANGED mqtt
       ELSE MqttDownReturns(FALSE) /\ UNCHANGED present
  /\ UNCHANGED topicsSet

MqttDownWait ==
  /\ pc = "mqtt_down_wait" /\ MqttSta(status, topicsSet) # mqtt.sta
  /\ MqttDownReturns(MqttSta(status, topicsSet) = DISCONNECTED)
  /\ UNCHANGED <<driver, topicsSet, present>>

(* Mutants of MqttUpConnect: the topics of the session before are kept; and *)
(* the transport stays absent.                                              *)
MqttUpConnectKeepsTopics ==
  /\ pc = "mqtt_up" /\ mqtt.sta = DISCONNECTED /\ mqtt.sta < MqttTarget(mqtt.cfg.v)
  /\ ConnectCall(mqtt.cfg.v)
  /\ IF ConnectOk
       THEN present' = TRUE /\ MqttTo("mqtt_up_wait") /\ UNCHANGED mqtt
       ELSE MqttEnd /\ UNCHANGED present
  /\ UNCHANGED topicsSet

MqttUpConnectAbsent ==
  /\ pc = "mqtt_up" /\ mqtt.sta = DISCONNECTED /\ mqtt.sta < MqttTarget(mqtt.cfg.v)
  /\ topicsSet' = FALSE
  /\ ConnectCall(mqtt.cfg.v)
  /\ IF ConnectOk THEN MqttTo("mqtt_up_wait") /\ UNCHANGED mqtt ELSE MqttEnd
  /\ UNCHANGED present

MqttUpConnect ==
  /\ pc = "mqtt_up" /\ mqtt.sta = DISCONNECTED /\ mqtt.sta < MqttTarget(mqtt.cfg.v)
  /\ topicsSet' = FALSE
  /\ ConnectCall(mqtt.cfg.v)
  /\ IF ConnectOk
       THEN present' = TRUE /\ MqttTo("mqtt_up_wait") /\ UNCHANGED mqtt
       ELSE MqttEnd /\ UNCHANGED present

MqttUpWait ==
  /\ pc = "mqtt_up_wait"
  /\ MqttSta(status, topicsSet) # mqtt.sta \/ "timeout" \in Faults
  /\ IF MqttSta(status, topicsSet) # mqtt.sta
       THEN mqtt' = [mqtt EXCEPT !.sta = MqttSta(status, topicsSet)] /\ MqttTo("mqtt_up")
       ELSE MqttEnd
  /\ UNCHANGED <<driver, topicsSet, present>>

MqttUpSubscribe ==
  /\ pc = "mqtt_up" /\ mqtt.sta = CONNECTED /\ mqtt.sta < MqttTarget(mqtt.cfg.v)
  /\ SubscribeCall
  /\ topicsSet' = (topicsSet \/ SubscribeOk)
  /\ IF SubscribeOk
       THEN MqttTo("mqtt_up_read") /\ UNCHANGED mqtt
       ELSE MqttEnd
  /\ UNCHANGED present

(* The session may have been lost meanwhile. *)
MqttUpRead ==
  /\ pc = "mqtt_up_read"
  /\ IF MqttSta(status, topicsSet) = ACTIVE
       THEN mqtt' = [mqtt EXCEPT !.sta = ACTIVE] /\ MqttTo("mqtt_up")
       ELSE MqttEnd
  /\ UNCHANGED <<driver, topicsSet, present>>

(* ACTIVE, or as much as configured: the device is announced. *)
MqttUpDone ==
  /\ pc = "mqtt_up" /\ (mqtt.sta = ACTIVE \/ mqtt.sta >= MqttTarget(mqtt.cfg.v))
  /\ mqttConfig' = IF mqtt.fresh THEN Synchorized(mqttConfig, mqtt.cfg) ELSE mqttConfig
  /\ mqtt' = Idle(mqttConfig')
  /\ pc' = "sleep"
  /\ UNCHANGED <<driver, wifiConfig, topicsSet, present, wifi, direct>>

Mqtt ==
  \/ MqttPoll \/ MqttRead
  \/ MqttDownDone \/ MqttDownActive \/ MqttDownConnected \/ MqttDownWait
  \/ MqttUpConnect \/ MqttUpWait \/ MqttUpSubscribe \/ MqttUpRead \/ MqttUpDone

-----------------------------------------------------------------------------
Supervisor == Wifi \/ Mqtt

DriverEvent == Event /\ UNCHANGED <<store, topicsSet, present, pc, wifi, mqtt, direct>>

Next == StoreWifi \/ StoreMqtt \/ Supervisor \/ DriverEvent

Spec == Init /\ [][Next]_vars

(* The supervisor's thread and the tasks of the IDF run on, the access      *)
(* point and the servers answer a station or a client that keeps trying,    *)
(* and a client notices in the end that its connection is gone.             *)
Fairness ==
  /\ WF_vars(Supervisor)
  /\ SF_vars(GotIp /\ DriverEvent)
  /\ \A i \in 1 .. MaxClients :
       LET Live(event) == i \in DOMAIN clients /\ event /\ DriverEvent IN
         /\ SF_vars(Live(ClientConnected(i)))
         /\ WF_vars(Live(ClientStopped(i)))
         /\ WF_vars(Live(radio # "up" /\ ClientLost(i)))

FairSpec == Spec /\ Fairness

-----------------------------------------------------------------------------
Config == [n : Nat, v : {"boot", "off", "ap"} \cup Servers]

Local == [cfg : Config, sta : UNKNOWN .. BUSY, fresh : BOOLEAN, nested : BOOLEAN]

Object == [prev : Config, next : Config \cup {NoNext}]

ASSUME NoNextAssumption == NoNext \notin Config

(* Types of the driver and of the supervisor's state. *)
TypeOK ==
  /\ DriverTypeOK
  /\ topicsSet \in BOOLEAN /\ present \in BOOLEAN
  /\ pc \in {"sleep", "wifi_set_down", "wifi_down", "wifi_down_wait",
             "wifi_bring_up", "wifi_up", "wifi_up_wait",
             "mqtt_poll", "mqtt_set_down", "mqtt_down", "mqtt_down_wait",
             "mqtt_bring_up", "mqtt_up", "mqtt_up_wait", "mqtt_up_read"}
  /\ wifi \in Local /\ mqtt \in Local
  /\ wifiConfig \in Object /\ mqttConfig \in Object
  /\ direct \in BOOLEAN

(* Wi-Fi disabled counts as applied only once the station is off. *)
OffMeansOff ==
  wifiConfig'.prev # wifiConfig.prev /\ wifiConfig'.prev.v = "off" => radio = "off"

(* While the session is called active (the supervisor then leaves it alone), *)
(* the client in hand has asked its server for the topic.  It may have lost *)
(* its session since, and the topic with it, but never before it asked.     *)
ActiveHasSubscribed ==
  MqttSta(status, topicsSet) = ACTIVE => clients[Handle].subscribed # "no"

(* The status of a station that is not up is JOINED only if a client's event *)
(* has overwritten the station's, or after quit, which listens to none.     *)
JoinedMeansUp ==
  status \in {"JOINED", "CONNECTED"} /\ handled /\ clients = <<>> => radio = "up"

(* Whatever is lost, refused or late, what is reported was done: Wi-Fi that *)
(* is off or joined, and a session that has subscribed.                     *)
ReportedMeansDone == [][OffMeansOff /\ ActiveHasSubscribed' /\ JoinedMeansUp']_vars

(* Why it holds.  The topics are set only while the client in hand has asked *)
(* for them.                                                                *)
AskedIfSet == topicsSet => Handle # 0 /\ clients[Handle].subscribed # "no"

(* A status of zero is never read.  Where Wi-Fi is being disabled, a status *)
(* UNINTIALIZED was read from a driver that has switched the station off,   *)
(* and from there on nothing switches it on.                                *)
OffWhenDown ==
  /\ pc \in {"wifi_down", "wifi_up"} => wifi.sta # UNKNOWN
  /\ wifi.cfg.v = "off" =>
       /\ pc = "wifi_down" /\ wifi.sta = UNINTIALIZED => radio = "off"
       /\ pc \in {"wifi_bring_up", "wifi_up"} => radio = "off"
       /\ pc # "wifi_up_wait"

NetInv == TypeOK /\ JoinedMeansUp /\ AskedIfSet /\ OffWhenDown

(* docs/protocol/at_protocol.md on AT+MQTTSERVER: "You don't need to        *)
(* explicitly unsubscribe the MQTT topics or disconnecting the MQTT server  *)
(* before calling this API, we will do it automatically": once the          *)
(* configuration is applied, no client lives on at another server.          *)
OldServerLeft ==
  IsSynchorized(mqttConfig) =>
    \A i \in DOMAIN clients :
      Alive(clients[i]) => clients[i].server = mqttConfig.prev.v

(* It holds unless a server was taken up directly, while the client of      *)
(* another lived: set_down then ends nothing, because CONNECTED is less     *)
(* than the ACTIVE it is to come to.  A server left for none, or one taken  *)
(* up after that, or again, before or after a direct change is as promised; *)
(* and at any time one client at most holds a session or tries to.          *)
OneClientAtServer ==
  /\ ~direct => OldServerLeft
  /\ \A i, j \in DOMAIN clients : Alive(clients[i]) /\ Alive(clients[j]) => i = j

(* get_mqtt_server's "2: connected + updated" is said only of a live        *)
(* session, at the server that is configured unless that was taken up       *)
(* directly, and of a transport that is present again after the session     *)
(* before was told to stop; and if it is called active, the server has its  *)
(* topic: it takes commands and answers.                                    *)
UpdatedMeansAtServer ==
  status = "CONNECTED" /\ IsSynchorized(mqttConfig) =>
    /\ present
    /\ \E i \in DOMAIN clients :
         /\ clients[i].session = "connected"
         /\ direct \/ clients[i].server = mqttConfig.prev.v
         /\ topicsSet => clients[i].subscribed = "yes"

(* Why these two hold: as long as nothing goes wrong and Wi-Fi is            *)
(* configured once.                                                         *)
Calm == Faults = {} /\ WifiConfigs \subseteq {"ap"} /\ MaxWifiStores <= 1

(* Until its one configuration is applied, Wi-Fi goes straight up; then it  *)
(* stays up, and is left alone.                                             *)
WifiOnce ==
  /\ wifiConfig.prev \in {[n |-> 0, v |-> "boot"], [n |-> 1, v |-> "ap"]}
  /\ wifiConfig.next \in {NoNext, [n |-> 1, v |-> "ap"]}
  /\ wifiConfig.prev.v = "boot" =>
       /\ clients = <<>> /\ ~topicsSet /\ status # "CONNECTED"
       /\ pc \in {"sleep", "mqtt_poll", "mqtt_set_down", "mqtt_down", "mqtt_bring_up"} =>
            status = "LOST"
       /\ pc \notin {"mqtt_down_wait", "mqtt_up", "mqtt_up_wait", "mqtt_up_read"}
  /\ wifiConfig.prev.v = "ap" =>
       /\ ~Pending(wifiConfig) /\ radio = "up" /\ status \in {"JOINED", "CONNECTED"}

WifiRises ==
  pc \in {"wifi_set_down", "wifi_down", "wifi_down_wait", "wifi_bring_up", "wifi_up",
          "wifi_up_wait"} =>
    /\ wifiConfig.prev.v = "boot" /\ Pending(wifiConfig)
    /\ wifi.cfg = wifiConfig.next /\ wifi.fresh
    /\ pc \in {"wifi_set_down", "wifi_down", "wifi_bring_up"} => status = "LOST"
    /\ pc = "wifi_down" => wifi.sta = UNINTIALIZED
    /\ pc # "wifi_down_wait"
    /\ pc = "wifi_up" =>
         /\ wifi.sta = WifiSta(status)
         /\ status = "IDLE" => radio = "down"
         /\ status = "JOINED" => radio = "up"
    /\ pc = "wifi_up_wait" =>
         \/ wifi.sta = UNINTIALIZED /\ status = "IDLE" /\ radio = "down"
         \/ wifi.sta = IDLE /\ radio = "joining" /\ status = "IDLE"
         \/ wifi.sta = IDLE /\ radio = "up" /\ status = "JOINED"

(* The session of the client in hand.  The others have stopped.             *)
Session == IF Handle = 0 THEN "none" ELSE clients[Handle].session

(* The status tells the truth about it, and it changes by itself only while *)
(* the supervisor waits for that.                                           *)
SessionKnown ==
  /\ \A i \in DOMAIN clients : i # Handle => ~Alive(clients[i])
  /\ \A i \in DOMAIN clients : clients[i].server \in MqttConfigs
  /\ status = "CONNECTED" <=> Session \in {"connected", "stopping"}
  /\ Session = "trying" => pc = "mqtt_up_wait"
  /\ Session = "stopping" => pc = "mqtt_down_wait"
  /\ Session \in {"trying", "connected"} => present
  /\ topicsSet => Session = "connected" /\ clients[Handle].subscribed = "yes"

(* What the supervisor has read of MQTT is still so, and what it works on   *)
(* is not yet called applied.                                               *)
MqttUnderWay ==
  /\ ~mqtt.nested
  /\ mqttConfig.prev.v \in {"boot"} \cup MqttConfigs
  /\ Pending(mqttConfig) =>
       mqttConfig.next.v \in MqttConfigs /\ mqttConfig.next.n > mqttConfig.prev.n
  /\ pc \in {"mqtt_set_down", "mqtt_down", "mqtt_down_wait", "mqtt_bring_up", "mqtt_up",
             "mqtt_up_wait", "mqtt_up_read"} =>
       IF mqtt.fresh
         THEN /\ Pending(mqttConfig) /\ mqtt.cfg.v \in MqttConfigs
              /\ mqtt.cfg.n > mqttConfig.prev.n /\ mqttConfig.next.n >= mqtt.cfg.n
         ELSE mqtt.cfg = mqttConfig.prev /\ mqtt.cfg.v \in Servers
  /\ pc \in {"mqtt_set_down", "mqtt_down", "mqtt_down_wait"} => mqtt.fresh
  /\ pc \in {"mqtt_down", "mqtt_up"} => mqtt.sta = MqttSta(status, topicsSet)
  /\ pc \in {"mqtt_bring_up", "mqtt_up"} /\ mqtt.cfg.v = "off" => status # "CONNECTED"
  /\ pc = "mqtt_down_wait" =>
       mqtt.sta = CONNECTED /\ ~topicsSet /\ Session \in {"stopping", "stopped"}
  /\ pc = "mqtt_up_wait" =>
       mqtt.sta = DISCONNECTED /\ mqtt.cfg.v \in Servers /\ Session \in {"trying", "connected"}
  /\ pc = "mqtt_up_read" => mqtt.cfg.v \in Servers

(* A session lasts only while a server is configured, or until what was     *)
(* configured is applied; and it is at the server configured, or to be,     *)
(* unless that was taken up directly.                                       *)
MqttWorks == pc \in {"mqtt_set_down", "mqtt_down", "mqtt_down_wait", "mqtt_bring_up",
                     "mqtt_up", "mqtt_up_wait", "mqtt_up_read"}

SessionConfigured ==
  Session \in {"trying", "connected", "stopping"} =>
    /\ IsSynchorized(mqttConfig) =>
         /\ mqttConfig.prev.v \in Servers
         /\ direct \/ clients[Handle].server = mqttConfig.prev.v
    /\ MqttWorks /\ mqtt.fresh /\ mqtt.cfg.v \in Servers =>
         direct \/ clients[Handle].server = mqtt.cfg.v

CalmInv == NetInv /\ WifiOnce /\ WifiRises /\ SessionKnown /\ MqttUnderWay /\ SessionConfigured

(* docs/protocol/at_protocol.md: "The supervisor will poll the WiFi status  *)
(* every 5s by default and try to reconnect".                               *)
SupervisorPolls == []<>(pc = "sleep")

(* With Wi-Fi configured, every MQTT configuration stored, or a later one,  *)
(* is applied in the end.                                                   *)
MqttApplied ==
  \A n \in 1 .. MaxMqttStores :
    (wifiConfig.prev.v = "ap" /\ Load(mqttConfig).n >= n) ~> mqttConfig.prev.n >= n
=============================================================================
