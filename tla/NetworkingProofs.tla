-------------------------- MODULE NetworkingProofs --------------------------
(***************************************************************************)
(* Proofs about Networking: what holds for every set of servers and        *)
(* configurations, whatever fails, and what holds while nothing does.      *)
(***************************************************************************)
EXTENDS Networking, SequenceTheorems, TLAPS

DriverInv == DriverTypeOK /\ JoinedMeansUp

-----------------------------------------------------------------------------
(* The driver. *)

\* One client changed.
LEMMA ClientChanged ==
  ASSUME clients \in Seq(Client), NEW i \in DOMAIN clients, NEW c \in Client,
         clients' = [clients EXCEPT ![i] = c]
  PROVE  /\ clients' \in Seq(Client) /\ Len(clients') = Len(clients)
         /\ DOMAIN clients' = DOMAIN clients /\ clients'[i] = c
         /\ \A j \in DOMAIN clients \ {i} : clients'[j] = clients[j]
BY ExceptSeq

\* There is room for one more, and every client kept was there before.
LEMMA KeptFacts ==
  ASSUME DriverTypeOK
  PROVE  /\ Kept \in Seq(Client) /\ Len(Kept) < MaxClients
         /\ \A k \in DOMAIN Kept : \E j \in DOMAIN clients : Kept[k] = clients[j]
<1> DEFINE stopped == {i \in DOMAIN clients : ~Alive(clients[i])}
           gone == IF stopped = {} THEN 1 ELSE CHOOSE i \in stopped : TRUE
           rest == [k \in 1 .. MaxClients - 1 |-> clients[IF k < gone THEN k ELSE k + 1]]
<1>1. clients \in Seq(Client) /\ Len(clients) <= MaxClients /\ MaxClients \in Nat \ {0}
  BY MaxClientsAssumption DEF DriverTypeOK
<1>2. CASE Len(clients) < MaxClients
  BY <1>1, <1>2 DEF Kept
<1>3. CASE ~(Len(clients) < MaxClients)
  <2>1. Kept = rest
    BY <1>3 DEF Kept
  <2>2. Len(clients) = MaxClients /\ DOMAIN clients = 1 .. MaxClients
    BY <1>1, <1>3
  <2>3. gone \in 1 .. MaxClients
    BY <1>1, <2>2
  <2> HIDE DEF gone
  <2>4. \A k \in 1 .. MaxClients - 1 :
          rest[k] \in Client /\ \E j \in DOMAIN clients : rest[k] = clients[j]
    BY <1>1, <2>2, <2>3
  <2>5. rest \in [1 .. MaxClients - 1 -> Client]
    BY <2>4
  <2>6. rest \in Seq(Client) /\ Len(rest) = MaxClients - 1
    BY <1>1, <2>5
  <2> QED
    BY <1>1, <2>1, <2>4, <2>6
<1> QED
  BY <1>2, <1>3

\* An event of a client: its session changes, and what it subscribed may be lost.
LEMMA BecomesFacts ==
  ASSUME DriverInv, NEW i \in DOMAIN clients,
         NEW session \in {"trying", "connected", "stopping", "stopped"},
         NEW sta \in {"JOINED", "CONNECTED"}, Becomes(i, session, sta)
  PROVE  DriverInv' /\ (AskedIfSet /\ topicsSet' = topicsSet => AskedIfSet') /\ radio' = radio
<1> DEFINE c == [clients[i] EXCEPT !.session = session,
                   !.subscribed = IF session # "connected" /\ @ = "yes" THEN "lost" ELSE @]
<1>0. clients \in Seq(Client) /\ Len(clients) <= MaxClients
  BY DEF DriverInv, DriverTypeOK
<1>1. clients[i] \in Client /\ c \in Client
      /\ (clients[i].subscribed # "no" => c.subscribed # "no")
  <2>1. clients[i] \in Client
    BY <1>0
  <2> QED
    BY <2>1, Zenon DEF Client
<1>2. clients' = [clients EXCEPT ![i] = c]
  BY <1>0 DEF Becomes
<1> HIDE DEF c
<1>3. /\ clients' \in Seq(Client) /\ Len(clients') = Len(clients)
      /\ DOMAIN clients' = DOMAIN clients /\ clients'[i] = c
      /\ \A j \in DOMAIN clients \ {i} : clients'[j] = clients[j]
  BY <1>0, <1>1, <1>2, ClientChanged
<1>4. clients # <<>> /\ clients' # <<>>
  BY <1>0, <1>3
<1>5. status' = sta /\ handled' = handled /\ radio' = radio
  BY DEF Becomes
<1>6. DriverInv'
  BY <1>0, <1>3, <1>4, <1>5 DEF DriverInv, DriverTypeOK, JoinedMeansUp
<1>7. ASSUME AskedIfSet, topicsSet' = topicsSet PROVE AskedIfSet'
  <2>1. topicsSet' => Handle \in DOMAIN clients /\ clients[Handle].subscribed # "no"
    BY <1>0, <1>7 DEF AskedIfSet, Handle
  <2>2. Handle' = Handle
    BY <1>3 DEF Handle
  <2> QED
    BY <1>1, <1>3, <2>1, <2>2 DEF AskedIfSet
<1> QED
  BY <1>5, <1>6, <1>7

\* The events: none of them switches the station on.
LEMMA EventFacts ==
  ASSUME DriverInv, AskedIfSet, Event, topicsSet' = topicsSet
  PROVE  DriverInv' /\ AskedIfSet' /\ (radio = "off" => radio' = "off")
<1>1. CASE GotIp
  <2>1. handled /\ radio' = "up" /\ status' = "JOINED" /\ UNCHANGED <<handled, clients>>
    BY <1>1 DEF GotIp, DriverInv, DriverTypeOK
  <2> QED
    BY <1>1, <2>1 DEF GotIp, DriverInv, DriverTypeOK, JoinedMeansUp, AskedIfSet, Handle
<1>2. CASE JoinFails \/ SignalLost
  <2>1. handled /\ radio' = "down" /\ status' = "IDLE" /\ UNCHANGED <<handled, clients>>
    BY <1>2 DEF JoinFails, SignalLost, DriverInv, DriverTypeOK
  <2> QED
    BY <1>2, <2>1 DEF JoinFails, SignalLost, DriverInv, DriverTypeOK, JoinedMeansUp, AskedIfSet,
         Handle
<1>3. CASE ClientEvent
  <2>1. PICK i \in DOMAIN clients :
          ClientConnected(i) \/ ClientRefused(i) \/ ClientLost(i) \/ ClientStopped(i)
    BY <1>3 DEF ClientEvent
  <2>2. \/ Becomes(i, "connected", "CONNECTED") \/ Becomes(i, "trying", "JOINED")
        \/ Becomes(i, "stopped", "JOINED")
    BY <2>1 DEF ClientConnected, ClientRefused, ClientLost, ClientStopped
  <2> QED
    BY <2>2, BecomesFacts
<1> QED
  BY <1>1, <1>2, <1>3 DEF Event

\* The calls for the station.
LEMMA StationCalls ==
  ASSUME DriverInv, InitCall \/ DeinitCall \/ JoinCall \/ QuitCall
  PROVE  DriverInv' /\ UNCHANGED clients
<1> USE DEF DriverInv, DriverTypeOK, JoinedMeansUp, driver
<1>1. CASE InitCall
  BY <1>1 DEF InitCall
<1>2. CASE DeinitCall
  BY <1>2 DEF DeinitCall
<1>3. CASE JoinCall
  <2>1. handled' \in BOOLEAN
    BY <1>3 DEF JoinCall
  <2> QED
    BY <1>3, <2>1 DEF JoinCall
<1>4. CASE QuitCall
  <2>1. handled' \in BOOLEAN
    BY <1>4, Zenon DEF QuitCall
  <2> QED
    BY <1>4, <2>1 DEF QuitCall
<1> QED
  BY <1>1, <1>2, <1>3, <1>4

\* connect appends the client that is in hand from then on.
LEMMA ConnectFacts ==
  ASSUME DriverInv, NEW server \in Servers, ConnectCall(server)
  PROVE  DriverInv' /\ radio' = radio
<1> DEFINE new == [server |-> server, session |-> "trying", subscribed |-> "no"]
<1>1. new \in Client
  BY DEF Client
<1>2. Kept \in Seq(Client) /\ Len(Kept) < MaxClients
  BY KeptFacts DEF DriverInv
<1>3. /\ Append(Kept, new) \in Seq(Client) /\ Len(Append(Kept, new)) <= MaxClients
      /\ Append(Kept, new) # <<>>
  BY <1>1, <1>2, AppendProperties, MaxClientsAssumption
<1> HIDE DEF new
<1>4. clients' = (IF status = "JOINED" THEN Append(Kept, new) ELSE clients)
      /\ UNCHANGED <<status, handled, radio>>
  BY DEF ConnectCall, new
<1> QED
  BY <1>3, <1>4 DEF DriverInv, DriverTypeOK, JoinedMeansUp

\* The requests of the client in hand.
LEMMA RequestFacts ==
  ASSUME DriverInv, NEW answer \in {"no", "yes"}, Subscribes(answer)
  PROVE  /\ DriverInv' /\ radio' = radio
         /\ SubscribeOk => Handle' # 0 /\ clients'[Handle'].subscribed = answer
         /\ ~SubscribeOk => UNCHANGED clients
<1>0. clients \in Seq(Client) /\ Len(clients) <= MaxClients
  BY DEF DriverInv, DriverTypeOK
<1>1. UNCHANGED <<status, handled, radio>>
  BY DEF Subscribes
<1>2. CASE SubscribeOk
  <2> DEFINE c == [clients[Handle] EXCEPT !.subscribed = answer]
  <2>1. Handle \in DOMAIN clients /\ Handle # 0
    BY <1>0, <1>2 DEF SubscribeOk, HandleConnected, Handle
  <2>2. c \in Client /\ c.subscribed = answer
    <3>1. clients[Handle] \in Client
      BY <1>0, <2>1
    <3> QED
      BY <3>1 DEF Client
  <2>3. clients' = [clients EXCEPT ![Handle] = c]
    BY <1>2 DEF Subscribes
  <2> HIDE DEF c
  <2>4. /\ clients' \in Seq(Client) /\ Len(clients') = Len(clients)
        /\ DOMAIN clients' = DOMAIN clients /\ clients'[Handle] = c
    BY <1>0, <2>1, <2>2, <2>3, ClientChanged
  <2>5. clients # <<>> /\ clients' # <<>>
    BY <1>0, <2>1, <2>4
  <2> QED
    BY <1>0, <1>1, <1>2, <2>1, <2>2, <2>4, <2>5
    DEF DriverInv, DriverTypeOK, JoinedMeansUp, Handle
<1>3. CASE ~SubscribeOk
  BY <1>1, <1>3 DEF Subscribes, DriverInv, DriverTypeOK, JoinedMeansUp
<1> QED
  BY <1>2, <1>3

\* disconnect: the client in hand is told to stop.
LEMMA DisconnectFacts ==
  ASSUME DriverInv, DisconnectCall
  PROVE  DriverInv' /\ radio' = radio /\ (AskedIfSet /\ topicsSet' = topicsSet => AskedIfSet')
<1>0. clients \in Seq(Client) /\ Len(clients) <= MaxClients
  BY DEF DriverInv, DriverTypeOK
<1>1. UNCHANGED <<status, handled, radio>>
  BY DEF DisconnectCall
<1>2. CASE DisconnectOk /\ Handle # 0
  <2> DEFINE c == [clients[Handle] EXCEPT !.session = Stopped(@)]
  <2>1. Handle \in DOMAIN clients
    BY <1>0, <1>2 DEF Handle
  <2>2. c \in Client /\ c.subscribed = clients[Handle].subscribed
    <3>1. clients[Handle] \in Client
      BY <1>0, <2>1
    <3>2. Stopped(clients[Handle].session) \in {"trying", "connected", "stopping", "stopped"}
      BY <3>1 DEF Client, Stopped
    <3> QED
      BY <3>1, <3>2 DEF Client
  <2>3. clients' = [clients EXCEPT ![Handle] = c]
    BY <1>2 DEF DisconnectCall
  <2> HIDE DEF c
  <2>4. /\ clients' \in Seq(Client) /\ Len(clients') = Len(clients)
        /\ DOMAIN clients' = DOMAIN clients /\ clients'[Handle] = c
    BY <1>0, <2>1, <2>2, <2>3, ClientChanged
  <2>5. clients # <<>> /\ clients' # <<>>
    BY <1>0, <2>1, <2>4
  <2> QED
    BY <1>0, <1>1, <1>2, <2>1, <2>2, <2>4, <2>5
    DEF DriverInv, DriverTypeOK, JoinedMeansUp, Handle, AskedIfSet
<1>3. CASE ~(DisconnectOk /\ Handle # 0)
  BY <1>1, <1>3 DEF DisconnectCall, DriverInv, DriverTypeOK, JoinedMeansUp, AskedIfSet, Handle
<1> QED
  BY <1>2, <1>3

-----------------------------------------------------------------------------
(* The configurations, the status and the locals of a call. *)

\* What the worker stores and the supervisor applies stays a pair of configurations.
LEMMA ObjectFacts ==
  ASSUME NEW o \in Object
  PROVE  /\ o.prev \in Config /\ Load(o) \in Config
         /\ \A v \in {"boot", "off", "ap"} \cup Servers : Stored(o, v) \in Object
         /\ \A t \in Config : Synchorized(o, t) \in Object
<1>1. o.prev \in Config /\ Load(o) \in Config
  BY DEF Object, Load, Pending
<1>2. ASSUME NEW v \in {"boot", "off", "ap"} \cup Servers PROVE Stored(o, v) \in Object
  <2>1. [n |-> Load(o).n + 1, v |-> v] \in Config
    BY <1>1 DEF Config
  <2> QED
    BY <2>1 DEF Stored, Object
<1>3. ASSUME NEW t \in Config PROVE Synchorized(o, t) \in Object
  BY <1>1 DEF Synchorized, PrevAfter, Object
<1> QED
  BY <1>1, <1>2, <1>3

\* The locals at the start of a call, and with what it reads.
LEMMA LocalFacts ==
  ASSUME NEW o \in Object
  PROVE  /\ Idle(o) \in Local /\ Idle(o).cfg = o.prev
         /\ [Idle(o) EXCEPT !.cfg = Load(o), !.fresh = TRUE] \in Local
         /\ [Idle(o) EXCEPT !.nested = TRUE] \in Local
         /\ \A l \in Local, sta \in UNKNOWN .. BUSY : [l EXCEPT !.sta = sta] \in Local
<1> USE ObjectFacts DEF Idle, Local, UNKNOWN, BUSY
<1>1. Idle(o) \in Local /\ Idle(o).cfg = o.prev
  OBVIOUS
<1>0. \A l \in Local, c \in Config, b \in BOOLEAN :
        [l EXCEPT !.cfg = c, !.fresh = b] \in Local /\ [l EXCEPT !.nested = b] \in Local
  OBVIOUS
<1> HIDE DEF Idle, Local
<1>2. [Idle(o) EXCEPT !.cfg = Load(o), !.fresh = TRUE] \in Local
  BY <1>0, <1>1, TRUE \in BOOLEAN, Zenon
<1>3. [Idle(o) EXCEPT !.nested = TRUE] \in Local
  BY <1>0, <1>1, ObjectFacts, TRUE \in BOOLEAN, Zenon
<1>4. \A l \in Local, sta \in UNKNOWN .. BUSY : [l EXCEPT !.sta = sta] \in Local
  BY DEF Local
<1> QED
  BY <1>1, <1>2, <1>3, <1>4

\* What the status reads as.
LEMMA StaFacts ==
  ASSUME DriverTypeOK, topicsSet \in BOOLEAN
  PROVE  /\ WifiSta(status) \in UNINTIALIZED .. BUSY
         /\ WifiSta(status) = UNINTIALIZED => radio = "off"
         /\ MqttSta(status, topicsSet) \in UNKNOWN .. BUSY
         /\ MqttSta(status, FALSE) \in UNKNOWN .. BUSY
BY DEF DriverTypeOK, WifiSta, MqttSta, UNKNOWN, UNINTIALIZED, IDLE, JOINED, BUSY, DISCONNECTED,
     CONNECTED, ACTIVE

\* The worker stores a configuration.
LEMMA StoreStep == NetInv /\ (StoreWifi \/ StoreMqtt) => NetInv'
<1> SUFFICES ASSUME NetInv, StoreWifi \/ StoreMqtt PROVE NetInv'
  OBVIOUS
<1>1. wifiConfig' \in Object /\ mqttConfig' \in Object
  BY ObjectFacts, ConfigsAssumption DEF StoreWifi, StoreMqtt, NetInv, TypeOK
<1>2. UNCHANGED <<status, handled, radio, clients, topicsSet, present, pc, wifi, mqtt, direct>>
  BY DEF StoreWifi, StoreMqtt, driver
<1> QED
  BY <1>1, <1>2 DEF NetInv, TypeOK, DriverTypeOK, JoinedMeansUp, AskedIfSet, Handle, OffWhenDown

\* An event changes nothing but the driver, and leaves off what is off.
LEMMA DriverEventStep == NetInv /\ DriverEvent => NetInv'
<1> SUFFICES ASSUME NetInv, DriverEvent PROVE NetInv'
  OBVIOUS
<1>1. UNCHANGED <<wifiConfig, mqttConfig, topicsSet, present, pc, wifi, mqtt, direct>>
  BY DEF DriverEvent, store
<1>2. DriverInv' /\ AskedIfSet' /\ (radio = "off" => radio' = "off")
  BY <1>1, EventFacts DEF DriverEvent, NetInv, TypeOK, DriverInv
<1> QED
  BY <1>1, <1>2 DEF NetInv, TypeOK, DriverInv, OffWhenDown

-----------------------------------------------------------------------------
(* The supervisor. *)

\* A step of WiFi that leaves the driver alone but for the station.
LEMMA WifiLeaves ==
  ASSUME NetInv, DriverInv', UNCHANGED clients, wifi' \in Local, OffWhenDown',
         UNCHANGED <<store, topicsSet, present, mqtt, direct>>,
         pc' \in {"wifi_set_down", "wifi_down", "wifi_down_wait", "wifi_bring_up", "wifi_up",
                  "wifi_up_wait", "mqtt_poll"}
  PROVE  NetInv'
BY DEF NetInv, TypeOK, DriverInv, store, AskedIfSet, Handle

\* WiFi's steps, one by one.
LEMMA WifiStep == NetInv /\ Wifi => NetInv'
<1> SUFFICES ASSUME NetInv, Wifi PROVE NetInv'
  OBVIOUS
<1> DEFINE sta == WifiSta(status)
           target == WifiTarget(wifi.cfg.v)
<1>1. /\ wifi \in Local /\ wifiConfig \in Object /\ mqttConfig \in Object
      /\ DriverInv /\ OffWhenDown /\ DriverTypeOK /\ topicsSet \in BOOLEAN
  BY DEF NetInv, TypeOK, DriverInv
<1>2. sta \in UNINTIALIZED .. BUSY /\ (sta = UNINTIALIZED => radio = "off")
  BY <1>1, StaFacts
<1>3. /\ wifi.sta \in UNKNOWN .. BUSY /\ wifi.cfg \in Config
      /\ [wifi EXCEPT !.sta = sta] \in Local
      /\ [wifi EXCEPT !.sta = sta].sta = sta /\ [wifi EXCEPT !.sta = sta].cfg = wifi.cfg
  <2>1. sta \in UNKNOWN .. BUSY
    BY <1>2 DEF UNKNOWN, UNINTIALIZED, BUSY
  <2>2. [wifi EXCEPT !.sta = sta] \in Local
    BY <1>1, <2>1, LocalFacts
  <2> HIDE DEF sta
  <2> QED
    BY <1>1, <2>2 DEF Local
<1>4. WifiTarget("off") = UNINTIALIZED
  BY DEF WifiTarget
<1>5. Idle(wifiConfig) \in Local /\ Idle(wifiConfig).cfg = wifiConfig.prev
  BY <1>1, LocalFacts
<1>6. UNCHANGED driver => DriverInv' /\ UNCHANGED <<clients, radio>>
  BY <1>1 DEF driver, DriverInv, DriverTypeOK, JoinedMeansUp
<1> HIDE DEF sta
<1> USE DEF UNKNOWN, UNINTIALIZED, IDLE, JOINED, BUSY
<1>7. CASE WifiPoll
  <2>1. wifi' \in Local
    BY <1>1, <1>7, LocalFacts DEF WifiPoll
  <2>2. /\ pc' \in {"wifi_bring_up", "mqtt_poll", "wifi_set_down"} /\ UNCHANGED driver
        /\ UNCHANGED <<store, topicsSet, present, mqtt, direct>>
        /\ pc' = "wifi_bring_up" =>
             wifi'.cfg = wifiConfig.prev /\ sta < WifiTarget(wifiConfig.prev.v)
    BY <1>5, <1>7 DEF WifiPoll, WifiTo, sta
  <2>3. OffWhenDown'
    BY <1>2, <1>4, <2>2 DEF OffWhenDown
  <2> QED
    BY <1>6, <2>1, <2>2, <2>3, WifiLeaves
<1>8. CASE WifiRead
  <2>1. wifi' = [wifi EXCEPT !.sta = sta] /\ UNCHANGED driver
        /\ UNCHANGED <<store, topicsSet, present, mqtt, direct>>
        /\ \/ pc = "wifi_set_down" /\ pc' = "wifi_down"
           \/ pc = "wifi_bring_up" /\ pc' = "wifi_up"
    BY <1>8 DEF WifiRead, WifiTo, sta
  <2>2. OffWhenDown'
    BY <1>1, <1>2, <1>3, <1>6, <2>1 DEF OffWhenDown
  <2> QED
    BY <1>3, <1>6, <2>1, <2>2, WifiLeaves
<1>9. CASE WifiDownDone
  <2>1. UNCHANGED <<wifi, driver, store, topicsSet, present, mqtt, direct>> /\ pc = "wifi_down"
        /\ pc' = "wifi_bring_up" /\ (wifi.sta < target \/ wifi.sta = UNINTIALIZED)
    BY <1>9 DEF WifiDownDone, WifiTo, WifiDownTarget
  <2>2. OffWhenDown'
    BY <1>1, <1>3, <1>4, <1>6, <2>1 DEF OffWhenDown
  <2> QED
    BY <1>1, <1>6, <2>1, <2>2, WifiLeaves
<1>10. CASE WifiDownBusy
  <2>1. UNCHANGED <<wifi, driver, store, topicsSet, present, direct>> /\ pc' = "mqtt_set_down"
        /\ mqtt' \in Local
    BY <1>1, <1>10, LocalFacts DEF WifiDownBusy
  <2> QED
    BY <1>1, <1>6, <2>1
    DEF NetInv, TypeOK, DriverInv, store, AskedIfSet, Handle, OffWhenDown
<1>11. CASE WifiDownJoined \/ WifiDownIdle
  <2>1. UNCHANGED <<wifi, store, topicsSet, present, mqtt, direct>> /\ pc' = "wifi_down_wait"
        /\ (QuitCall \/ DeinitCall)
    BY <1>11 DEF WifiDownJoined, WifiDownIdle, WifiTo
  <2>2. DriverInv' /\ UNCHANGED clients
    BY <1>1, <2>1, StationCalls
  <2>3. OffWhenDown'
    BY <2>1 DEF OffWhenDown
  <2> QED
    BY <1>1, <2>1, <2>2, <2>3, WifiLeaves
<1>12. CASE WifiDownWait
  <2>1. UNCHANGED <<driver, store, topicsSet, present, mqtt, direct>>
        /\ \/ wifi' = [wifi EXCEPT !.sta = sta] /\ pc' = "wifi_down"
           \/ wifi' = Idle(wifiConfig) /\ pc' = "mqtt_poll"
    BY <1>12 DEF WifiDownWait, WifiTo, WifiEnd, sta
  <2>2. OffWhenDown'
    <3>1. CASE wifi' = [wifi EXCEPT !.sta = sta] /\ pc' = "wifi_down"
      <4>1. wifi'.sta = sta /\ wifi'.cfg = wifi.cfg
        BY <1>3, <3>1
      <4> QED
        BY <1>2, <1>6, <2>1, <3>1, <4>1 DEF OffWhenDown
    <3>2. CASE pc' = "mqtt_poll"
      BY <3>2 DEF OffWhenDown
    <3> QED
      BY <2>1, <3>1, <3>2
  <2> QED
    BY <1>3, <1>5, <1>6, <2>1, <2>2, WifiLeaves
<1>13. CASE WifiUpInit
  <2>1. UNCHANGED <<wifi, store, topicsSet, present, mqtt, direct>> /\ pc' = "wifi_up_wait"
        /\ InitCall /\ wifi.sta = UNINTIALIZED /\ wifi.sta < target
    BY <1>13 DEF WifiUpInit, WifiTo
  <2>2. DriverInv' /\ UNCHANGED clients
    BY <1>1, <2>1, StationCalls
  <2>3. OffWhenDown'
    BY <1>4, <2>1 DEF OffWhenDown
  <2> QED
    BY <1>1, <2>1, <2>2, <2>3, WifiLeaves
<1>14. CASE WifiUpJoin
  <2>1. /\ UNCHANGED <<store, topicsSet, present, mqtt, direct>>
        /\ JoinCall /\ wifi.sta = IDLE /\ wifi.sta < target
        /\ \/ UNCHANGED wifi /\ pc' = "wifi_up_wait"
           \/ wifi' = Idle(wifiConfig) /\ pc' = "mqtt_poll"
    BY <1>14 DEF WifiUpJoin, WifiTo, WifiEnd
  <2>2. DriverInv' /\ UNCHANGED clients
    BY <1>1, <2>1, StationCalls
  <2>3. OffWhenDown'
    BY <1>4, <2>1 DEF OffWhenDown
  <2> QED
    BY <1>1, <1>5, <2>1, <2>2, <2>3, WifiLeaves
<1>15. CASE WifiUpWait
  <2>1. /\ UNCHANGED <<driver, store, topicsSet, present, mqtt, direct>> /\ pc = "wifi_up_wait"
        /\ \/ wifi' = [wifi EXCEPT !.sta = sta] /\ pc' = "wifi_up"
           \/ wifi' = Idle(wifiConfig) /\ pc' = "mqtt_poll"
    BY <1>15 DEF WifiUpWait, WifiTo, WifiEnd, sta
  <2>2. OffWhenDown'
    <3>1. CASE wifi' = [wifi EXCEPT !.sta = sta] /\ pc' = "wifi_up"
      <4>1. wifi'.sta = sta /\ wifi'.cfg = wifi.cfg
        BY <1>3, <3>1
      <4> QED
        BY <1>1, <1>2, <2>1, <3>1, <4>1 DEF OffWhenDown
    <3>2. CASE pc' = "mqtt_poll"
      BY <3>2 DEF OffWhenDown
    <3> QED
      BY <2>1, <3>1, <3>2
  <2> QED
    BY <1>3, <1>5, <1>6, <2>1, <2>2, WifiLeaves
<1>16. CASE WifiUpDone
  <2>1. wifiConfig' \in Object
    BY <1>1, <1>3, <1>16, ObjectFacts DEF WifiUpDone
  <2>2. UNCHANGED <<driver, mqttConfig, topicsSet, present, mqtt, direct>> /\ pc' = "mqtt_poll"
        /\ wifi' = Idle(wifiConfig')
    BY <1>16 DEF WifiUpDone
  <2>3. wifi' \in Local
    BY <2>1, <2>2, LocalFacts
  <2> QED
    BY <1>6, <2>1, <2>2, <2>3 DEF NetInv, TypeOK, DriverInv, AskedIfSet, Handle, OffWhenDown
<1>17. CASE WifiUpBusy
  <2>1. UNCHANGED <<driver, store, topicsSet, present, mqtt, direct>> /\ pc' = "mqtt_poll"
        /\ wifi' = Idle(wifiConfig)
    BY <1>17 DEF WifiUpBusy, WifiEnd, WifiTo
  <2>2. OffWhenDown'
    BY <2>1 DEF OffWhenDown
  <2> QED
    BY <1>5, <1>6, <2>1, <2>2, WifiLeaves
<1> QED
  BY <1>7, <1>8, <1>9, <1>10, <1>11, <1>12, <1>13, <1>14, <1>15, <1>16, <1>17 DEF Wifi

\* A step of MQTT leaves WiFi's locals alone, and at most returns to its set_down.
LEMMA MqttLeaves ==
  ASSUME NetInv, DriverInv', AskedIfSet', radio' = radio, mqtt' \in Local,
         topicsSet' \in BOOLEAN, present' \in BOOLEAN, direct' \in BOOLEAN,
         UNCHANGED <<store, wifi>>,
         pc' \in {"sleep", "mqtt_set_down", "mqtt_down", "mqtt_down_wait", "mqtt_bring_up",
                  "mqtt_up", "mqtt_up_wait", "mqtt_up_read", "wifi_down_wait"}
  PROVE  NetInv'
BY DEF NetInv, TypeOK, DriverInv, store, OffWhenDown

\* MQTT's steps, one by one.
LEMMA MqttStep == NetInv /\ Mqtt => NetInv'
<1> SUFFICES ASSUME NetInv, Mqtt PROVE NetInv'
  OBVIOUS
<1> DEFINE sta == MqttSta(status, topicsSet)
<1>1. /\ mqtt \in Local /\ wifiConfig \in Object /\ mqttConfig \in Object
      /\ DriverInv /\ DriverTypeOK /\ topicsSet \in BOOLEAN /\ present \in BOOLEAN /\ AskedIfSet
  BY DEF NetInv, TypeOK, DriverInv
<1>2. /\ Idle(mqttConfig) \in Local
      /\ [Idle(mqttConfig) EXCEPT !.cfg = Load(mqttConfig), !.fresh = TRUE] \in Local
  BY <1>1, LocalFacts
<1>3. [mqtt EXCEPT !.sta = sta] \in Local /\ [mqtt EXCEPT !.sta = MqttSta(status, FALSE)] \in Local
      /\ [mqtt EXCEPT !.sta = ACTIVE] \in Local
  <2>1. ACTIVE \in UNKNOWN .. BUSY
    BY DEF ACTIVE, UNKNOWN, BUSY
  <2> QED
    BY <1>1, <2>1, StaFacts, LocalFacts
<1>4. UNCHANGED <<driver, topicsSet>> => DriverInv' /\ AskedIfSet' /\ radio' = radio
  BY <1>1 DEF driver, DriverInv, DriverTypeOK, JoinedMeansUp, AskedIfSet, Handle
<1>5. ASSUME NEW ok \in BOOLEAN, MqttDownReturns(ok)
      PROVE  /\ UNCHANGED <<store, wifi>> /\ mqtt' \in Local
             /\ pc' \in {"wifi_down_wait", "mqtt_bring_up", "sleep"}
  BY <1>1, <1>2, <1>5 DEF MqttDownReturns, MqttTo, MqttGoes, MqttEnd
<1>d. direct' \in BOOLEAN
  <2>1. direct' = direct \/ \E v : direct' = Directly(v)
    BY DEF Mqtt, MqttPoll, MqttRead, MqttDownDone, MqttDownActive, MqttDownConnected,
       MqttDownWait, MqttUpConnect, MqttUpWait, MqttUpSubscribe, MqttUpRead, MqttUpDone,
       MqttDownReturns, MqttEnd, MqttTo
  <2>2. direct \in BOOLEAN /\ \A v : Directly(v) \in BOOLEAN
    BY Zenon DEF NetInv, TypeOK, Directly
  <2> QED
    BY <2>1, <2>2, Zenon
<1> HIDE DEF sta
<1>6. CASE MqttPoll
  <2>1. UNCHANGED <<driver, topicsSet, present, store, wifi>> /\ mqtt' \in Local
        /\ pc' \in {"mqtt_bring_up", "sleep", "mqtt_set_down"}
    BY <1>2, <1>6 DEF MqttPoll, MqttTo, MqttGoes
  <2> QED
    BY <1>1, <1>4, <2>1, <1>d, MqttLeaves
<1>7. CASE MqttRead
  <2>1. UNCHANGED <<driver, topicsSet, present, store, wifi>> /\ mqtt' \in Local
        /\ pc' \in {"sleep", "mqtt_down", "mqtt_up"}
    BY <1>2, <1>3, <1>7 DEF MqttRead, MqttTo, MqttGoes, MqttEnd, sta
  <2> QED
    BY <1>1, <1>4, <2>1, <1>d, MqttLeaves
<1>8. CASE MqttDownDone
  <2>1. UNCHANGED <<driver, topicsSet, present>> /\ MqttDownReturns(TRUE)
    BY <1>8 DEF MqttDownDone
  <2> QED
    BY <1>1, <1>4, <1>5, <2>1, <1>d, MqttLeaves
<1>9. CASE MqttDownActive
  <2>1. /\ UNCHANGED <<present, store, wifi>> /\ mqtt' \in Local /\ pc' = "mqtt_down"
        /\ UnsubscribeCall /\ topicsSet' = FALSE
    BY <1>3, <1>9 DEF MqttDownActive, MqttTo, MqttGoes
  <2>2. DriverInv' /\ radio' = radio
    BY <1>1, <2>1, RequestFacts DEF UnsubscribeCall
  <2>3. topicsSet' \in BOOLEAN /\ AskedIfSet'
    BY <2>1, Zenon DEF AskedIfSet
  <2> QED
    BY <1>1, <2>1, <2>2, <2>3, <1>d, MqttLeaves
<1>10. CASE MqttDownConnected
  <2>1. DisconnectCall /\ UNCHANGED topicsSet
        /\ \/ present' = FALSE /\ MqttTo("mqtt_down_wait") /\ UNCHANGED mqtt
           \/ MqttDownReturns(FALSE) /\ UNCHANGED present
    BY <1>10 DEF MqttDownConnected
  <2>2. DriverInv' /\ radio' = radio /\ AskedIfSet'
    BY <1>1, <2>1, DisconnectFacts
  <2>3. present' \in BOOLEAN
    BY <1>1, <2>1, Zenon
  <2>4. /\ UNCHANGED <<store, wifi>> /\ mqtt' \in Local
        /\ pc' \in {"wifi_down_wait", "mqtt_bring_up", "sleep", "mqtt_down_wait"}
    BY <1>1, <1>5, <2>1 DEF MqttTo, MqttGoes
  <2> QED
    BY <1>1, <2>1, <2>2, <2>3, <2>4, <1>d, MqttLeaves
<1>11. CASE MqttDownWait
  <2>1. UNCHANGED <<driver, topicsSet, present>>
        /\ MqttDownReturns(MqttSta(status, topicsSet) = DISCONNECTED)
    BY <1>11 DEF MqttDownWait
  <2>2. (MqttSta(status, topicsSet) = DISCONNECTED) \in BOOLEAN
    OBVIOUS
  <2> QED
    BY <1>1, <1>4, <1>5, <2>1, <2>2, <1>d, MqttLeaves
<1>12. CASE MqttUpConnect
  <2>1. /\ topicsSet' = FALSE /\ ConnectCall(mqtt.cfg.v) /\ DISCONNECTED < MqttTarget(mqtt.cfg.v)
        /\ \/ present' = TRUE /\ MqttTo("mqtt_up_wait") /\ UNCHANGED mqtt
           \/ MqttEnd /\ UNCHANGED present
    BY <1>12 DEF MqttUpConnect
  <2>2. mqtt.cfg.v \in Servers
    BY <2>1 DEF MqttTarget, DISCONNECTED, UNKNOWN
  <2>3. DriverInv' /\ radio' = radio
    BY <1>1, <2>1, <2>2, ConnectFacts
  <2>4. topicsSet' \in BOOLEAN /\ AskedIfSet' /\ present' \in BOOLEAN
    BY <1>1, <2>1, Zenon DEF AskedIfSet
  <2>5. UNCHANGED <<store, wifi>> /\ mqtt' \in Local /\ pc' \in {"mqtt_up_wait", "sleep"}
    BY <1>1, <1>2, <2>1 DEF MqttTo, MqttGoes, MqttEnd
  <2> QED
    BY <2>3, <2>4, <2>5, <1>d, MqttLeaves
<1>13. CASE MqttUpWait
  <2>1. UNCHANGED <<driver, topicsSet, present, store, wifi>> /\ mqtt' \in Local
        /\ pc' \in {"sleep", "mqtt_up"}
    BY <1>2, <1>3, <1>13 DEF MqttUpWait, MqttTo, MqttGoes, MqttEnd, sta
  <2> QED
    BY <1>1, <1>4, <2>1, <1>d, MqttLeaves
<1>14. CASE MqttUpSubscribe
  <2>1. /\ SubscribeCall /\ (topicsSet' <=> topicsSet \/ SubscribeOk) /\ UNCHANGED present
        /\ \/ MqttTo("mqtt_up_read") /\ UNCHANGED mqtt
           \/ MqttEnd
    BY <1>14 DEF MqttUpSubscribe
  <2>2. topicsSet' \in BOOLEAN
    BY <1>14, Zenon DEF MqttUpSubscribe
  <2>3. /\ DriverInv' /\ radio' = radio
        /\ SubscribeOk => Handle' # 0 /\ clients'[Handle'].subscribed = "yes"
        /\ ~SubscribeOk => UNCHANGED clients
    BY <1>1, <2>1, RequestFacts DEF SubscribeCall
  <2>4. AskedIfSet'
    BY <1>1, <2>1, <2>3 DEF AskedIfSet, Handle
  <2>5. UNCHANGED <<store, wifi>> /\ mqtt' \in Local /\ pc' \in {"mqtt_up_read", "sleep"}
    BY <1>1, <1>2, <2>1 DEF MqttTo, MqttGoes, MqttEnd
  <2> QED
    BY <1>1, <2>1, <2>2, <2>3, <2>4, <2>5, <1>d, MqttLeaves
<1>15. CASE MqttUpRead
  <2>1. UNCHANGED <<driver, topicsSet, present, store, wifi>> /\ mqtt' \in Local
        /\ pc' \in {"sleep", "mqtt_up"}
    BY <1>2, <1>3, <1>15 DEF MqttUpRead, MqttTo, MqttGoes, MqttEnd
  <2> QED
    BY <1>1, <1>4, <2>1, <1>d, MqttLeaves
<1>16. CASE MqttUpDone
  <2>1. mqtt.cfg \in Config
    BY <1>1 DEF Local
  <2>2. mqttConfig' \in Object
    BY <1>1, <1>16, <2>1, ObjectFacts DEF MqttUpDone
  <2>3. UNCHANGED <<driver, wifiConfig, topicsSet, present, wifi>> /\ pc' = "sleep"
        /\ mqtt' = Idle(mqttConfig')
    BY <1>16 DEF MqttUpDone
  <2>4. mqtt' \in Local
    BY <2>2, <2>3, LocalFacts
  <2> QED
    BY <1>4, <1>d, <2>2, <2>3, <2>4 DEF NetInv, TypeOK, DriverInv, OffWhenDown
<1> QED
  BY <1>6, <1>7, <1>8, <1>9, <1>10, <1>11, <1>12, <1>13, <1>14, <1>15, <1>16 DEF Mqtt

-----------------------------------------------------------------------------
(* The theorems. *)

\* NetInv holds whatever is lost, refused or late, and however often the configurations
\* change.
THEOREM NetInductive == Spec => []NetInv
<1>1. Init => NetInv
  <2> SUFFICES ASSUME Init PROVE NetInv
    OBVIOUS
  <2>1. wifiConfig \in Object /\ mqttConfig \in Object
    BY DEF Init, Constructed, Object, Config
  <2>2. Idle(wifiConfig) \in Local /\ Idle(mqttConfig) \in Local
    BY <2>1, LocalFacts
  <2>3. DriverTypeOK /\ JoinedMeansUp
    <3>1. clients \in Seq(Client) /\ Len(clients) <= MaxClients
      BY EmptySeq, MaxClientsAssumption DEF Init, DriverInit
    <3>2. handled \in BOOLEAN
      BY Zenon DEF Init, DriverInit
    <3> QED
      BY <3>1, <3>2 DEF Init, DriverInit, DriverTypeOK, JoinedMeansUp
  <2>4. AskedIfSet /\ OffWhenDown
    BY DEF Init, AskedIfSet, OffWhenDown
  <2>5. topicsSet \in BOOLEAN /\ present \in BOOLEAN /\ direct \in BOOLEAN
    BY Zenon DEF Init
  <2> QED
    BY <2>1, <2>2, <2>3, <2>4, <2>5 DEF Init, NetInv, TypeOK
<1>2. NetInv /\ [Next]_vars => NetInv'
  <2>1. ASSUME NetInv, UNCHANGED vars PROVE NetInv'
    BY <2>1 DEF vars, driver, store, NetInv, TypeOK, DriverTypeOK, JoinedMeansUp, AskedIfSet,
         Handle, OffWhenDown
  <2> QED
    BY <2>1, StoreStep, WifiStep, MqttStep, DriverEventStep DEF Next, Supervisor
<1> QED
  BY <1>1, <1>2, PTL DEF Spec

\* What is reported was done, under every fault of the access point, the servers and the
\* clocks: Wi-Fi disabled is counted as applied only with the station off; a session is
\* called active only if its client has asked for the topic; and JOINED, while the events
\* of the station are listened to and there is no client, means that it is up.
THEOREM ReportedRight == Spec => ReportedMeansDone
<1>1. NetInv => ActiveHasSubscribed /\ JoinedMeansUp
  BY DEF NetInv, AskedIfSet, ActiveHasSubscribed, MqttSta, DISCONNECTED, CONNECTED, ACTIVE
<1>2. NetInv /\ [Next]_vars => OffMeansOff
  <2> SUFFICES ASSUME NetInv, [Next]_vars, wifiConfig'.prev # wifiConfig.prev,
                      wifiConfig'.prev.v = "off"
               PROVE  radio = "off"
    BY DEF OffMeansOff
  <2>1. WifiUpDone
    <3>1. ~UNCHANGED wifiConfig
      OBVIOUS
    <3>2. ~StoreWifi
      BY DEF StoreWifi, Stored, NetInv, TypeOK, Object
    <3>3. ~StoreMqtt /\ ~DriverEvent /\ ~UNCHANGED vars
      BY <3>1 DEF StoreMqtt, DriverEvent, vars, store
    <3>4. ~Mqtt
      BY <3>1 DEF Mqtt, MqttPoll, MqttRead, MqttDownDone, MqttDownActive, MqttDownConnected,
           MqttDownWait, MqttUpConnect, MqttUpWait, MqttUpSubscribe, MqttUpRead, MqttUpDone,
           MqttDownReturns, MqttEnd, MqttTo, MqttGoes, store
    <3>5. Wifi => WifiUpDone
      BY <3>1 DEF Wifi, WifiPoll, WifiRead, WifiDownDone, WifiDownBusy, WifiDownJoined,
           WifiDownIdle, WifiDownWait, WifiUpInit, WifiUpJoin, WifiUpWait, WifiUpBusy,
           WifiEnd, WifiTo, store
    <3> QED
      BY <3>2, <3>3, <3>4, <3>5 DEF Next, Supervisor
  <2>2. wifiConfig'.prev = wifi.cfg
    BY <2>1 DEF WifiUpDone, Synchorized, PrevAfter
  <2> QED
    BY <2>1, <2>2 DEF WifiUpDone, NetInv, OffWhenDown
<1> QED
  BY <1>1, <1>2, NetInductive, PTL DEF Spec, ReportedMeansDone

-----------------------------------------------------------------------------
(* While nothing goes wrong. *)

WifiPcs == {"wifi_set_down", "wifi_down", "wifi_down_wait", "wifi_bring_up", "wifi_up",
            "wifi_up_wait"}

MqttPcs == {"mqtt_set_down", "mqtt_down", "mqtt_down_wait", "mqtt_bring_up", "mqtt_up",
            "mqtt_up_wait", "mqtt_up_read"}

SessionInv == SessionKnown /\ MqttUnderWay /\ SessionConfigured

WifiInv == WifiOnce /\ WifiRises

\* A step that leaves the sessions and MQTT's configuration alone.
LEMMA MqttLeft ==
  ASSUME SessionInv, pc \notin MqttPcs, pc' \notin MqttPcs,
         UNCHANGED <<clients, topicsSet, present, mqtt, mqttConfig, direct>>,
         status' = "CONNECTED" <=> status = "CONNECTED"
  PROVE  SessionInv'
<1>1. Session' = Session /\ Handle' = Handle
  BY DEF Session, Handle
<1>2. SessionKnown'
  BY <1>1 DEF SessionInv, SessionKnown, MqttPcs
<1>3. MqttUnderWay'
  BY DEF SessionInv, MqttUnderWay, MqttPcs
<1>4. SessionConfigured'
  BY <1>1 DEF SessionInv, SessionConfigured, MqttWorks, MqttPcs
<1> QED
  BY <1>2, <1>3, <1>4 DEF SessionInv

\* Once Wi-Fi is up, a step that leaves the station alone.
LEMMA WifiLeft ==
  ASSUME WifiOnce, wifiConfig.prev.v = "ap", UNCHANGED <<wifiConfig, radio>>,
         status' \in {"JOINED", "CONNECTED"}, pc' \notin WifiPcs
  PROVE  WifiInv'
BY DEF WifiInv, WifiOnce, WifiRises, WifiPcs

\* One configuration is stored for Wi-Fi, and it waits for the supervisor.
LEMMA StoreWifiCalm == Calm /\ CalmInv /\ StoreWifi => WifiInv' /\ SessionInv'
<1> SUFFICES ASSUME Calm, CalmInv, StoreWifi PROVE WifiInv' /\ SessionInv'
  OBVIOUS
<1>0. UNCHANGED <<status, handled, radio, clients, mqttConfig, topicsSet, present, pc, wifi,
                  mqtt, direct>>
  BY DEF StoreWifi, driver
<1>1. wifiConfig = [prev |-> [n |-> 0, v |-> "boot"], next |-> NoNext]
  <2>1. wifiConfig \in Object
    BY DEF CalmInv, NetInv, TypeOK
  <2>2. Load(wifiConfig).n < 1
    BY <2>1, ObjectFacts, ConfigsAssumption DEF StoreWifi, Calm, Config
  <2>3. wifiConfig.next = NoNext /\ wifiConfig.prev = [n |-> 0, v |-> "boot"]
    BY <2>2, NoNextAssumption DEF CalmInv, WifiOnce, Load, Pending
  <2> QED
    BY <2>1, <2>3 DEF Object
<1>2. wifiConfig' = [prev |-> [n |-> 0, v |-> "boot"], next |-> [n |-> 1, v |-> "ap"]]
  <2>1. PICK v \in WifiConfigs : wifiConfig' = Stored(wifiConfig, v)
    BY DEF StoreWifi
  <2>2. v = "ap" /\ Load(wifiConfig) = [n |-> 0, v |-> "boot"]
    BY <1>1 DEF Calm, Load, Pending
  <2> QED
    BY <1>1, <2>1, <2>2 DEF Stored
<1>3. WifiOnce'
  BY <1>0, <1>1, <1>2 DEF CalmInv, WifiOnce
<1>4. WifiRises'
  <2>1. pc \notin WifiPcs
    BY <1>1 DEF CalmInv, WifiRises, Pending, WifiPcs
  <2> QED
    BY <1>0, <2>1 DEF WifiRises, WifiPcs
<1>5. SessionInv'
  <2>1. Session' = Session /\ Handle' = Handle
    BY <1>0 DEF Session, Handle
  <2> QED
    BY <1>0, <2>1 DEF CalmInv, SessionInv, SessionKnown, MqttUnderWay, SessionConfigured,
         MqttWorks
<1> QED
  BY <1>3, <1>4, <1>5 DEF WifiInv

\* A configuration stored for MQTT is newer than what the supervisor works on.
LEMMA StoreMqttCalm == Calm /\ CalmInv /\ StoreMqtt => WifiInv' /\ SessionInv'
<1> SUFFICES ASSUME Calm, CalmInv, StoreMqtt PROVE WifiInv' /\ SessionInv'
  OBVIOUS
<1>0. UNCHANGED <<status, handled, radio, clients, wifiConfig, topicsSet, present, pc, wifi,
                  mqtt, direct>>
  BY DEF StoreMqtt, driver
<1>1. mqttConfig \in Object /\ mqttConfig.prev \in Config /\ Load(mqttConfig) \in Config
  BY ObjectFacts DEF CalmInv, NetInv, TypeOK
<1>2. PICK v \in MqttConfigs : mqttConfig' = Stored(mqttConfig, v)
  BY DEF StoreMqtt
<1>3. /\ mqttConfig'.prev = mqttConfig.prev
      /\ mqttConfig'.next = [n |-> Load(mqttConfig).n + 1, v |-> v]
  BY <1>1, <1>2 DEF Stored, Object
<1>4. [n |-> Load(mqttConfig).n + 1, v |-> v] \in Config
  BY <1>1, ConfigsAssumption DEF Config
<1>5. /\ Pending(mqttConfig') /\ mqttConfig'.next.v \in MqttConfigs
      /\ mqttConfig'.next.n = Load(mqttConfig).n + 1
  BY <1>3, <1>4, NoNextAssumption DEF Pending
<1>6. Load(mqttConfig).n >= mqttConfig.prev.n
  BY <1>1 DEF Load, CalmInv, MqttUnderWay, Config
<1>7. mqttConfig'.next.n > mqttConfig'.prev.n
  BY <1>1, <1>3, <1>5, <1>6 DEF Config
<1>8. Session' = Session /\ Handle' = Handle
  BY <1>0 DEF Session, Handle
<1>9. SessionKnown'
  BY <1>0, <1>8 DEF CalmInv, SessionKnown
<1>10. MqttUnderWay'
  <2>1. ASSUME pc \in MqttPcs, mqtt.fresh PROVE mqttConfig'.next.n >= mqtt.cfg.n
    <3>1. Pending(mqttConfig) /\ mqttConfig.next.n >= mqtt.cfg.n
      BY <2>1 DEF CalmInv, MqttUnderWay, MqttPcs
    <3>2. mqtt.cfg.n \in Nat
      BY DEF CalmInv, NetInv, TypeOK, Local, Config
    <3> QED
      BY <1>1, <1>5, <3>1, <3>2 DEF Load, Config
  <2>2. pc \in MqttPcs => mqtt'.fresh = mqtt.fresh
    BY <1>0
  <2> QED
    BY <1>0, <1>3, <1>5, <1>7, <1>8, <2>1 DEF CalmInv, MqttUnderWay, MqttPcs
<1>11. SessionConfigured'
  <2>1. ~IsSynchorized(mqttConfig')
    BY <1>1, <1>3, <1>4, <1>5, <1>7 DEF IsSynchorized, Config
  <2> QED
    BY <1>0, <1>8, <2>1 DEF CalmInv, SessionConfigured, MqttWorks
<1>12. WifiInv'
  BY <1>0 DEF CalmInv, WifiInv, WifiOnce, WifiRises
<1> QED
  BY <1>9, <1>10, <1>11, <1>12 DEF SessionInv

\* Wi-Fi is brought up once, and then left alone.
LEMMA WifiCalm == Calm /\ CalmInv /\ Wifi => WifiInv' /\ SessionInv'
<1> SUFFICES ASSUME Calm, CalmInv, Wifi PROVE WifiInv' /\ SessionInv'
  OBVIOUS
<1> USE DEF UNKNOWN, UNINTIALIZED, IDLE, JOINED, BUSY
<1>0. /\ status \in {"LOST", "IDLE", "JOINED", "CONNECTED"} /\ wifi \in Local
      /\ wifiConfig \in Object /\ WifiOnce /\ WifiRises /\ SessionInv
  BY DEF CalmInv, NetInv, TypeOK, DriverTypeOK, SessionInv
<1>1. CASE wifiConfig.prev.v = "ap"
  <2>1. pc \notin WifiPcs
    BY <1>1 DEF CalmInv, WifiRises, WifiPcs
  <2>2. WifiPoll
    BY <2>1 DEF Wifi, WifiPcs, WifiRead, WifiDownDone, WifiDownBusy, WifiDownJoined,
         WifiDownIdle, WifiDownWait, WifiUpInit, WifiUpJoin, WifiUpWait, WifiUpDone, WifiUpBusy
  <2>3. /\ pc = "sleep" /\ pc' = "mqtt_poll"
        /\ UNCHANGED <<status, radio, clients, wifiConfig, mqttConfig, topicsSet, present, mqtt,
                       direct>>
    BY <1>0, <1>1, <2>2 DEF WifiPoll, WifiOnce, IsSynchorized, WifiSta, WifiTarget, WifiTo, store,
         driver
  <2>4. WifiInv'
    BY <1>0, <1>1, <2>3, WifiLeft DEF WifiOnce, WifiPcs
  <2>5. SessionInv'
    BY <1>0, <2>3, MqttLeft DEF MqttPcs
  <2> QED
    BY <2>4, <2>5
<1>2. CASE wifiConfig.prev.v = "boot"
  <2>0. /\ wifiConfig.prev = [n |-> 0, v |-> "boot"]
        /\ Pending(wifiConfig) => wifiConfig.next = [n |-> 1, v |-> "ap"]
        /\ status # "CONNECTED" /\ clients = <<>>
    BY <1>0, <1>2 DEF WifiOnce, Pending
  <2> DEFINE Step == /\ UNCHANGED <<clients, mqttConfig, topicsSet, present, mqtt, direct>>
                     /\ pc \notin MqttPcs /\ pc' \notin MqttPcs /\ status' # "CONNECTED"
                     /\ WifiInv'
             Rising == wifi.cfg = wifiConfig.next /\ wifi.fresh /\ Pending(wifiConfig)
             Goes(next) == /\ pc' = next
                           /\ UNCHANGED <<clients, store, topicsSet, present, mqtt, direct>>
  <2>a. ASSUME pc \in WifiPcs PROVE Rising /\ WifiTarget(wifi.cfg.v) = JOINED
    BY <1>0, <2>0, <2>a DEF WifiRises, WifiPcs, WifiTarget
  <2>b. ASSUME NEW sta \in UNKNOWN .. BUSY, wifi' = [wifi EXCEPT !.sta = sta]
        PROVE  wifi'.sta = sta /\ wifi'.cfg = wifi.cfg /\ wifi'.fresh = wifi.fresh
    BY <1>0, <2>b DEF Local
  <2>c. WifiSta(status) \in UNKNOWN .. BUSY
    BY <1>0 DEF WifiSta
  <2>d. ASSUME NEW next \in WifiPcs, Goes(next), status' # "CONNECTED", WifiRises'
        PROVE  WifiInv'
    BY <1>0, <1>2, <2>d DEF WifiInv, WifiOnce, WifiPcs, store
  <2> HIDE DEF Rising
  <2>1. ASSUME WifiPoll PROVE Step
    <3>1. status = "LOST" /\ pc = "sleep"
      BY <1>0, <1>2, <2>1 DEF WifiPoll, WifiOnce
    <3>2. UNCHANGED <<driver, store, topicsSet, present, mqtt, direct>>
      BY <2>1 DEF WifiPoll, WifiTo
    <3>3. CASE Pending(wifiConfig)
      <4>1. ~IsSynchorized(wifiConfig)
        BY <2>0, <3>3 DEF IsSynchorized
      <4>2. /\ pc' = "wifi_set_down"
            /\ wifi' = [Idle(wifiConfig) EXCEPT !.cfg = Load(wifiConfig), !.fresh = TRUE]
        BY <2>1, <4>1 DEF WifiPoll, WifiTo
      <4>3. wifi'.cfg = wifiConfig.next /\ wifi'.fresh
        BY <3>3, <4>2 DEF Idle, Load
      <4> QED
        BY <1>0, <1>2, <2>0, <3>1, <3>2, <3>3, <4>2, <4>3
        DEF WifiInv, WifiOnce, WifiRises, MqttPcs, driver, store
    <3>4. CASE ~Pending(wifiConfig)
      <4>1. pc' = "mqtt_poll"
        BY <2>0, <2>1, <2>c, <3>4 DEF WifiPoll, WifiTo, IsSynchorized, WifiTarget
      <4> QED
        BY <1>0, <1>2, <2>0, <3>1, <3>2, <4>1
        DEF WifiInv, WifiOnce, WifiRises, MqttPcs, driver, store
    <3> QED
      BY <3>3, <3>4
  <2>2. ASSUME WifiRead PROVE Step
    <3>1. /\ pc \in WifiPcs /\ status = "LOST" /\ UNCHANGED driver
          /\ wifi' = [wifi EXCEPT !.sta = WifiSta(status)]
          /\ \/ Goes("wifi_down") \/ Goes("wifi_up")
      BY <1>0, <2>2 DEF WifiRead, WifiRises, WifiTo, WifiPcs, driver
    <3>2. Rising /\ wifi'.sta = UNINTIALIZED /\ wifi'.cfg = wifi.cfg /\ wifi'.fresh = wifi.fresh
      BY <2>a, <2>b, <2>c, <3>1 DEF WifiSta
    <3>3. WifiRises'
      BY <1>2, <3>1, <3>2 DEF WifiRises, WifiSta, Rising, driver, store
    <3> QED
      BY <2>d, <3>1, <3>3 DEF MqttPcs, WifiPcs, driver, store
  <2>3. ASSUME WifiDownDone PROVE Step
    <3>1. pc \in WifiPcs /\ status = "LOST" /\ UNCHANGED <<driver, wifi>> /\ Goes("wifi_bring_up")
      BY <1>0, <2>3 DEF WifiDownDone, WifiRises, WifiTo, WifiPcs, driver
    <3>2. WifiRises'
      BY <1>2, <2>a, <3>1 DEF WifiRises, Rising, driver, store
    <3> QED
      BY <2>d, <3>1, <3>2 DEF MqttPcs, WifiPcs, driver, store
  <2>4. ~(WifiDownBusy \/ WifiDownJoined \/ WifiDownIdle \/ WifiDownWait)
    BY <1>0 DEF WifiDownBusy, WifiDownJoined, WifiDownIdle, WifiDownWait, WifiRises
  <2>5. ASSUME WifiUpInit PROVE Step
    <3>1. pc = "wifi_up" /\ wifi.sta = WifiSta(status) /\ wifi.sta = UNINTIALIZED
      BY <1>0, <2>5 DEF WifiUpInit, WifiRises
    <3>2. status = "LOST"
      BY <1>0, <3>1 DEF WifiSta
    <3>3. status' = "IDLE" /\ radio' = "down" /\ UNCHANGED wifi /\ Goes("wifi_up_wait")
      BY <2>5, <3>2 DEF WifiUpInit, InitCall, WifiTo
    <3>4. WifiRises'
      BY <1>2, <2>a, <3>1, <3>3 DEF WifiRises, WifiPcs, Rising, store
    <3> QED
      BY <2>d, <3>1, <3>3, <3>4 DEF MqttPcs, WifiPcs, store
  <2>6. ASSUME WifiUpJoin PROVE Step
    <3>1. pc = "wifi_up" /\ wifi.sta = WifiSta(status) /\ wifi.sta = IDLE
      BY <1>0, <2>6 DEF WifiUpJoin, WifiRises
    <3>2. status = "IDLE" /\ radio = "down"
      BY <1>0, <3>1 DEF WifiSta, WifiRises
    <3>3. status' = "IDLE" /\ radio' = "joining" /\ UNCHANGED wifi /\ Goes("wifi_up_wait")
      BY <2>6, <3>2 DEF WifiUpJoin, JoinCall, JoinOk, WifiTo
    <3>4. WifiRises'
      BY <1>2, <2>a, <3>1, <3>3 DEF WifiRises, WifiPcs, Rising, store
    <3> QED
      BY <2>d, <3>1, <3>3, <3>4 DEF MqttPcs, WifiPcs, store
  <2>7. ASSUME WifiUpWait PROVE Step
    <3>1. pc = "wifi_up_wait" /\ UNCHANGED driver /\ WifiSta(status) # wifi.sta
      BY <2>7 DEF WifiUpWait, Calm
    <3>2. WifiSta(status) > wifi.sta
          /\ \/ status = "IDLE" /\ radio = "down"
             \/ status = "JOINED" /\ radio = "up"
      <4>1. WifiSta("IDLE") = IDLE /\ WifiSta("JOINED") = JOINED
        BY DEF WifiSta
      <4>2. \/ wifi.sta = UNINTIALIZED /\ status = "IDLE" /\ radio = "down"
            \/ wifi.sta = IDLE /\ radio = "joining" /\ status = "IDLE"
            \/ wifi.sta = IDLE /\ radio = "up" /\ status = "JOINED"
        BY <1>0, <3>1 DEF WifiRises
      <4> QED
        BY <3>1, <4>1, <4>2
    <3>3. wifi' = [wifi EXCEPT !.sta = WifiSta(status)] /\ Goes("wifi_up")
      BY <2>7, <3>1, <3>2 DEF WifiUpWait, WifiTo, driver
    <3>4. wifi'.sta = WifiSta(status) /\ wifi'.cfg = wifi.cfg /\ wifi'.fresh = wifi.fresh
      BY <2>b, <2>c, <3>3
    <3>5. WifiRises'
      BY <1>2, <2>a, <3>1, <3>2, <3>3, <3>4 DEF WifiRises, WifiPcs, Rising, driver, store
    <3> QED
      BY <2>d, <3>1, <3>2, <3>3, <3>5 DEF MqttPcs, WifiPcs, driver, store
  <2>8. ASSUME WifiUpDone PROVE Step
    <3>1. pc = "wifi_up" /\ wifi.sta = WifiSta(status) /\ UNCHANGED driver /\ Rising
      BY <1>0, <2>8, <2>a DEF WifiUpDone, WifiRises, WifiPcs
    <3>2. status = "JOINED" /\ radio = "up"
      BY <1>0, <2>0, <2>8, <2>a, <3>1 DEF WifiUpDone, WifiPcs, WifiSta, WifiRises
    <3>3. wifiConfig' = Synchorized(wifiConfig, wifi.cfg) /\ pc' = "mqtt_poll"
          /\ UNCHANGED <<clients, mqttConfig, topicsSet, present, mqtt, direct>>
      BY <2>8, <3>1 DEF WifiUpDone, Rising, driver
    <3>4. wifiConfig' = [prev |-> [n |-> 1, v |-> "ap"], next |-> NoNext]
      BY <2>0, <3>1, <3>3 DEF Rising, Synchorized, PrevAfter
    <3>5. WifiInv'
      BY <3>1, <3>2, <3>3, <3>4 DEF WifiInv, WifiOnce, WifiRises, Pending, driver
    <3> QED
      BY <3>1, <3>2, <3>3, <3>5 DEF MqttPcs, driver
  <2>9. ~WifiUpBusy
    BY <1>0, <2>0 DEF WifiUpBusy, WifiRises, WifiSta
  <2>10. Step
    BY <2>1, <2>2, <2>3, <2>4, <2>5, <2>6, <2>7, <2>8, <2>9 DEF Wifi
  <2> QED
    BY <1>0, <2>0, <2>10, MqttLeft
<1> QED
  BY <1>0, <1>1, <1>2 DEF WifiOnce

\* What an event of the station does: at most, Wi-Fi comes up.
LEMMA StationEventCalm ==
  ASSUME Calm, CalmInv, DriverEvent, GotIp \/ JoinFails \/ SignalLost
  PROVE  WifiInv' /\ SessionInv'
<1> USE DEF UNINTIALIZED, IDLE
<1>1. GotIp /\ UNCHANGED <<wifiConfig, mqttConfig, topicsSet, present, pc, wifi, mqtt, direct>>
  BY DEF Calm, JoinFails, SignalLost, DriverEvent, store
<1>2. /\ radio = "joining" /\ radio' = "up" /\ status' = "JOINED" /\ UNCHANGED clients
      /\ status # "LOST" /\ wifi \in Local
  BY <1>1 DEF GotIp, CalmInv, NetInv, TypeOK, DriverTypeOK
<1>3. /\ wifiConfig.prev.v = "boot" /\ status # "CONNECTED"
      /\ pc \in WifiPcs \ {"wifi_set_down", "wifi_down", "wifi_down_wait", "wifi_bring_up"}
  BY <1>2 DEF CalmInv, NetInv, TypeOK, WifiOnce, WifiRises, WifiPcs
<1>4. pc = "wifi_up_wait" /\ wifi.sta = IDLE /\ status = "IDLE"
  BY <1>2, <1>3 DEF CalmInv, NetInv, TypeOK, DriverTypeOK, WifiRises, WifiPcs
<1>5. WifiInv'
  BY <1>1, <1>2, <1>3, <1>4 DEF CalmInv, WifiInv, WifiOnce, WifiRises
<1>6. SessionInv'
  BY <1>1, <1>2, <1>4, MqttLeft DEF CalmInv, SessionInv, MqttPcs
<1> QED
  BY <1>5, <1>6

\* The client in hand, and those that have stopped: one change leaves the others stopped.
LEMMA HandChanged ==
  ASSUME CalmInv, Handle # 0, NEW c \in Client, c.server = clients[Handle].server,
         clients' = [clients EXCEPT ![Handle] = c]
  PROVE  /\ Handle' = Handle /\ Session' = c.session /\ clients'[Handle'] = c
         /\ clients'[Handle'].server = clients[Handle].server
         /\ clients \in Seq(Client) /\ Handle \in DOMAIN clients
         /\ Session = clients[Handle].session
         /\ \A i \in DOMAIN clients' : i # Handle' => ~Alive(clients'[i])
         /\ \A i \in DOMAIN clients' : clients'[i].server \in MqttConfigs
<1>1. clients \in Seq(Client) /\ Handle \in DOMAIN clients
  BY DEF CalmInv, NetInv, TypeOK, DriverTypeOK, Handle
<1>2. /\ Len(clients') = Len(clients) /\ DOMAIN clients' = DOMAIN clients
      /\ clients'[Handle] = c /\ \A j \in DOMAIN clients \ {Handle} : clients'[j] = clients[j]
  BY <1>1, ClientChanged
<1>3. Handle' = Handle
  BY <1>2 DEF Handle
<1>4. \A i \in DOMAIN clients :
        (i # Handle => ~Alive(clients[i])) /\ clients[i].server \in MqttConfigs
  BY DEF CalmInv, SessionKnown
<1>5. Session' = c.session /\ Session = clients[Handle].session
  BY <1>2, <1>3 DEF Session
<1> QED
  BY <1>1, <1>2, <1>3, <1>4, <1>5

\* An event of a client is one of the client in hand, and the supervisor waits for it.
LEMMA ClientEventCalm ==
  ASSUME Calm, CalmInv, DriverEvent, ClientEvent
  PROVE  WifiInv' /\ SessionInv'
<1>1. UNCHANGED <<wifiConfig, mqttConfig, topicsSet, present, pc, wifi, mqtt, direct>>
  BY DEF DriverEvent, store
<1>2. PICK i \in DOMAIN clients :
        ClientConnected(i) \/ ClientRefused(i) \/ ClientLost(i) \/ ClientStopped(i)
  BY DEF ClientEvent
<1>3. /\ clients \in Seq(Client) /\ topicsSet \in BOOLEAN
      /\ mqttConfig \in Object /\ mqtt \in Local
  BY DEF CalmInv, NetInv, TypeOK, DriverTypeOK
<1>4. wifiConfig.prev.v = "ap" /\ radio = "up"
  BY <1>2, <1>3 DEF CalmInv, WifiOnce
<1>5. clients[i] \in Client /\ i = Handle /\ i # 0
  <2>1. Alive(clients[i])
    BY <1>2 DEF ClientConnected, ClientRefused, ClientLost, ClientStopped, Alive
  <2> QED
    BY <1>3, <2>1 DEF CalmInv, SessionKnown
<1>6. Session = clients[Handle].session
  BY <1>5 DEF Session
<1> DEFINE C(session) == [clients[Handle] EXCEPT !.session = session,
              !.subscribed = IF session # "connected" /\ @ = "yes" THEN "lost" ELSE @]
<1>7. ASSUME NEW session \in {"connected", "stopped"}, NEW sta, Becomes(i, session, sta)
      PROVE  /\ clients' = [clients EXCEPT ![Handle] = C(session)] /\ C(session) \in Client
             /\ C(session).session = session /\ C(session).server = clients[Handle].server
             /\ session = "connected" => C(session).subscribed = clients[Handle].subscribed
             /\ status' = sta /\ radio' = radio
  <2>1. clients' = [clients EXCEPT ![Handle] = C(session)] /\ status' = sta /\ radio' = radio
    BY <1>3, <1>5, <1>7 DEF Becomes
  <2>2. C(session) \in Client
    BY <1>5 DEF Client
  <2>3. /\ C(session).session = session /\ C(session).server = clients[Handle].server
        /\ session = "connected" => C(session).subscribed = clients[Handle].subscribed
    BY <1>5 DEF Client
  <2> HIDE DEF C
  <2> QED
    BY <2>1, <2>2, <2>3
<1> HIDE DEF C
<1>8. CASE ClientConnected(i)
  <2>1. Session = "trying" /\ pc = "mqtt_up_wait" /\ present /\ ~topicsSet
    BY <1>5, <1>6, <1>8 DEF ClientConnected, CalmInv, SessionKnown
  <2>2. Becomes(i, "connected", "CONNECTED")
    BY <1>8 DEF ClientConnected
  <2>3. /\ status' = "CONNECTED" /\ radio' = radio /\ Handle' = Handle /\ Session' = "connected"
        /\ clients'[Handle'].server = clients[Handle].server
        /\ \A j \in DOMAIN clients' : j # Handle' => ~Alive(clients'[j])
        /\ \A j \in DOMAIN clients' : clients'[j].server \in MqttConfigs
    BY <1>5, <1>7, <2>2, HandChanged
  <2>4. WifiInv'
    BY <1>1, <1>4, <2>1, <2>3, WifiLeft DEF CalmInv, WifiPcs
  <2>5. SessionKnown'
    BY <1>1, <2>1, <2>3 DEF SessionKnown
  <2>6. MqttUnderWay'
    BY <1>1, <2>1, <2>3 DEF CalmInv, MqttUnderWay
  <2>7. SessionConfigured'
    BY <1>1, <2>1, <2>3 DEF CalmInv, SessionConfigured, MqttWorks
  <2> QED
    BY <2>4, <2>5, <2>6, <2>7 DEF SessionInv
<1>9. CASE ClientStopped(i)
  <2>1. Session = "stopping" /\ pc = "mqtt_down_wait" /\ ~topicsSet
    BY <1>5, <1>6, <1>9 DEF ClientStopped, CalmInv, SessionKnown
  <2>2. Becomes(i, "stopped", "JOINED")
    BY <1>9 DEF ClientStopped
  <2>3. /\ status' = "JOINED" /\ radio' = radio /\ Handle' = Handle /\ Session' = "stopped"
        /\ clients'[Handle'].server = clients[Handle].server
        /\ \A j \in DOMAIN clients' : j # Handle' => ~Alive(clients'[j])
        /\ \A j \in DOMAIN clients' : clients'[j].server \in MqttConfigs
    BY <1>5, <1>7, <2>2, HandChanged
  <2>4. WifiInv'
    BY <1>1, <1>4, <2>1, <2>3, WifiLeft DEF CalmInv, WifiPcs
  <2>5. SessionKnown'
    BY <1>1, <2>1, <2>3 DEF SessionKnown
  <2>6. MqttUnderWay'
    BY <1>1, <2>1, <2>3 DEF CalmInv, MqttUnderWay
  <2>7. SessionConfigured'
    BY <1>1, <2>1, <2>3 DEF CalmInv, SessionConfigured, MqttWorks
  <2> QED
    BY <2>4, <2>5, <2>6, <2>7 DEF SessionInv
<1>10. ~ClientRefused(i) /\ ~ClientLost(i)
  BY <1>4 DEF Calm, ClientRefused, ClientLost
<1> QED
  BY <1>2, <1>8, <1>9, <1>10

\* Before Wi-Fi is up, MQTT's calls end without touching the driver.
LEMMA MqttWaits ==
  ASSUME Calm, CalmInv, Mqtt, wifiConfig.prev.v = "boot"
  PROVE  WifiInv'
<1> USE DEF UNKNOWN, UNINTIALIZED, IDLE, JOINED, BUSY, DISCONNECTED, CONNECTED, ACTIVE
<1>1. /\ pc \in {"mqtt_poll", "mqtt_set_down", "mqtt_down", "mqtt_bring_up"} /\ ~mqtt.nested
      /\ clients = <<>> /\ ~topicsSet
  BY DEF CalmInv, WifiOnce, MqttUnderWay, Mqtt, MqttPoll, MqttRead, MqttDownDone, MqttDownActive,
     MqttDownConnected, MqttDownWait, MqttUpConnect, MqttUpWait, MqttUpSubscribe, MqttUpRead,
     MqttUpDone
<1>2. status = "LOST" /\ (pc = "mqtt_down" => mqtt.sta = DISCONNECTED)
  BY <1>1 DEF CalmInv, WifiOnce, MqttUnderWay, MqttSta
<1>3. MqttPoll \/ MqttRead \/ MqttDownDone
  <2>1. ~MqttDownActive
    <3>1. MqttDownActive => pc = "mqtt_down" /\ mqtt.sta = ACTIVE
      BY Zenon DEF MqttDownActive
    <3> QED
      BY <1>2, <3>1
  <2>2. ~MqttDownConnected
    <3>1. MqttDownConnected => pc = "mqtt_down" /\ mqtt.sta = CONNECTED
      BY Zenon DEF MqttDownConnected
    <3> QED
      BY <1>2, <3>1
  <2>3. ~(\/ MqttDownWait \/ MqttUpConnect \/ MqttUpWait \/ MqttUpSubscribe \/ MqttUpRead
          \/ MqttUpDone)
    BY <1>1 DEF MqttDownWait, MqttUpConnect, MqttUpWait, MqttUpSubscribe, MqttUpRead, MqttUpDone
  <2> QED
    BY <2>1, <2>2, <2>3 DEF Mqtt
<1>4. UNCHANGED <<status, radio, clients, topicsSet, wifiConfig, wifi>>
  BY <1>1, <1>3 DEF MqttPoll, MqttRead, MqttDownDone, MqttTo, MqttGoes, MqttEnd,
     MqttDownReturns, driver, store
<1>5. pc' \in {"sleep", "mqtt_set_down", "mqtt_down", "mqtt_bring_up"}
  <2>1. WifiSta(status) < JOINED
    BY <1>2 DEF WifiSta
  <2> QED
    BY <1>1, <1>3, <2>1 DEF MqttPoll, MqttRead, MqttDownDone, MqttTo, MqttGoes, MqttEnd,
         MqttDownReturns
<1> QED
  BY <1>1, <1>2, <1>4, <1>5 DEF CalmInv, WifiInv, WifiOnce, WifiRises

\* Once it is up, they leave the station alone.
LEMMA MqttLeavesWifi ==
  ASSUME Calm, CalmInv, Mqtt, wifiConfig.prev.v = "ap"
  PROVE  WifiInv'
<1>1. ~mqtt.nested
  BY DEF CalmInv, MqttUnderWay
<1>2. UNCHANGED <<status, radio, wifiConfig>> /\ pc' \notin WifiPcs
  BY <1>1 DEF Mqtt, MqttPoll, MqttRead, MqttDownDone, MqttDownActive, MqttDownConnected,
     MqttDownWait, MqttUpConnect, MqttUpWait, MqttUpSubscribe, MqttUpRead, MqttUpDone, MqttTo,
     MqttGoes, MqttEnd, MqttDownReturns, DisconnectCall, ConnectCall, SubscribeCall, UnsubscribeCall,
     Subscribes, WifiPcs, driver, store
<1> QED
  BY <1>2, WifiLeft DEF CalmInv, WifiOnce

\* A step of MQTT that leaves the session alone.
LEMMA SessionLeft ==
  ASSUME SessionKnown, UNCHANGED <<clients, status, topicsSet, present>>,
         pc \notin {"mqtt_up_wait", "mqtt_down_wait"} \/ Session \notin {"trying", "stopping"}
  PROVE  SessionKnown' /\ Session' = Session
BY DEF SessionKnown, Session, Handle

\* A step of MQTT that leaves what is configured alone, too, and what a call works on.
LEMMA ConfiguredLeft ==
  ASSUME SessionConfigured, UNCHANGED <<mqttConfig, clients, direct>>, Session' = Session,
         MqttWorks' /\ mqtt'.fresh => MqttWorks /\ mqtt.fresh /\ mqtt'.cfg = mqtt.cfg
  PROVE  SessionConfigured'
BY DEF SessionConfigured, Handle

\* A new server is taken up directly, or it is that of the client in hand.
LEMMA ServerTaken ==
  ASSUME CalmInv, MqttPoll, ~IsSynchorized(mqttConfig)
  PROVE  SessionConfigured'
<1>1. /\ mqtt' = [Idle(mqttConfig) EXCEPT !.cfg = Load(mqttConfig), !.fresh = TRUE]
      /\ direct' = Directly(Load(mqttConfig).v)
      /\ UNCHANGED <<clients, mqttConfig>>
  BY DEF MqttPoll, MqttGoes, driver, store
<1>2. mqtt'.cfg = Load(mqttConfig)
  BY <1>1 DEF Idle
<1>3. Session' = Session /\ Handle' = Handle
  BY <1>1 DEF Session, Handle
<1>4. ASSUME Session \in {"trying", "connected", "stopping"}
      PROVE  Handle \in DOMAIN clients /\ Alive(clients[Handle])
  BY <1>4 DEF CalmInv, NetInv, TypeOK, DriverTypeOK, Session, Handle, Alive
<1>5. ASSUME Session \in {"trying", "connected", "stopping"}, Load(mqttConfig).v \in Servers,
             clients[Handle].server # Load(mqttConfig).v
      PROVE  direct'
  BY <1>1, <1>4, <1>5 DEF Directly
<1>6. ~IsSynchorized(mqttConfig)'
  BY <1>1 DEF IsSynchorized
<1> QED
  BY <1>1, <1>2, <1>3, <1>5, <1>6 DEF SessionConfigured

\* MQTT's steps, but those of the session.
LEMMA MqttReadsCalm ==
  ASSUME Calm, CalmInv,
         MqttPoll \/ MqttRead \/ MqttDownDone \/ MqttDownWait \/ MqttUpWait \/ MqttUpRead
  PROVE  SessionInv'
<1> USE DEF UNKNOWN, UNINTIALIZED, IDLE, JOINED, BUSY, DISCONNECTED, CONNECTED, ACTIVE
<1>0. /\ SessionKnown /\ MqttUnderWay /\ SessionConfigured /\ ~mqtt.nested
      /\ mqtt \in Local /\ mqttConfig \in Object /\ topicsSet \in BOOLEAN
  BY DEF CalmInv, NetInv, TypeOK, MqttUnderWay
<1>1. UNCHANGED <<clients, status, topicsSet, present, mqttConfig>>
  BY <1>0 DEF MqttPoll, MqttRead, MqttDownDone, MqttDownWait, MqttUpWait, MqttUpRead, MqttTo,
     MqttGoes, MqttEnd, MqttDownReturns, driver, store
<1>2. pc \notin {"mqtt_up_wait", "mqtt_down_wait"} \/ Session \notin {"trying", "stopping"}
  <2>1. CASE MqttPoll \/ MqttRead \/ MqttDownDone \/ MqttUpRead
    BY <2>1 DEF MqttPoll, MqttRead, MqttDownDone, MqttUpRead
  <2>2. CASE MqttDownWait
    BY <1>0, <2>2 DEF MqttDownWait, SessionKnown, MqttUnderWay, MqttSta
  <2>3. CASE MqttUpWait
    BY <1>0, <2>3 DEF MqttUpWait, Calm, SessionKnown, MqttUnderWay, MqttSta
  <2> QED
    BY <2>1, <2>2, <2>3
<1>3. SessionKnown' /\ Session' = Session
  BY <1>0, <1>1, <1>2, SessionLeft
<1>5. SessionConfigured'
  <2>1. CASE MqttPoll
    <3>1. CASE IsSynchorized(mqttConfig)
      <4>1. mqtt' = Idle(mqttConfig) /\ UNCHANGED direct
        BY <2>1, <3>1 DEF MqttPoll, MqttTo
      <4>2. ~mqtt'.fresh
        BY <4>1 DEF Idle
      <4> QED
        BY <1>0, <1>1, <1>3, <4>1, <4>2, ConfiguredLeft
    <3> QED
      BY <2>1, <3>1, ServerTaken
  <2>2. CASE ~MqttPoll
    <3>1. /\ UNCHANGED direct /\ MqttWorks
          /\ \/ mqtt' = Idle(mqttConfig)
             \/ \E m : mqtt' = [mqtt EXCEPT !.sta = m]
             \/ mqtt' = mqtt
      BY <1>0, <2>2 DEF MqttRead, MqttDownDone, MqttDownWait, MqttUpWait, MqttUpRead, MqttTo,
         MqttEnd, MqttDownReturns, MqttWorks
    <3>2. ~mqtt'.fresh \/ (mqtt'.cfg = mqtt.cfg /\ mqtt'.fresh = mqtt.fresh)
      BY <1>0, <3>1 DEF Idle, Local
    <3> QED
      BY <1>0, <1>1, <1>3, <3>1, <3>2, ConfiguredLeft
  <2> QED
    BY <2>1, <2>2
<1>4. MqttUnderWay'
  <2> DEFINE sta == MqttSta(status, topicsSet)
  <2>0. MqttSta(status', topicsSet') = sta /\ (sta = DISCONNECTED <=> status # "CONNECTED")
    BY <1>0, <1>1 DEF MqttSta
  <2>a. ASSUME NEW m, mqtt' = [mqtt EXCEPT !.sta = m]
        PROVE  /\ mqtt'.sta = m
               /\ mqtt'.cfg = mqtt.cfg /\ mqtt'.fresh = mqtt.fresh /\ mqtt'.nested = mqtt.nested
    BY <1>0, <2>a DEF Local
  <2> HIDE DEF sta
  <2>1. CASE pc' = "sleep"
    <3>1. ~mqtt'.nested
      BY <1>0, <2>1 DEF MqttPoll, MqttRead, MqttDownDone, MqttDownWait, MqttUpWait, MqttUpRead,
         MqttTo, MqttGoes, MqttEnd, MqttDownReturns, Idle
    <3> QED
      BY <1>0, <1>1, <1>3, <2>1, <3>1 DEF MqttUnderWay
  <2>2. CASE MqttPoll /\ pc' # "sleep"
    <3>1. CASE IsSynchorized(mqttConfig)
      <4>1. /\ pc' = "mqtt_bring_up" /\ mqtt' = Idle(mqttConfig)
            /\ sta < MqttTarget(mqttConfig.prev.v)
        BY <2>2, <3>1 DEF MqttPoll, MqttTo, MqttGoes, sta
      <4>2. mqttConfig.prev.v \in Servers
        BY <1>0, <4>1 DEF MqttTarget, sta, MqttSta
      <4>3. mqtt'.cfg = mqttConfig.prev /\ ~mqtt'.fresh /\ ~mqtt'.nested
        BY <4>1 DEF Idle
      <4> QED
        BY <1>0, <1>1, <4>1, <4>2, <4>3, ConfigsAssumption DEF MqttUnderWay
    <3>2. CASE ~IsSynchorized(mqttConfig)
      <4>1. /\ pc' = "mqtt_set_down" /\ Pending(mqttConfig)
            /\ mqtt' = [Idle(mqttConfig) EXCEPT !.cfg = Load(mqttConfig), !.fresh = TRUE]
        BY <2>2, <3>2 DEF MqttPoll, MqttTo, MqttGoes, IsSynchorized
      <4>2. mqtt'.cfg = mqttConfig.next /\ mqtt'.fresh /\ ~mqtt'.nested
        BY <4>1 DEF Idle, Load
      <4>3. mqttConfig.next.n \in Nat
        BY <1>0, <4>1 DEF Object, Config, Pending
      <4> QED
        BY <1>0, <1>1, <4>1, <4>2, <4>3 DEF MqttUnderWay
    <3> QED
      BY <3>1, <3>2
  <2>3. CASE MqttRead /\ pc' # "sleep"
    <3>1. /\ mqtt' = [mqtt EXCEPT !.sta = sta]
          /\ \/ pc = "mqtt_set_down" /\ pc' = "mqtt_down"
             \/ pc = "mqtt_bring_up" /\ pc' = "mqtt_up"
      BY <2>3 DEF MqttRead, MqttTo, MqttGoes, MqttEnd, sta
    <3> QED
      BY <1>0, <1>1, <2>0, <2>a, <3>1 DEF MqttUnderWay
  <2>4. CASE MqttDownDone
    <3>1. /\ pc = "mqtt_down" /\ pc' = "mqtt_bring_up" /\ UNCHANGED mqtt
          /\ mqtt.sta < MqttTarget(mqtt.cfg.v) \/ mqtt.sta = DISCONNECTED
      BY <1>0, <2>4 DEF MqttDownDone, MqttDownReturns, MqttTo, MqttGoes, MqttDownTarget
    <3>2. mqtt.sta = sta
      BY <1>0, <3>1 DEF MqttUnderWay, sta
    <3>3. mqtt.cfg.v = "off" => status # "CONNECTED"
      <4>1. MqttTarget("off") = DISCONNECTED
        BY ConfigsAssumption DEF MqttTarget
      <4>2. sta \in DISCONNECTED .. ACTIVE
        BY DEF sta, MqttSta
      <4> QED
        BY <2>0, <3>1, <3>2, <4>1, <4>2
    <3> QED
      BY <1>0, <1>1, <3>1, <3>3 DEF MqttUnderWay
  <2>5. CASE MqttDownWait
    <3>1. pc = "mqtt_down_wait" /\ sta # CONNECTED /\ ~topicsSet
      BY <1>0, <2>5 DEF MqttDownWait, MqttUnderWay, sta
    <3>2. sta = DISCONNECTED
      BY <3>1 DEF sta, MqttSta
    <3>3. pc' = "mqtt_bring_up" /\ UNCHANGED mqtt
      BY <1>0, <2>5, <3>2 DEF MqttDownWait, MqttDownReturns, MqttTo, MqttGoes, sta
    <3> QED
      BY <1>0, <1>1, <2>0, <3>1, <3>2, <3>3 DEF MqttUnderWay
  <2>6. CASE MqttUpWait
    <3>1. /\ pc = "mqtt_up_wait" /\ pc' = "mqtt_up"
          /\ mqtt' = [mqtt EXCEPT !.sta = sta]
      BY <2>6 DEF MqttUpWait, Calm, MqttTo, MqttGoes, sta
    <3> QED
      BY <1>0, <1>1, <2>0, <2>a, <3>1, ConfigsAssumption DEF MqttUnderWay
  <2>7. CASE MqttUpRead /\ pc' # "sleep"
    <3>1. /\ pc = "mqtt_up_read" /\ pc' = "mqtt_up" /\ sta = ACTIVE
          /\ mqtt' = [mqtt EXCEPT !.sta = ACTIVE]
      BY <2>7 DEF MqttUpRead, MqttTo, MqttGoes, MqttEnd, sta
    <3> QED
      BY <1>0, <1>1, <2>0, <2>a, <3>1, ConfigsAssumption DEF MqttUnderWay
  <2> QED
    BY <2>1, <2>2, <2>3, <2>4, <2>5, <2>6, <2>7
<1> QED
  BY <1>3, <1>4, <1>5 DEF SessionInv

\* A request for the topic of the client in hand, whose session goes on.
LEMMA RequestCalm ==
  ASSUME CalmInv, status = "CONNECTED", pc \notin {"mqtt_up_wait", "mqtt_down_wait"},
         NEW answer \in {"no", "yes"}, Subscribes(answer)
  PROVE  /\ Session = "connected" /\ SubscribeOk /\ UNCHANGED <<status, radio>>
         /\ Handle' = Handle /\ Session' = "connected" /\ clients'[Handle'].subscribed = answer
         /\ clients'[Handle'].server = clients[Handle].server
         /\ \A i \in DOMAIN clients' : i # Handle' => ~Alive(clients'[i])
         /\ \A i \in DOMAIN clients' : clients'[i].server \in MqttConfigs
<1> DEFINE c == [clients[Handle] EXCEPT !.subscribed = answer]
<1>1. Session = "connected" /\ Handle # 0 /\ clients[Handle].session = "connected"
  BY DEF CalmInv, SessionKnown, Session
<1>2. clients[Handle] \in Client
  BY <1>1 DEF CalmInv, NetInv, TypeOK, DriverTypeOK, Handle
<1>3. c \in Client /\ c.subscribed = answer /\ c.session = "connected"
      /\ c.server = clients[Handle].server
  BY <1>1, <1>2 DEF Client
<1>4. SubscribeOk
  BY <1>1 DEF SubscribeOk, HandleConnected
<1>5. clients' = [clients EXCEPT ![Handle] = c] /\ UNCHANGED <<status, radio>>
  BY <1>4 DEF Subscribes
<1> HIDE DEF c
<1> QED
  BY <1>1, <1>3, <1>4, <1>5, HandChanged

\* MQTT's requests, and the end of its bring up.
LEMMA MqttTopicsCalm ==
  ASSUME Calm, CalmInv, MqttDownActive \/ MqttUpSubscribe
  PROVE  SessionInv'
<1> USE DEF UNKNOWN, UNINTIALIZED, IDLE, JOINED, BUSY, DISCONNECTED, CONNECTED, ACTIVE
<1>0. /\ SessionKnown /\ MqttUnderWay /\ SessionConfigured /\ ~mqtt.nested
      /\ mqtt \in Local /\ mqttConfig \in Object /\ topicsSet \in BOOLEAN
  BY DEF CalmInv, NetInv, TypeOK, MqttUnderWay
<1>1. CASE MqttDownActive
  <2>1. /\ pc = "mqtt_down" /\ mqtt.sta = ACTIVE /\ pc' = "mqtt_down" /\ ~topicsSet'
        /\ mqtt' = [mqtt EXCEPT !.sta = MqttSta(status, FALSE)] /\ Subscribes("no")
        /\ UNCHANGED <<present, mqttConfig>>
    BY <1>1, Zenon DEF MqttDownActive, MqttTo, MqttGoes, UnsubscribeCall, store
  <2>2. status = "CONNECTED" /\ MqttSta(status, FALSE) = CONNECTED
    <3>1. status = "CONNECTED"
      <4>1. mqtt.sta = MqttSta(status, topicsSet)
        BY <1>0, <2>1, Zenon DEF MqttUnderWay
      <4>2. mqtt.sta = ACTIVE
        BY <2>1, Zenon
      <4> QED
        BY <4>1, <4>2 DEF MqttSta
    <3> QED
      BY <3>1, Zenon DEF MqttSta
  <2>3. /\ Session = "connected" /\ status' = status
        /\ Handle' = Handle /\ Session' = "connected"
        /\ clients'[Handle'].server = clients[Handle].server
        /\ \A i \in DOMAIN clients' : i # Handle' => ~Alive(clients'[i])
        /\ \A i \in DOMAIN clients' : clients'[i].server \in MqttConfigs
    BY <2>1, <2>2, RequestCalm
  <2>4. mqtt'.sta = CONNECTED /\ mqtt'.cfg = mqtt.cfg /\ mqtt'.fresh = mqtt.fresh /\ ~mqtt'.nested
    <3>1. mqtt' = [mqtt EXCEPT !.sta = CONNECTED]
      BY <2>1, <2>2, Zenon
    <3> QED
      BY <1>0, <3>1 DEF Local
  <2>5. /\ pc = "mqtt_down" /\ pc' = "mqtt_down" /\ ~topicsSet' /\ present' = present
        /\ mqttConfig' = mqttConfig /\ direct' = direct
    BY <1>1, <2>1, Zenon DEF MqttDownActive, MqttTo
  <2>6. SessionKnown'
    BY <1>0, <2>2, <2>3, <2>5 DEF SessionKnown
  <2>7. MqttUnderWay'
    <3>1. MqttSta(status', topicsSet') = CONNECTED
      BY <2>2, <2>3, <2>5 DEF MqttSta
    <3> QED
      BY <1>0, <2>4, <2>5, <3>1 DEF MqttUnderWay
  <2>8. SessionConfigured'
    BY <1>0, <2>3, <2>4, <2>5 DEF SessionConfigured, MqttWorks
  <2> QED
    BY <2>6, <2>7, <2>8 DEF SessionInv
<1>2. CASE MqttUpSubscribe
  <2>1. /\ pc = "mqtt_up" /\ mqtt.sta = CONNECTED /\ CONNECTED < MqttTarget(mqtt.cfg.v)
        /\ Subscribes("yes") /\ UNCHANGED <<present>>
    BY <1>2 DEF MqttUpSubscribe, MqttTo, MqttGoes, SubscribeCall, store
  <2>2. status = "CONNECTED" /\ mqtt.cfg.v \in Servers
    BY <1>0, <2>1 DEF MqttUnderWay, MqttSta, MqttTarget
  <2>3. /\ Session = "connected" /\ SubscribeOk /\ status' = status
        /\ Handle' = Handle /\ Session' = "connected" /\ clients'[Handle'].subscribed = "yes"
        /\ clients'[Handle'].server = clients[Handle].server
        /\ \A i \in DOMAIN clients' : i # Handle' => ~Alive(clients'[i])
        /\ \A i \in DOMAIN clients' : clients'[i].server \in MqttConfigs
    BY <2>1, <2>2, RequestCalm
  <2>4. pc' = "mqtt_up_read" /\ UNCHANGED <<mqtt, mqttConfig, direct>>
    BY <1>2, <2>3 DEF MqttUpSubscribe, MqttTo, MqttGoes, store
  <2>5. SessionKnown'
    BY <1>0, <2>1, <2>2, <2>3, <2>4 DEF SessionKnown
  <2>6. MqttUnderWay'
    BY <1>0, <2>1, <2>2, <2>4, ConfigsAssumption DEF MqttUnderWay
  <2>7. SessionConfigured'
    BY <1>0, <2>1, <2>3, <2>4 DEF SessionConfigured, MqttWorks
  <2> QED
    BY <2>5, <2>6, <2>7 DEF SessionInv
<1> QED
  BY <1>1, <1>2

\* The session before is told to stop: only where none is configured any more.
LEMMA MqttDisconnectCalm ==
  ASSUME Calm, CalmInv, MqttDownConnected
  PROVE  SessionInv'
<1> USE DEF UNKNOWN, UNINTIALIZED, IDLE, JOINED, BUSY, DISCONNECTED, CONNECTED, ACTIVE
<1>0. /\ SessionKnown /\ MqttUnderWay /\ SessionConfigured /\ ~mqtt.nested
      /\ mqtt \in Local /\ mqttConfig \in Object /\ topicsSet \in BOOLEAN
  BY DEF CalmInv, NetInv, TypeOK, MqttUnderWay
<1>1. /\ pc = "mqtt_down" /\ mqtt.sta = CONNECTED /\ DisconnectCall /\ UNCHANGED topicsSet
  BY Zenon DEF MqttDownConnected
<1>2. status = "CONNECTED" /\ ~topicsSet
  BY <1>0, <1>1 DEF MqttUnderWay, MqttSta
<1>3. pc' = "mqtt_down_wait" /\ UNCHANGED <<mqtt, mqttConfig, direct>> /\ UNCHANGED status
  BY <1>2, Zenon DEF MqttDownConnected, DisconnectOk, MqttTo, MqttGoes, DisconnectCall, store
<1>4. Session = "connected" /\ Handle # 0
  BY <1>0, <1>1, <1>2 DEF SessionKnown, Session
<1>5. /\ Session' = "stopping" /\ Handle' = Handle
      /\ clients'[Handle'].server = clients[Handle].server
      /\ \A i \in DOMAIN clients' : i # Handle' => ~Alive(clients'[i])
      /\ \A i \in DOMAIN clients' : clients'[i].server \in MqttConfigs
  <2> DEFINE c == [clients[Handle] EXCEPT !.session = Stopped(@)]
  <2>1. clients[Handle] \in Client /\ clients[Handle].session = "connected"
    BY <1>4 DEF CalmInv, NetInv, TypeOK, DriverTypeOK, Handle, Session
  <2>2. c \in Client /\ c.session = "stopping" /\ c.server = clients[Handle].server
    BY <2>1 DEF Client, Stopped
  <2>3. clients' = [clients EXCEPT ![Handle] = c]
    BY <1>1, <1>2, <1>4 DEF DisconnectCall, DisconnectOk
  <2> HIDE DEF c
  <2> QED
    BY <1>4, <2>2, <2>3, HandChanged
<1>6. SessionKnown'
  BY <1>0, <1>1, <1>2, <1>3, <1>5 DEF SessionKnown
<1>7. MqttUnderWay'
  BY <1>0, <1>1, <1>2, <1>3, <1>5 DEF MqttUnderWay
<1>8. SessionConfigured'
  <2>1. mqtt.fresh /\ Pending(mqttConfig) /\ mqttConfig.next.n >= mqtt.cfg.n
        /\ mqtt.cfg.n > mqttConfig.prev.n
    BY <1>0, <1>1 DEF MqttUnderWay
  <2>2. mqtt.cfg.n \in Nat /\ mqttConfig.prev.n \in Nat /\ mqttConfig.next.n \in Nat
    BY <1>0, <2>1 DEF Local, Object, Config, Pending
  <2>3. ~IsSynchorized(mqttConfig')
    BY <1>3, <2>1, <2>2 DEF IsSynchorized, Pending
  <2> QED
    BY <1>0, <1>1, <1>3, <1>4, <1>5, <2>3 DEF SessionConfigured, MqttWorks
<1> QED
  BY <1>6, <1>7, <1>8 DEF SessionInv

\* A client is started once the one before has stopped.
LEMMA MqttConnectCalm ==
  ASSUME Calm, CalmInv, wifiConfig.prev.v = "ap", MqttUpConnect
  PROVE  SessionInv'
<1> USE DEF UNKNOWN, UNINTIALIZED, IDLE, JOINED, BUSY, DISCONNECTED, CONNECTED, ACTIVE
<1>0. /\ SessionKnown /\ MqttUnderWay /\ SessionConfigured /\ ~mqtt.nested
      /\ mqtt \in Local /\ mqttConfig \in Object /\ topicsSet \in BOOLEAN /\ DriverTypeOK
  BY DEF CalmInv, NetInv, TypeOK, MqttUnderWay
<1>1. /\ pc = "mqtt_up" /\ mqtt.sta = DISCONNECTED /\ DISCONNECTED < MqttTarget(mqtt.cfg.v)
      /\ ConnectCall(mqtt.cfg.v) /\ ~topicsSet'
  BY Zenon DEF MqttUpConnect
<1>2. status = "JOINED" /\ mqtt.cfg.v \in Servers /\ mqtt.cfg.v \in MqttConfigs
  <2>1. status # "CONNECTED"
    BY <1>0, <1>1 DEF MqttUnderWay, MqttSta
  <2>2. mqtt.cfg.v \in Servers
    BY <1>1 DEF MqttTarget
  <2> QED
    BY <1>0, <1>1, <2>1, <2>2, ConfigsAssumption DEF CalmInv, WifiOnce, MqttUnderWay
<1>3. pc' = "mqtt_up_wait" /\ UNCHANGED <<mqtt, mqttConfig, status, direct>> /\ present'
  BY <1>2, Zenon DEF MqttUpConnect, ConnectOk, MqttTo, MqttGoes, ConnectCall, store
<1> DEFINE new == [server |-> mqtt.cfg.v, session |-> "trying", subscribed |-> "no"]
<1>4. clients' = Append(Kept, new)
  BY <1>1, <1>2 DEF ConnectCall
<1>5. /\ Kept \in Seq(Client)
      /\ \A i \in DOMAIN Kept : ~Alive(Kept[i]) /\ Kept[i].server \in MqttConfigs
  <2>1. ASSUME NEW i \in DOMAIN clients
        PROVE  ~Alive(clients[i]) /\ clients[i].server \in MqttConfigs
    <3>1. CASE i # Handle
      BY <1>0, <3>1 DEF SessionKnown
    <3>2. CASE i = Handle
      <4>1. clients[i] \in Client /\ i # 0
        BY <1>0 DEF DriverTypeOK
      <4>2. clients[i].session = Session
        BY <3>2, <4>1 DEF Session
      <4>3. Session \notin {"connected", "stopping", "trying"}
        BY <1>0, <1>1, <1>2 DEF SessionKnown
      <4> QED
        BY <1>0, <4>1, <4>2, <4>3 DEF SessionKnown, Alive, Client
    <3> QED
      BY <3>1, <3>2
  <2> QED
    BY <1>0, <2>1, KeptFacts
<1>6. /\ Session' = "trying" /\ clients'[Handle'].server = mqtt.cfg.v
      /\ \A i \in DOMAIN clients' : i # Handle' => ~Alive(clients'[i])
      /\ \A i \in DOMAIN clients' : clients'[i].server \in MqttConfigs
  <2>1. new \in Client /\ new.session = "trying" /\ new.server = mqtt.cfg.v
    BY <1>2 DEF Client
  <2> HIDE DEF new
  <2>2. /\ Len(clients') = Len(Kept) + 1 /\ DOMAIN clients' = 1 .. Len(Kept) + 1
        /\ clients'[Len(Kept) + 1] = new
        /\ \A i \in 1 .. Len(Kept) : clients'[i] = Kept[i] /\ i \in DOMAIN Kept
    BY <1>4, <1>5, <2>1, AppendProperties
  <2>3. Len(Kept) \in Nat
    BY <1>5
  <2>4. Handle' = Len(Kept) + 1 /\ Session' = "trying"
    BY <2>1, <2>2, <2>3 DEF Handle, Session
  <2>5. \A i \in DOMAIN clients' : i \in 1 .. Len(Kept) \/ i = Len(Kept) + 1
    BY <2>2, <2>3
  <2> QED
    BY <1>2, <1>5, <2>1, <2>2, <2>4, <2>5
<1>7. SessionKnown'
  BY <1>1, <1>2, <1>3, <1>6 DEF SessionKnown
<1>8. MqttUnderWay'
  BY <1>0, <1>1, <1>2, <1>3, <1>6 DEF MqttUnderWay
<1>9. SessionConfigured'
  <2>1. CASE mqtt.fresh
    <3>1. Pending(mqttConfig) /\ mqttConfig.next.n >= mqtt.cfg.n
          /\ mqtt.cfg.n > mqttConfig.prev.n
      BY <1>0, <1>1, <2>1 DEF MqttUnderWay
    <3>2. mqtt.cfg.n \in Nat /\ mqttConfig.prev.n \in Nat /\ mqttConfig.next.n \in Nat
      BY <1>0, <3>1 DEF Local, Object, Config, Pending
    <3>3. ~IsSynchorized(mqttConfig')
      BY <1>3, <3>1, <3>2 DEF IsSynchorized, Pending
    <3> QED
      BY <1>3, <1>6, <3>3 DEF SessionConfigured
  <2>2. CASE ~mqtt.fresh
    BY <1>0, <1>1, <1>2, <1>3, <1>6, <2>2 DEF MqttUnderWay, SessionConfigured
  <2> QED
    BY <2>1, <2>2
<1> QED
  BY <1>7, <1>8, <1>9 DEF SessionInv

\* Whoever is connected as MQTT's bring up ends is at the server it was for.
LEMMA MqttDoneCalm ==
  ASSUME Calm, CalmInv, MqttUpDone
  PROVE  SessionInv'
<1> USE DEF UNKNOWN, UNINTIALIZED, IDLE, JOINED, BUSY, DISCONNECTED, CONNECTED, ACTIVE
<1>0. /\ SessionKnown /\ MqttUnderWay /\ SessionConfigured /\ ~mqtt.nested
      /\ mqtt \in Local /\ mqttConfig \in Object
  BY DEF CalmInv, NetInv, TypeOK, MqttUnderWay
<1>1. /\ pc = "mqtt_up" /\ pc' = "sleep"
      /\ UNCHANGED <<clients, status, topicsSet, present, direct>>
      /\ mqttConfig' = IF mqtt.fresh THEN Synchorized(mqttConfig, mqtt.cfg) ELSE mqttConfig
      /\ mqtt' = Idle(mqttConfig')
  BY DEF MqttUpDone, driver
<1>2. SessionKnown' /\ Session' = Session
  BY <1>0, <1>1, SessionLeft
<1>3. Session \in {"trying", "connected", "stopping"} => mqtt.cfg.v # "off"
  BY <1>0, <1>1 DEF SessionKnown, MqttUnderWay
<1>4. ~mqtt'.nested
  BY <1>1 DEF Idle
<1>5. CASE ~mqtt.fresh
  BY <1>0, <1>1, <1>2, <1>4, <1>5
  DEF SessionInv, MqttUnderWay, SessionConfigured, MqttWorks, Handle
<1>6. CASE mqtt.fresh
  <2>1. /\ Pending(mqttConfig) /\ mqtt.cfg.v \in MqttConfigs
        /\ mqtt.cfg.n > mqttConfig.prev.n /\ mqttConfig.next.n >= mqtt.cfg.n
    BY <1>0, <1>1, <1>6 DEF MqttUnderWay
  <2>2. mqtt.cfg.n \in Nat /\ mqttConfig.prev.n \in Nat /\ mqttConfig.next.n \in Nat
    BY <1>0, <2>1 DEF Local, Object, Config, Pending
  <2>3. PrevAfter(mqttConfig, mqtt.cfg) = mqtt.cfg
    BY <2>1, <2>2 DEF PrevAfter
  <2>4. /\ mqttConfig'.prev = mqtt.cfg
        /\ mqttConfig'.next = IF mqttConfig.next.n = mqtt.cfg.n THEN NoNext ELSE mqttConfig.next
    BY <1>1, <1>6, <2>1, <2>3 DEF Synchorized
  <2>5. MqttUnderWay'
    BY <1>0, <1>1, <1>4, <2>1, <2>2, <2>4 DEF MqttUnderWay, Pending
  <2>6. SessionConfigured'
    <3>1. ASSUME Session' \in {"trying", "connected", "stopping"}
          PROVE  mqtt.cfg.v \in Servers /\ (direct \/ clients[Handle].server = mqtt.cfg.v)
      BY <1>0, <1>1, <1>2, <1>3, <1>6, <2>1, <3>1, ConfigsAssumption
      DEF SessionConfigured, MqttWorks
    <3>2. Handle' = Handle
      BY <1>1 DEF Handle
    <3> QED
      BY <1>1, <2>4, <3>1, <3>2 DEF SessionConfigured, MqttWorks
  <2> QED
    BY <1>2, <2>5, <2>6 DEF SessionInv
<1> QED
  BY <1>5, <1>6

\* MQTT's steps, one by one.
LEMMA MqttCalm == Calm /\ CalmInv /\ Mqtt => WifiInv' /\ SessionInv'
<1> SUFFICES ASSUME Calm, CalmInv, Mqtt PROVE WifiInv' /\ SessionInv'
  OBVIOUS
<1>1. wifiConfig.prev.v \in {"boot", "ap"}
  BY DEF CalmInv, WifiOnce
<1>2. WifiInv'
  BY <1>1, MqttWaits, MqttLeavesWifi
<1>3. MqttUpConnect => wifiConfig.prev.v = "ap"
  BY <1>1 DEF MqttUpConnect, CalmInv, WifiOnce
<1>4. SessionInv'
  BY <1>3, MqttReadsCalm, MqttTopicsCalm, MqttDisconnectCalm, MqttConnectCalm, MqttDoneCalm
  DEF Mqtt
<1> QED
  BY <1>2, <1>4

\* While nothing goes wrong and Wi-Fi is configured once, CalmInv holds, whichever servers
\* MQTT is configured for and in which order.
THEOREM CalmInductive == ASSUME Calm PROVE Spec => []CalmInv
<1>1. Init => WifiInv /\ SessionInv
  <2> SUFFICES ASSUME Init PROVE WifiInv /\ SessionInv
    OBVIOUS
  <2>1. /\ wifiConfig = [prev |-> [n |-> 0, v |-> "boot"], next |-> NoNext]
        /\ mqttConfig = [prev |-> [n |-> 0, v |-> "boot"], next |-> NoNext]
        /\ clients = <<>> /\ status = "LOST" /\ pc = "sleep" /\ ~topicsSet /\ present
    BY DEF Init, DriverInit, Constructed
  <2>2. Handle = 0 /\ Session = "none" /\ DOMAIN clients = {}
    BY <2>1 DEF Handle, Session
  <2>3. ~mqtt.nested
    BY DEF Init, Idle
  <2>4. WifiInv
    BY <2>1 DEF WifiInv, WifiOnce, WifiRises
  <2>5. SessionKnown
    BY <2>1, <2>2 DEF SessionKnown
  <2>6. MqttUnderWay /\ SessionConfigured
    BY <2>1, <2>2, <2>3 DEF MqttUnderWay, SessionConfigured, Pending
  <2> QED
    BY <2>4, <2>5, <2>6 DEF SessionInv
<1>2. CalmInv /\ [Next]_vars => WifiInv' /\ SessionInv'
  <2>1. ASSUME CalmInv, UNCHANGED vars PROVE WifiInv' /\ SessionInv'
    <3>1. Session' = Session /\ Handle' = Handle
      BY <2>1 DEF vars, driver, Session, Handle
    <3> QED
      BY <2>1, <3>1 DEF vars, driver, store, CalmInv, WifiInv, WifiOnce, WifiRises, SessionInv,
           SessionKnown, MqttUnderWay, SessionConfigured, MqttWorks
  <2>2. CalmInv /\ DriverEvent => WifiInv' /\ SessionInv'
    BY StationEventCalm, ClientEventCalm DEF DriverEvent, Event
  <2> QED
    BY <2>1, <2>2, StoreWifiCalm, StoreMqttCalm, WifiCalm, MqttCalm DEF Next, Supervisor
<1>3. NetInv /\ WifiInv /\ SessionInv <=> CalmInv
  BY DEF CalmInv, WifiInv, SessionInv
<1> QED
  BY <1>1, <1>2, <1>3, NetInductive, PTL DEF Spec

\* The one client that lives on is that in hand.
LEMMA OneSession == CalmInv => OneClientAtServer
<1> SUFFICES ASSUME CalmInv PROVE OneClientAtServer
  OBVIOUS
<1>1. ASSUME NEW i \in DOMAIN clients, Alive(clients[i]) PROVE i = Handle
  BY <1>1 DEF CalmInv, SessionKnown
<1>2. ASSUME ~direct, IsSynchorized(mqttConfig), NEW i \in DOMAIN clients, Alive(clients[i])
      PROVE  clients[i].server = mqttConfig.prev.v
  <2>1. clients[i] \in Client /\ i # 0
    BY DEF CalmInv, NetInv, TypeOK, DriverTypeOK
  <2>2. Session \in {"trying", "connected", "stopping"}
    BY <1>1, <1>2, <2>1 DEF Session, Alive, Client
  <2> QED
    BY <1>1, <1>2, <2>2 DEF CalmInv, SessionConfigured
<1> QED
  BY <1>1, <1>2 DEF OneClientAtServer, OldServerLeft

\* OneClientAtServer holds for every set of servers: one client at most lives on, and once a
\* configuration is applied it is at the server configured, unless that was taken up while
\* the client of another lived (which MqttPoll's history records).
THEOREM OneClientRight == ASSUME Calm PROVE Spec => []OneClientAtServer
BY OneSession, CalmInductive, PTL

\* UpdatedMeansAtServer holds: the status is CONNECTED only with a session of the client
\* in hand, at the server configured but for one taken up directly, once that is called
\* applied.
THEOREM UpdatedRight == ASSUME Calm PROVE Spec => []UpdatedMeansAtServer
<1>1. CalmInv => UpdatedMeansAtServer
  <2> SUFFICES ASSUME CalmInv, status = "CONNECTED", IsSynchorized(mqttConfig)
               PROVE  /\ present
                      /\ \E i \in DOMAIN clients :
                           /\ clients[i].session = "connected"
                           /\ direct \/ clients[i].server = mqttConfig.prev.v
                           /\ topicsSet => clients[i].subscribed = "yes"
    BY DEF UpdatedMeansAtServer
  <2>1. pc # "mqtt_down_wait"
    <3> SUFFICES ASSUME pc = "mqtt_down_wait" PROVE FALSE
      OBVIOUS
    <3>1. /\ Pending(mqttConfig) /\ mqtt.cfg.n > mqttConfig.prev.n
          /\ mqttConfig.next.n >= mqtt.cfg.n
      BY DEF CalmInv, MqttUnderWay
    <3>2. mqtt.cfg.n \in Nat /\ mqttConfig.prev.n \in Nat /\ mqttConfig.next.n \in Nat
      BY <3>1 DEF CalmInv, NetInv, TypeOK, Local, Object, Config, Pending
    <3> QED
      BY <3>1, <3>2 DEF IsSynchorized
  <2>2. Session = "connected" /\ present
    BY <2>1 DEF CalmInv, SessionKnown
  <2>3. Handle \in DOMAIN clients /\ clients[Handle].session = "connected"
    BY <2>2 DEF CalmInv, NetInv, TypeOK, DriverTypeOK, Session, Handle
  <2>4. direct \/ clients[Handle].server = mqttConfig.prev.v
    BY <2>3, OneSession DEF OneClientAtServer, OldServerLeft, Alive
  <2>5. topicsSet => clients[Handle].subscribed = "yes"
    BY DEF CalmInv, SessionKnown
  <2> QED
    BY <2>2, <2>3, <2>4, <2>5
<1> QED
  BY <1>1, CalmInductive, PTL
=============================================================================
