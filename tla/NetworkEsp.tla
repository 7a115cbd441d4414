----------------------------- MODULE NetworkEsp -----------------------------
(***************************************************************************)
(* The ESP32 network driver (porting/espressif/el_network_esp.cpp): the    *)
(* one status the Wi-Fi station and the MQTT client share, what the calls  *)
(* of the driver do, and the events of the IDF that change the status from *)
(* other tasks.  The station and the clients themselves, and what happens  *)
(* to them, are the environment: the access point may be out of range, a   *)
(* server may refuse or lose a client, a client retries for ever until it  *)
(* is stopped.                                                             *)
(***************************************************************************)
EXTENDS Naturals, Sequences

CONSTANTS
  Servers,          \* MQTT servers
  Faults,           \* what goes wrong: a subset of {"signal", "server", "timeout"}
  MaxClients        \* bound: MQTT clients that live at the same time

ASSUME FaultsAssumption == Faults \subseteq {"signal", "server", "timeout"}

ASSUME MaxClientsAssumption == MaxClients \in Nat \ {0}

VARIABLES
  status,           \* network_status
  handled,          \* wifi_event_handler is registered
  radio,            \* the station: off, down, joining, up
  clients           \* the MQTT clients started; mqtt_client is the last one

driver == <<status, handled, radio, clients>>

(* subscribed: whether the server has this client's topic.  Sessions are     *)
(* clean, so it goes with the session ("lost"), and nobody asks for it again. *)
Client == [server : Servers, session : {"trying", "connected", "stopping", "stopped"},
           subscribed : {"no", "yes", "lost"}]

DriverInit ==
  /\ status = "LOST" /\ handled = FALSE
  /\ radio = "off" /\ clients = <<>>

Handle == Len(clients)      \* mqtt_client, 0 when it is null

HandleConnected == Handle # 0 /\ clients[Handle].session = "connected"

-----------------------------------------------------------------------------
(* The calls.  Their results are read from the state before. *)

(* init, deinit *)
InitCall ==
  IF status # "LOST"
    THEN UNCHANGED driver
    ELSE status' = "IDLE" /\ radio' = "down" /\ UNCHANGED <<handled, clients>>

DeinitCall ==
  IF status = "LOST"
    THEN UNCHANGED driver
    ELSE status' = "LOST" /\ radio' = "off" /\ UNCHANGED <<handled, clients>>

(* join: the station refuses a new configuration while it is connecting. *)
JoinOk ==
  status \in {"JOINED", "CONNECTED"} \/ (status = "IDLE" /\ radio # "joining")

JoinCall ==
  /\ UNCHANGED <<status, clients>>
  /\ handled' = (handled \/ status = "IDLE")
  /\ radio' = IF status = "IDLE" THEN "joining" ELSE radio

(* quit: the handlers are unregistered first, then the station disconnects. *)
QuitCall ==
  IF status \in {"IDLE", "LOST"}
    THEN UNCHANGED driver
    ELSE /\ handled' = FALSE
         /\ radio' = IF radio = "off" THEN "off" ELSE "down"
         /\ UNCHANGED <<status, clients>>

(* connect: a client is created and started, what mqtt_client pointed to    *)
(* before is neither stopped nor destroyed.                                 *)
ConnectOk == status \in {"JOINED", "CONNECTED"}

Alive(c) == c.session # "stopped"

(* Room for one more client: one that has stopped goes, or the oldest.      *)
Kept ==
  LET stopped == {i \in DOMAIN clients : ~Alive(clients[i])}
      gone == IF stopped = {} THEN 1 ELSE CHOOSE i \in stopped : TRUE
  IN IF Len(clients) < MaxClients THEN clients
     ELSE [k \in 1 .. MaxClients - 1 |-> clients[IF k < gone THEN k ELSE k + 1]]

ConnectCall(server) ==
  /\ clients' = IF status = "JOINED"
                  THEN Append(Kept, [server |-> server, session |-> "trying", subscribed |-> "no"])
                  ELSE clients
  /\ UNCHANGED <<status, handled, radio>>

(* disconnect: a connected client reports the end of its session when it    *)
(* gets to it; one that is not connected just stops.                        *)
DisconnectOk == status = "CONNECTED"

Stopped(session) ==
  CASE session = "connected" -> "stopping"
    [] session = "trying" -> "stopped"
    [] OTHER -> session

DisconnectCall ==
  /\ clients' = IF DisconnectOk /\ Handle # 0
                  THEN [clients EXCEPT ![Handle].session = Stopped(@)]
                  ELSE clients
  /\ UNCHANGED <<status, handled, radio>>

(* subscribe, unsubscribe: requests of the handle's client. *)
SubscribeOk == status = "CONNECTED" /\ HandleConnected

Subscribes(answer) ==
  /\ clients' = IF SubscribeOk THEN [clients EXCEPT ![Handle].subscribed = answer] ELSE clients
  /\ UNCHANGED <<status, handled, radio>>
SubscribeCall   == Subscribes("yes")
UnsubscribeCall == Subscribes("no")

-----------------------------------------------------------------------------
(* The events.  wifi_event_handler: *)

GotIp ==
  /\ radio = "joining"
  /\ radio' = "up"
  /\ status' = IF handled THEN "JOINED" ELSE status
  /\ UNCHANGED <<handled, clients>>

JoinFails ==
  /\ radio = "joining" /\ "signal" \in Faults
  /\ radio' = "down"
  /\ status' = IF handled THEN "IDLE" ELSE status
  /\ UNCHANGED <<handled, clients>>

SignalLost ==
  /\ radio = "up" /\ "signal" \in Faults
  /\ radio' = "down"
  /\ status' = IF handled THEN "IDLE" ELSE status
  /\ UNCHANGED <<handled, clients>>

(* mqtt_event_handler, which does not look at the client or at the status:  *)

Becomes(i, session, sta) ==
  /\ clients' = [clients EXCEPT
                   ![i].session = session,
                   ![i].subscribed = IF session # "connected" /\ @ = "yes" THEN "lost" ELSE @]
  /\ status' = sta
  /\ UNCHANGED <<handled, radio>>

ClientConnected(i) ==
  /\ clients[i].session = "trying" /\ radio = "up"
  /\ Becomes(i, "connected", "CONNECTED")

ClientRefused(i) ==
  /\ clients[i].session = "trying" /\ (radio # "up" \/ "server" \in Faults)
  /\ Becomes(i, "trying", "JOINED")

ClientLost(i) ==
  /\ clients[i].session = "connected" /\ (radio # "up" \/ "server" \in Faults)
  /\ Becomes(i, "trying", "JOINED")

(* Mutants of ClientStopped: the event of a client that stops is not        *)
(* handled; and a client that is disconnected and not stopped.              *)
ClientStoppedUnseen(i) ==
  /\ clients[i].session = "stopping"
  /\ Becomes(i, "stopped", status)

ClientOnlyDisconnected(i) ==
  /\ clients[i].session = "stopping"
  /\ Becomes(i, "trying", "JOINED")

ClientStopped(i) ==
  /\ clients[i].session = "stopping"
  /\ Becomes(i, "stopped", "JOINED")

ClientEvent ==
  \E i \in DOMAIN clients :
    ClientConnected(i) \/ ClientRefused(i) \/ ClientLost(i) \/ ClientStopped(i)

Event == GotIp \/ JoinFails \/ SignalLost \/ ClientEvent

(* Types; a station that is connecting or connected is listened to, and a   *)
(* driver that calls itself lost has switched it off.                       *)
DriverTypeOK ==
  /\ status \in {"LOST", "IDLE", "JOINED", "CONNECTED"}
  /\ handled \in BOOLEAN
  /\ radio \in {"off", "down", "joining", "up"}
  /\ clients \in Seq(Client) /\ Len(clients) <= MaxClients
  /\ radio \in {"joining", "up"} => handled
  /\ status = "LOST" => radio = "off"
=============================================================================
