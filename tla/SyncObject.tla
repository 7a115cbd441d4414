----------------------------- MODULE SyncObject -----------------------------
(***************************************************************************)
(* A SynchronizableObject between the two threads that share one: the      *)
(* executor's worker stores configurations and asks about them (AT+WIFI,   *)
(* AT+WIFI?, AT+MQTTSERVER, AT+MQTTSERVER?), and the supervisor's poll     *)
(* applies them (poll_from_supervisor of sscma/interface/wifi.hpp and      *)
(* sscma/interface/transport/mqtt.hpp, which are alike line for line).     *)
(* Whether the network can be set down and brought up is left open: either *)
(* may fail.                                                               *)
(***************************************************************************)
EXTENDS SynchronizableObject

CONSTANTS
  Values,           \* configurations
  Default,          \* the one the object is constructed with
  MaxStores         \* bound: configurations stored

ASSUME DefaultAssumption == Default \in Values

Versioned == [n : Nat, v : Values]

ASSUME NoNextAssumption == NoNext \notin Versioned

ASSUME MaxStoresAssumption == MaxStores \in Nat

VARIABLES
  obj,              \* _wifi_config or _mqtt_server_config
  spc, config,      \* the supervisor's poll and its local copy
  qpc, updated, answer  \* the worker's query, what it read of the object

vars == <<obj, spc, config, qpc, updated, answer>>

Init ==
  /\ obj = Constructed(Default)
  /\ spc = "sleep" /\ config = obj.prev
  /\ qpc = "idle" /\ updated = TRUE /\ answer = obj.prev

-----------------------------------------------------------------------------
(* The worker. *)

(* set_wifi_config, set_mqtt_server_config. *)
Store ==
  /\ qpc = "idle" /\ Load(obj).n < MaxStores
  /\ \E v \in Values : obj' = Stored(obj, v)
  /\ UNCHANGED <<spc, config, qpc, updated, answer>>

(* get_wifi_network, get_mqtt_server: first whether it is synchronized,     *)
(* later the configuration.                                                 *)
QueryUpdated ==
  /\ qpc = "idle"
  /\ updated' = IsSynchorized(obj) /\ qpc' = "config"
  /\ UNCHANGED <<obj, spc, config, answer>>

QueryConfig ==
  /\ qpc = "config"
  /\ answer' = Load(obj) /\ qpc' = "reply"
  /\ UNCHANGED <<obj, spc, config, updated>>

QueryReply ==
  /\ qpc = "reply"
  /\ qpc' = "idle"
  /\ UNCHANGED <<obj, spc, config, updated, answer>>

-----------------------------------------------------------------------------
(* The supervisor: poll_from_supervisor. *)

PollCheck ==
  /\ spc = "sleep"
  /\ spc' = IF IsSynchorized(obj) THEN "last" ELSE "load"
  /\ UNCHANGED <<obj, config, qpc, updated, answer>>

(* Up to date: the last configuration is brought up again if the network    *)
(* was lost; nothing is recorded.                                           *)
PollLast ==
  /\ spc = "last"
  /\ config' = obj.prev /\ spc' = "sleep"
  /\ UNCHANGED <<obj, qpc, updated, answer>>

PollLoad ==
  /\ spc = "load"
  /\ config' = Load(obj) /\ spc' = "apply"
  /\ UNCHANGED <<obj, qpc, updated, answer>>

(* set_down or bring_up fails: tried again at the next poll. *)
PollFail ==
  /\ spc = "apply"
  /\ spc' = "sleep"
  /\ UNCHANGED <<obj, config, qpc, updated, answer>>

PollSynchorize ==
  /\ spc = "apply"
  /\ obj' = Synchorized(obj, config)
  /\ spc' = "sleep"
  /\ UNCHANGED <<config, qpc, updated, answer>>

Poll == PollCheck \/ PollLast \/ PollLoad \/ PollFail \/ PollSynchorize

Next == Store \/ QueryUpdated \/ QueryConfig \/ QueryReply \/ Poll

Spec == Init /\ [][Next]_vars

(* The supervisor polls for ever, and a network that can be set down and    *)
(* brought up again and again is in the end.                                *)
Fairness == WF_vars(Poll) /\ SF_vars(PollSynchorize)

FairSpec == Spec /\ Fairness

-----------------------------------------------------------------------------
TypeOK ==
  /\ obj \in [prev : Versioned, next : Versioned \cup {NoNext}]
  /\ config \in Versioned /\ answer \in Versioned
  /\ spc \in {"sleep", "last", "load", "apply"}
  /\ qpc \in {"idle", "config", "reply"}
  /\ updated \in BOOLEAN

(* The pending configuration is newer than the one applied, and what the    *)
(* poll works on lies between them; equal versions are equal writes.        *)
Versions ==
  /\ Pending(obj) => obj.prev.n < obj.next.n
  /\ spc \in {"load", "apply"} => Pending(obj)
  /\ spc = "apply" => obj.prev.n < config.n /\ config.n <= obj.next.n
  /\ spc = "apply" /\ config.n = obj.next.n => config = obj.next

(* A query that saw the object synchronized answers with the configuration  *)
(* that is applied, although it read the two in separate steps with the     *)
(* supervisor running between them: status 2, "joined + updated", is never  *)
(* said of a configuration that was not brought up.                         *)
UpdatedMeansApplied == qpc = "reply" /\ updated => answer = obj.prev

(* While a query is under way nothing is stored: the worker does both. *)
QueryStable == qpc \in {"config", "reply"} /\ updated => ~Pending(obj)

IInv == TypeOK /\ Versions /\ UpdatedMeansApplied /\ QueryStable

(* The object keeps the promise of LatestConfig. *)
Latest == INSTANCE LatestConfig WITH
  latest <- Load(obj), applied <- obj.prev, taken <- config,
  busy <- spc = "apply", said <- updated

LatestSpec == Latest!Spec

(* Every configuration stored, or a later one, is applied in the end. *)
EveryWriteApplied ==
  \A n \in 1 .. MaxStores : Load(obj).n >= n ~> obj.prev.n >= n
=============================================================================
