SPECIFICATION FairSpec
CONSTANTS
  Servers = {"s1", "s2"}
  Faults = {}
  MaxClients = 2
  NoNext = NoNext
  WifiConfigs = {"ap"}
  MqttConfigs = {"off", "s1", "s2"}
  MaxWifiStores = 1
  MaxMqttStores = 4
INVARIANTS OneClientAtServer UpdatedMeansAtServer
PROPERTIES SupervisorPolls MqttApplied
CHECK_DEADLOCK FALSE
