SPECIFICATION FairSpec
CONSTANTS
  Servers = {"s1", "s2"}
  Faults = {}
  MaxClients = 1
  NoNext = NoNext
  WifiConfigs = {"off", "ap"}
  MqttConfigs = {}
  MaxWifiStores = 2
  MaxMqttStores = 0
PROPERTIES SupervisorPolls
CHECK_DEADLOCK FALSE
