SPECIFICATION Spec
CONSTANTS
  Servers = {"s1", "s2"}
  Faults = {"signal", "server", "timeout"}
  MaxClients = 2
  NoNext = NoNext
  WifiConfigs = {"off", "ap"}
  MqttConfigs = {"off", "s1", "s2"}
  MaxWifiStores = 2
  MaxMqttStores = 2
PROPERTIES ReportedMeansDone
CHECK_DEADLOCK FALSE
