SPECIFICATION Spec
CONSTANTS
  Servers = {"s1", "s2"}
  Faults = {}
  MaxClients = 2
  NoNext = NoNext
  WifiConfigs = {"ap"}
  MqttConfigs = {"s1", "s2"}
  MaxWifiStores = 1
  MaxMqttStores = 2
INVARIANT OldServerLeft
CHECK_DEADLOCK FALSE
