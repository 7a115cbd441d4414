SPECIFICATION PartsSpec
CONSTANTS
  Sensors <- MCSensors
  Boards <- MCBoards
  PortRing = 4
  PortLineSize = 1
  ReplySizes <- MCReplySizes
  PortLoads <- MCPortLoads
  SerialRing = 4
  Chunk = 2
  SerialLineSize = 2
  SendSizes <- MCSendSizes
  SerialLoads <- MCSerialLoads
  RingSize = 8
  MessageSizes <- MCMessageSizes
  MaxMessages = 4
  NumConfig = 4
  MaxInvokes = 3
  Nobody = Nobody
INVARIANTS
  HeldPicture
  NoVainWait
  OneLine
  HostServed
  InOrder
  LineIsMessage
  IteratorValid
  NeverReplaces
PROPERTIES
  CameraImplemented
  AllSent
  RegistrationEnds
CHECK_DEADLOCK FALSE
