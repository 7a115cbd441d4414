---------------------------- MODULE MCInterrupts ----------------------------
(***************************************************************************)
(* Five components in which an interrupt, a task of the network client or  *)
(* the executor's worker meets another task: they share no state, so a     *)
(* behaviour is one of one of them (part says of which) and the others     *)
(* stay in their initial states.                                           *)
(***************************************************************************)
EXTENDS SensorWE2, SlavePort, SerialWE2, MqttBuffer, ServerLocks

VARIABLE part

MCSensors == {"ov5647", "imx219", "imx708"}
MCBoards  == {"watcher", "grove"}

\* The lengths of the rings and the loads bound what is sent and received: enough to
\* fill a ring, wrap it, and cut or drop a line.
MCReplySizes == {1, 2}
MCPortLoads ==
  {[replies |-> 3, writes |-> 0], [replies |-> 1, writes |-> 2], [replies |-> 0, writes |-> 4]}

MCSendSizes == {1, 4}
MCSerialLoads ==
  {[sends |-> 3, received |-> 0], [sends |-> 1, received |-> 2], [sends |-> 0, received |-> 6]}

MCMessageSizes == {1, 2, 3, 5, 8}

\* The parts that are not part of a behaviour take one initial state each.
Parts == {"sensor", "port", "serial", "mqtt", "server"}
PartsInit ==
  /\ part \in Parts
  /\ Init /\ PortInit /\ SerialInit /\ MqttInit /\ ServerInit
  /\ part # "sensor" => sensor = None /\ ~chipC /\ board = "grove"
  /\ part # "port" => bus = "spi" /\ portLoad.writes = 4
  /\ part # "serial" => serialLoad.received = 6 /\ ~zeroEnds

rings == <<portVars, serialVars, mqttVars>>

PartsNext ==
  /\ UNCHANGED part
  /\ \/ part = "sensor" /\ Next /\ UNCHANGED <<rings, serverVars>>
     \/ part = "port" /\ PortNext /\ UNCHANGED <<vars, serialVars, mqttVars, serverVars>>
     \/ part = "serial" /\ SerialNext /\ UNCHANGED <<vars, portVars, mqttVars, serverVars>>
     \/ part = "mqtt" /\ MqttNext /\ UNCHANGED <<vars, portVars, serialVars, serverVars>>
     \/ part = "server" /\ ServerNext /\ UNCHANGED <<vars, rings>>

\* The fairness of a part asks nothing of the others: in its initial state no fair step of
\* the serial ports or of the registry can be taken.
PartsSpec ==
  /\ PartsInit /\ [][PartsNext]_<<part, vars, rings, serverVars>>
  /\ SerialFairness /\ ServerFairness

\* What the theorems about the three rings assume of their sizes.
ASSUME SizesAssumption == PortSizes /\ SerialSizes /\ MqttSizes
=============================================================================
