SPECIFICATION Spec
CONSTANTS
  a = a  b = b
  Actions = {a, b}
  Calls <- MCCalls
  Hash <- MCHash
  NoAction = NoAction
  MaxLoops = 3
  MaxCommands = 3
INVARIANTS NoDanglingBinding UnboundOnlyAfterReturn ExportsThisFrame StreamLeftOnlyByError StartsAvailableSensor
\* All commands may be used up and every loop ended.
CHECK_DEADLOCK FALSE
