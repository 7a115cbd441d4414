SPECIFICATION Spec
CONSTANTS
  a1 = a1  n1 = n1  n2 = n2
  Models = {1, 2, 3}
  Broken = {3}
  Options = {0, 1}
  Algorithms = {1}
  Actions = {a1}
  NoAction = NoAction
  Networks = {n1, n2}
  Unknown = Unknown
  None = None  Old = Old  Current = Current
  Pipelined = FALSE
  MaxBoots = 3
  MaxCommands = 2
INVARIANTS OnlyUsableStored SettingsSurvive SettingsInUse OldLoadedOnlyIfTorn
CHECK_DEADLOCK FALSE
