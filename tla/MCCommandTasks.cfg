SPECIFICATION Spec
CONSTANTS
  NoTask = NoTask
  DefaultScore = 0
  FirstStored <- MCFirstStored
  MaxTickets = 3
  MaxQueries = 1
  Times <- MCTimes
  Score <- MCScore
INVARIANTS
  OnlyLatestSpeaks
  StopIsScoped
  RegistryFollowsLoops
  LoopLife
