SPECIFICATION FairSpec
CONSTANTS
  NoTask = NoTask
  DefaultScore = 0
  FirstStored <- MCOneScore
  MaxTickets = 3
  MaxQueries = 0
  Times <- MCTimes
  Score <- MCOneScore
PROPERTIES
  EveryCommandAnswered
  LoopsEnd
