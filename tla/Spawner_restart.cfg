CONSTANTS
  MaxWorkers = 2
  MaxRestarts = 1
  MaxKills = 0
  MaxWakes = 0
  MaxStops = 1
  MaxDrops = 0
  MaxCuts = 0
  Unstartable = FALSE
SPECIFICATION FairSpec
CHECK_DEADLOCK FALSE
PROPERTY RestartHeard
