CONSTANTS
  MaxWorkers = 3
  MaxRestarts = 1
  MaxKills = 0
  MaxWakes = 1
  MaxStops = 1
  MaxDrops = 1
  MaxCuts = 1
  Unstartable = TRUE
SPECIFICATION FairSpec
CHECK_DEADLOCK FALSE
PROPERTY FilesGo
