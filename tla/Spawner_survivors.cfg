CONSTANTS
  MaxWorkers = 2
  MaxRestarts = 0
  MaxKills = 0
  MaxWakes = 1
  MaxStops = 1
  MaxDrops = 1
  MaxCuts = 0
  Unstartable = FALSE
SPECIFICATION FairSpec
CHECK_DEADLOCK FALSE
PROPERTY SurvivorsAdopted
