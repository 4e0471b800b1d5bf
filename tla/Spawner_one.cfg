CONSTANTS
  MaxWorkers = 3
  MaxRestarts = 1
  MaxKills = 1
  MaxWakes = 1
  MaxStops = 1
  MaxDrops = 1
  MaxCuts = 1
  Unstartable = FALSE
SPECIFICATION DaemonFairSpec
CHECK_DEADLOCK FALSE
INVARIANTS SpawnerTypeOK OneWorker
PROPERTIES KilledStaysDead FilesKept FilesGo
