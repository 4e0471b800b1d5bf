CONSTANTS
  MaxWorkers = 3
  MaxRestarts = 1
  MaxKills = 1
  MaxWakes = 1
  MaxStops = 1
  MaxDrops = 1
  MaxCuts = 1
  Unstartable = TRUE
SPECIFICATION Spec
CHECK_DEADLOCK FALSE
INVARIANTS SpawnerTypeOK BornInOrder RegisteredFrames Tracked OneWorker KillHolds SweepsOlder
