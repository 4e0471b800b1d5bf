\* NeverTwice; FilesNeverLost, as PROPERTY, is violated here too, also with
\* MaxKills = MaxStops = MaxCuts = 0.
CONSTANTS
  MaxWorkers = 3
  MaxRestarts = 1
  MaxKills = 1
  MaxWakes = 1
  MaxStops = 1
  MaxDrops = 1
  MaxCuts = 1
  Unstartable = FALSE
SPECIFICATION FairSpec
CHECK_DEADLOCK FALSE
INVARIANT NeverTwice
