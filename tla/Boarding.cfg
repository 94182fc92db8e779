SPECIFICATION FairSpec
CONSTANTS
  Networks = {home, office}
  Usable = {home}
  MaxPolls = 4
  MaxBlinks = 3
  MaxCuts = 1
INVARIANTS NoMixture FinishedHasNetwork
PROPERTIES BoardingEnds
CHECK_DEADLOCK FALSE
