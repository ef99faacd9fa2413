CONSTANTS
  MaxTrials = 2
  Windows = {2}
  MaxFaults = 1
  Owners <- TwoOwners
  PortSet = {1, 2, 3}
  MaxEdits = 2
  MaxForeign = 3
SPECIFICATION NetworkSpec
INVARIANT RevertPending
PROPERTY HumanWins
PROPERTY TrialEnds
INVARIANT UniqueOwners
PROPERTY Settles
CHECK_DEADLOCK FALSE
