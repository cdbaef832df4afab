SPECIFICATION Spec
CONSTANTS
  Tiles <- MCTiles
  MaxFaults = 3
  MaxRestores = 2
  NoBackup = NoBackup
INVARIANTS TypeOK StepTwoMeansAll AppOnlyOnMoved RefusedOnlyUnknown
PROPERTIES EventuallyServes
