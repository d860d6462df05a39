SPECIFICATION Spec
CONSTANTS
  World = 2
  Window = 1
  MaxRounds = 2
  MaxStep = 2
  MaxCrashes = 2
  MaxLate = 1
PROPERTIES
  ResumesAtLowestCheckpoint
