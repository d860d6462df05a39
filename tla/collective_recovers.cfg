SPECIFICATION FairSpec
CONSTANTS
  World = 2
  Window = 1
  MaxRounds = 2
  MaxStep = 2
  MaxCrashes = 1
  MaxLate = 1
PROPERTIES
  ImplementsBarrier
  Recovers
