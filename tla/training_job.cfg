SPECIFICATION MCSpec
CONSTANTS
  World = 2
  Clients = {c1, c2}
  MaxOps = 3
  MaxFaults = 1
  Templates <- NewImageThenFewer
  MaxCrashes = 2
INVARIANTS
  GenerationIdentifiesControl
  SessionIsWhole
PROPERTIES
  SyncAlonePreservesFaults
  InjectedCrashHappens
  CrashesEnd
  TrainsOn
  RolloutCompletes
  TrainingResumes
CHECK_DEADLOCK FALSE
