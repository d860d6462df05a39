SPECIFICATION Spec
CONSTANTS
  World = 2
  Window = 1
  MaxRounds = 1
  MaxStep = 3
  MaxCrashes = 2
  MaxLate = 1
INVARIANTS
  IInv
  Lockstep
  TrainsAsMember
  RetryIsAnswerable
  PendingIsNext
PROPERTIES
  CheckpointsHold
