SPECIFICATION Spec
CONSTANTS
  World = 2
  Clients = {c1}
  MaxOps = 3
  MaxFaults = 0
PROPERTY CrashIsOneShot
CHECK_DEADLOCK FALSE
