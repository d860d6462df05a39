SPECIFICATION Spec
CONSTANTS
  World = 2
  Clients = {c1, c2}
  MaxOps = 3
  MaxFaults = 0
PROPERTY SyncPreservesFaults
CHECK_DEADLOCK FALSE
