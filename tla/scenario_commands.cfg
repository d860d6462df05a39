SPECIFICATION MCSpec
CONSTANTS
  Terminals = {t1}
  Scenarios = {"normal", "mismatch", "fragmentation", "failure", "down"}
  Normal = "normal"
  Actions <- AllActions
  FabricFaults = {"down"}
  Nodes = {"node1", "node2"}
  Anywhere = Anywhere
  Capacity = 8
  MaxCommands = 4
  MaxTrouble = 2
  MaxJobs = 1
  MaxEdits = 3
  MaxWritten = 2
INVARIANTS
  PodsOfConfigMap
  AppliedIsWhole
  VerdictStays
  FaultEndsWithScenario
PROPERTIES
  CommandsSucceed
  ControlDocumentHolds
CHECK_DEADLOCK FALSE
