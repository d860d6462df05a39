SPECIFICATION MCSpec
CONSTANTS
  MaxPods = 2
  MaxEvents = 2
  MaxErrors = 1
  Exporters = {"e1"}
  Ranks = {"r1"}
  Documents = {"ok", "bad"}
  NormalDocuments = {"ok"}
  Struck = {"e1"}
  Lookback = 2
  Lag = 1
  Old = 7
  Settled = 1
  MaxChanges = 1
  MaxFaults = 1
  MaxTrouble = 1
  Budget = 2
  Window = 1
  Outer = 4
  MaxAge = 1
  LongBudget = 4
  LongWindow = 4
  LongOuter = 8
  LongOld = 11
  HealthyChanges = 2
  HealthyFaults = 0
  HealthyTrouble = 0
  Fleet = {"e1", "e2"}
  Applications = {"normal", "first", "second"}
  NormalApplications = {"normal"}
  Deadline = 5
  OldSample = 3
  LongApplied = 7
  Duration = 5
  MaxApplications = 2
  Timeline = TRUE
  PhaseLength = 2
  LastPhase = 1
  Timeout = 5
  FreshAge = 1
INVARIANTS
  NoOldRecovery NoLateReport TimelineIsOne GoodLabsPass EventOfCurrentPod
CHECK_DEADLOCK FALSE
