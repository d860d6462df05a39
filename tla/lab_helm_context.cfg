SPECIFICATION MCSpec
CONSTANTS
  Terminals = {t1, t2}
  Commands <- AllCommands
  Images = {i1, i2}
  NoImage = NoImage
  None = None
  Kills = TRUE
  MaxCommands = 4
  MaxFaults = 2
  MaxPath = 3
  MaxEdits = 3
  MaxSamples = 4
INVARIANT
  OnlyTheLab
CHECK_DEADLOCK FALSE
