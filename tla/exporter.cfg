SPECIFICATION MCSpec
CONSTANTS
  Nodes <- OneNode
  Readers = {r1, r2}
  GPUs = 2
  Docs <- AllDocs
  MaxTime = 4
  MaxPuts = 2
  MaxCrashes = 1
INVARIANTS ShownByTheClock ModelIsOneView
PROPERTIES FollowsAccepted AcceptedIsSound
CHECK_DEADLOCK FALSE
