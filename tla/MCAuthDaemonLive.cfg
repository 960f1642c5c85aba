CONSTANTS
  Clients = {c1, c2}
  Duration = 1
  ClockMax = 1
  MaxFrames = 1
  MaxProgress = 1
  MaxDrain = 1
  Idle = Idle
  Nobody = Nobody
SPECIFICATION FairSpec
PROPERTIES
  NothingIsKept
  StartedIsAnswered
  ShutdownCompletes
CHECK_DEADLOCK FALSE
