CONSTANTS
  Clients = {c1, c2}
  Duration = 1
  ClockMax = 2
  MaxFrames = 2
  MaxProgress = 1
  MaxDrain = 2
  Idle = Idle
  Nobody = Nobody
SPECIFICATION Spec
INVARIANTS
  ResponseOrder
  PipelineExclusive
  OrphanIsCancelled
PROPERTIES
  AcceptanceIsEarned
SYMMETRY Symmetry
CHECK_DEADLOCK FALSE
