SPECIFICATION LoginSpec
CONSTANTS
  Connections = {p1, p2}
  Transactions = {p1, p2}
  Duration = 1
  ClockMax = 1
  MaxStarts = 2
  Idle = Idle
  Root = Root
  User = User
  MaxRules = 64
  MaxExecutables = 32
  Gone = Gone
  Pids = {n1, n2}
  Programs <- MCPrograms
  Rules <- MCRules
  MaxResponses = 2
  MaxProgress = 1
  MaxConnections = 2
  MaxFailures = 2
  Operations = {o1}
  Results = {"Failed"}
  Unborn = Unborn
  Nobody = Nobody
CHECK_DEADLOCK FALSE
INVARIANTS
  TokenFollowsSlot
  AcceptedIsDecided
  EvidenceIsOfPeer
PROPERTIES
  DeadlineDecides
  ImplementsOneShot
  ScreenKeepsFlow
  PamReturns
