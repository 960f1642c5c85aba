SPECIFICATION StartSpec
CONSTANTS
  Callers = {c1, c2}
  Providers = {"sealed", "file"}
  MaxKeys = 2
  MaxLoads = 2
  MaxLosses = 1
  None = None
  Root = Root
  Other = Other
  MaxRules = 64
  MaxExecutables = 32
  Gone = Gone
  Suite <- MCSuite
  Unset = Unset
  MaxLength = 1
  Installations <- MCInstallations
  MaxReplacements = 1
  Inodes = {i1, i2}
SYMMETRY Alike
CHECK_DEADLOCK FALSE
INVARIANTS
  BuiltAsCalibrated
  CamerasFitModality
  ServingIsReachable
  StartLeavesNothing
PROPERTIES
  SettledKeyStands
  DaemonDrawsNoKey
