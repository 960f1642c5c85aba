SPECIFICATION Spec
CONSTANTS
  One = 4
  NaN = NaN
  Absent = Absent
  MaxDimension = 6
  MaxOutputs = 4
  MaxRank = 4
  MaxElements = 60
  MaxCandidates = 3
  MinLandmarks = 3
  MaxLandmarks = 4
  AlignmentPoints = 3
  EmbeddingSizes = {2}
  MaxSource = 8
  MaxModelBytes = 3
  MaxRunTime = 2
  MaxPixels = 32
  MaxSide = 8
  LumaLevels = 16
  Deployments <- MCDeployments
  Pairs <- MCPairs
  Returned <- MCReturned
  NoRun = NoRun
CHECK_DEADLOCK FALSE
INVARIANTS
  AdmittedOutputsRead
  SecondFaceIsSeen
  SamplesAreSound
  AlignedFaceFits
  QualityIsConservative
  CancelStopsInference
  AcceptanceIsEvidenced
PROPERTIES
  PairEnds
