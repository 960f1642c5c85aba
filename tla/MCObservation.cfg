SPECIFICATION Spec
CONSTANTS
  MaxSkew = 1
  ChallengeDuration = 4
  MaxObservations = 4
  ActionObservations = 1
  MinimumActionDuration = 1
  RecoveryObservations = 1
  MaxStreak = 3
  NoChallenge = NoChallenge
  NoTime = NoTime
  NoFrames = NoFrames
  EnrollmentDuration = 9
  MinimumSamples = 2
  MaximumSamples = 3
  SampleInterval = 2
  YawSpan = 1
  NoSample = NoSample
  InvalidYaw = InvalidYaw
  PairSkew = 1
  MaxReplacements = 1
  MaxDerived = 3
  MaxProgress = 9
  SequenceSpan = 3
  InfraredSteps <- MCInfraredSteps
  VisibleSteps <- MCVisibleSteps
  Embeddings = {0, 1, 2}
  Yaws = {0, 1}
  Horizon = 11
  NoPair = NoPair
CHECK_DEADLOCK FALSE
INVARIANTS
  TemplateIsEarned
