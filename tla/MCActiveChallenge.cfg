SPECIFICATION ChallengeSpec
CONSTANTS
  MaxSkew = 1
  ChallengeDuration = 5
  MaxObservations = 5
  ActionObservations = 2
  MinimumActionDuration = 2
  RecoveryObservations = 2
  MaxStreak = 2
  NoChallenge = NoChallenge
  NoTime = NoTime
  NoFrames = NoFrames
  Horizon = 7
  MaxSequence = 1
  MaxFaces = 2
  Issues <- MCIssues
  Observations <- MCObservations
CHECK_DEADLOCK FALSE
INVARIANTS
  PhaseIsEarned
  EvidenceIsFresh
