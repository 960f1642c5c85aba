SPECIFICATION FairSpec
CONSTANTS
  Callers = {c1, c2}
  Records = {r1, r2}
  Nothing = Nothing
  Nobody = Nobody
  MaxGeneration = 2
  MaxCalls = 2
  MaxLosses = 1
CHECK_DEADLOCK FALSE
INVARIANTS
  AcknowledgedLasts
PROPERTIES
  ImplementsVersionedTemplate
  EveryCallReturns
