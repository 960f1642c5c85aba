CONSTANTS
  u1 = u1
  Uids = {u1}
  Senders = {s1}
  UidOf <- SameAccount
  Duration = 1
  ClockMax = 1
  MaxOperations = 1
  MaxEvents = 2
  MaxProgress = 1
  Idle = Idle
  Authentication = Authentication
  NoOwner = NoOwner
SPECIFICATION FairSpec
PROPERTIES
  LeaseReturns
  OperationIsDecided
CHECK_DEADLOCK FALSE
