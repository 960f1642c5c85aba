CONSTANTS
  u1 = u1
  Uids = {u1}
  Senders = {s1, s2}
  UidOf <- SameAccount
  Duration = 1
  ClockMax = 1
  MaxOperations = 2
  MaxEvents = 2
  MaxProgress = 1
  Idle = Idle
  Authentication = Authentication
  NoOwner = NoOwner
SPECIFICATION Spec
PROPERTY LateTerminalCleansUp
CHECK_DEADLOCK FALSE
