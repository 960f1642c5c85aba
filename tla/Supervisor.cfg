CONSTANTS
  Services = {s1, s2, s3}
  Waiting = {s2, s3}
  Cooperative = {s2, s3}
  Grace = 2
  Main = Main
  Nobody = Nobody
SPECIFICATION FairSpec
PROPERTIES
  ShutdownSpreads
CHECK_DEADLOCK FALSE
