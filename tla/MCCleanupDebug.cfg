\* Debug build: a key and a source, one call at a time beside the cleanup.
SPECIFICATION FairSpec
CONSTANTS
  t1 = t1
  k1 = k1
  s1 = s1
  Threads = {t1}
  Keys = {k1}
  Sources = {s1}
  Ports = {1}
  AuthMaxAttempts = 2
  AuthWindow = 1
  PortScanMaxPorts = 2
  PortScanWindow = 1
  AuthCooldown = 1
  ScanCooldown = 1
  StateTTL = 3
  MaxDuration = 9
  U16 = 4
  U32 = 16
  Usize = 16
  OverflowChecks = TRUE
  MaxStall = 1
  MaxTime = 5
  MaxHits = 2
PROPERTIES ExpiredStateIsRemoved
