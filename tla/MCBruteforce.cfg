\* Release build: one key, two concurrent calls beside the cleanup, threshold two.
\* The window is longer than what the TTL leaves of it, which is one tick.
SPECIFICATION FairSpec
CONSTANTS
  t1 = t1
  t2 = t2
  k1 = k1
  Threads = {t1, t2}
  Keys = {k1}
  Sources = {}
  Ports = {}
  AuthMaxAttempts = 2
  AuthWindow = 2
  PortScanMaxPorts = 2
  PortScanWindow = 1
  AuthCooldown = 1
  ScanCooldown = 1
  StateTTL = 3
  MaxDuration = 9
  U16 = 4
  U32 = 16
  Usize = 16
  OverflowChecks = FALSE
  MaxStall = 1
  MaxTime = 5
  MaxHits = 5
INVARIANTS CountIsTruthful CooldownHolds BurstIsNoticed
PROPERTIES EntryMovesForward ExpiredStateIsRemoved
