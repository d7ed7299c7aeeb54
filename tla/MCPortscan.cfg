\* One source, two concurrent calls, threshold two: up to four hits, as many as
\* EnoughPorts asks for.  Port 4 is port 0 in 16 bits.
SPECIFICATION Spec
CONSTANTS
  t1 = t1
  t2 = t2
  s1 = s1
  Threads = {t1, t2}
  Keys = {}
  Sources = {s1}
  Ports = {1, 2, 3, 4}
  AuthMaxAttempts = 2
  AuthWindow = 1
  PortScanMaxPorts = 2
  PortScanWindow = 1
  AuthCooldown = 1
  ScanCooldown = 1
  StateTTL = 3
  MaxDuration = 9
  U16 = 4
  U32 = 16
  Usize = 16
  OverflowChecks = FALSE
  MaxStall = 1
  MaxTime = 3
  MaxHits = 3
SYMMETRY Interchangeable
INVARIANTS TypeOK PortsAreTruthful CooldownHolds ScanIsNoticed
