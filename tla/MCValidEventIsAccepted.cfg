\* Three requests, one address and one actor, hours of three ticks.
SPECIFICATION Spec
CONSTANTS
  Events = {e1, e2, e3}
  Addresses = {ip}
  Actors = {a1}
  AuthCooldown = 1
  ScanCooldown = 2
  HourLength = 3
  MaxGroup = 2
  FlushPeriods = {3000}
  BatchSizes = {2}
  MaxCapacity = 50000
  MaxStall = 1
  MaxTime = 4
  e1 = e1
  e2 = e2
  e3 = e3
  ip = ip
  a1 = a1
SYMMETRY Interchangeable
INVARIANT ValidEventIsAccepted
