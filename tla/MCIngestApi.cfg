\* Three requests, one address with two actors, hours of three ticks; a batch
\* size and a timer that work, and ones that kill the worker.
SPECIFICATION Spec
CONSTANTS
  Events = {e1, e2, e3}
  Addresses = {ip}
  Actors = {a1, a2}
  AuthCooldown = 1
  ScanCooldown = 2
  HourLength = 3
  MaxGroup = 2
  FlushPeriods = {0, 3000}
  BatchSizes = {2, 70000}
  MaxCapacity = 50000
  MaxStall = 1
  MaxTime = 4
  e1 = e1
  e2 = e2
  e3 = e3
  ip = ip
  a1 = a1
  a2 = a2
SYMMETRY Interchangeable
INVARIANTS TypeOK AnswerIsHonest AlarmIsRecorded AlertHasItsEvent
