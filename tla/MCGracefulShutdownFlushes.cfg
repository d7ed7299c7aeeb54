SPECIFICATION Spec
CONSTANTS
  Events = {e1, e2}
  Poison = {}
  QueueCapacity = 2
  BatchSize = 2
  MaxCapacity = 50000
  FlushPeriods = {3000}
  e1 = e1
  e2 = e2
PROPERTY GracefulShutdownFlushes
