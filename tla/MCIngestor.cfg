\* Four events, one of them poison, a channel of two slots, so that a handler
\* waits, batches of two, a timer that works and one whose zero period kills the
\* worker.
SPECIFICATION FairSpec
CONSTANTS
  Events = {e1, e2, e3, bad}
  Poison = {bad}
  QueueCapacity = 2
  BatchSize = 2
  MaxCapacity = 50000
  FlushPeriods = {0, 3000}
  e1 = e1
  e2 = e2
  e3 = e3
  bad = bad
INVARIANTS TypeOK RowsMatch HeldOnce BlastRadius BoundedMemory
PROPERTIES SettledForever ImplementsSink EventuallySettled SubmitReturns WorkerEnds
