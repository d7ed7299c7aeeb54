\* One of two streams may break; the events fill every buffer on the way.
SPECIFICATION PipelineFairSpec
CONSTANTS
  Calls = {1, 2}
  Requests = {0}
  Events = {0, 1, 2, 3}
  Names = {us, them}
  Us = us
  Them = them
  us = us
  them = them
  BufferMemory = 2
  QueueCapacity = 1
  BatchSize = 2
  StreamCapacity = 1
  Window = 1
  MaxBackoff = 1
  MaxBeside = 1
  MaxEvents = 3
  MaxStreams = 2
  MaxRefusals = 0
INVARIANTS TypeOK CertifiedOnly SummaryAddsUp InSessionOrder
PROPERTIES ImplementsAtMostOnce IsAControlPlane EveryEventReachesAnEnd
CHECK_DEADLOCK FALSE
