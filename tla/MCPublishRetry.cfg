\* One event, one stream that may break: no more is needed.
SPECIFICATION PipelineFairSpec
CONSTANTS
  Calls = {1, 2}
  Requests = {0}
  Events = {0, 1}
  Names = {us, them}
  Us = us
  Them = them
  us = us
  them = them
  BufferMemory = 1
  QueueCapacity = 1
  BatchSize = 2
  StreamCapacity = 1
  Window = 1
  MaxBackoff = 1
  MaxBeside = 0
  MaxEvents = 1
  MaxStreams = 2
  MaxRefusals = 0
PROPERTIES FailedPublishIsRetried
CHECK_DEADLOCK FALSE
