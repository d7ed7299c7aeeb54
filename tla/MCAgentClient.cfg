\* Two streams may end; one batch and a full stream fit into four events.
SPECIFICATION FairSpec
CONSTANTS
  QueueCapacity = 1
  BatchSize = 2
  StreamCapacity = 1
  Window = 1
  MaxBackoff = 3
  MaxEvents = 5
  MaxStreams = 3
  MaxRefusals = 4
INVARIANTS TypeOK InOrder LossIsBounded ConnectBackoffGrows
PROPERTIES EveryEventSettles BrokenStreamIsReplaced
CHECK_DEADLOCK FALSE
