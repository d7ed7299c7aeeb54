\* A server that ends every stream before a message arrives.
SPECIFICATION Spec
CONSTANTS
  QueueCapacity = 1
  BatchSize = 2
  StreamCapacity = 1
  Window = 1
  MaxBackoff = 60
  MaxEvents = 3
  MaxStreams = 3
  MaxRefusals = 2
INVARIANT BackoffOnAnyFailure
CHECK_DEADLOCK FALSE
