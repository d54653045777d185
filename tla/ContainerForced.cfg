SPECIFICATION Spec
CONSTANTS
  zookeeper = zookeeper
  broker = broker
  registry = registry
  None = None
  Order <- MCOrder
  Endpoints <- MCEndpoints
  RetrySpecs <- MCRetrySpecs
  Durations = {0, 1}
  MaxCalls = 2
CHECK_DEADLOCK FALSE
PROPERTY ForciblyClosed
