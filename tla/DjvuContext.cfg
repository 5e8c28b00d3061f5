\* Every outcome of the native open, and up to three messages in the queue.
SPECIFICATION ContextFairSpec
CONSTANTS
  MaxMessages = 3
INVARIANTS
  PumpUsesLiveContext
PROPERTIES
  OpenReturns
  PumpStops
\* All threads come to rest once the context is freed.
CHECK_DEADLOCK FALSE
