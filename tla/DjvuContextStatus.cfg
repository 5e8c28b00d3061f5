\* Every outcome of the native open, and up to three messages in the queue.
SPECIFICATION ContextSpec
CONSTANTS
  MaxMessages = 3
INVARIANTS
  OpenedDocumentIsDecoded
\* All threads come to rest once the context is freed.
CHECK_DEADLOCK FALSE
