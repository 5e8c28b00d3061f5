\* A document larger than the pool.  The UI thread measures pages while the executor
\* thread decodes, preloads and frees.
SPECIFICATION Spec
CONSTANTS
  NumPages = 3
  PoolSize = 2
  MaxHandles = 4
INVARIANTS
  PoolConsistent
  OpenPagesBounded
  QueueBounded
  PagesAreFreedFirst
PROPERTIES
  InHandClosedOnlyByEviction
\* Two of the invariants are stated until two calls of getPage overlap.
CONSTRAINT FewerWhenRaced
\* The executor has nothing left to run after recycle(), and handles are bounded.
CHECK_DEADLOCK FALSE
