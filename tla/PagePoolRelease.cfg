\* The UI thread measures pages while the executor thread decodes.
SPECIFICATION Spec
CONSTANTS
  NumPages = 3
  PoolSize = 2
  MaxHandles = 4
INVARIANTS
  NativeCallOnOpenPage
\* The executor has nothing left to run after recycle(), and handles are bounded.
CHECK_DEADLOCK FALSE
