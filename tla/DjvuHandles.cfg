\* Two pages, which the pool may lose, evict and free in any order.
SPECIFICATION Spec
CONSTANTS
  Page = {p1, p2}
INVARIANTS
  OwnedByItsWrapper
  MessagesNameOwnedJobs
\* In the end there is nothing left to free.
CHECK_DEADLOCK FALSE
