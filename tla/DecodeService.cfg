\* Two nodes, three requests: a node can be superseded while the other waits.
SPECIFICATION FairSpec
CONSTANTS
  n1 = n1
  n2 = n2
  p1 = p1
  Node = {n1, n2}
  Page = {p1}
  NoNode = NoNode
  PageOf <- MCPageOf
  MaxTasks = 3
INVARIANTS
  NoLostRequest
  QueuedIsReachable
  DocumentOutlivesTasks
  NodesKeepThePromise
PROPERTIES
  NoSubmitAfterShutdown
  ImplementsContract
  EveryTaskSettles
  ProgressEnds
  DocumentIsFreed
\* The UI may stop issuing calls, and the number of tasks is bounded.
CHECK_DEADLOCK FALSE
