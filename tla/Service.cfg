SPECIFICATION ServiceSpec
CONSTANTS
  Workers = {w1, w2}
  Messages = {m1, m2}
  None = None
  MaxCrashes = 1
INVARIANT ServiceTypeOK
INVARIANT RemovedMeansForwardedAndLogged
INVARIANT SendsBoundedByCrashes
INVARIANT OnlyBusyWorkersLock
PROPERTY ImplementsAtLeastOnce
PROPERTY ReceivedUntilCommitted
PROPERTY PoisonKeepsQueue
PROPERTY QueueDrains
\* A Suspend after a Terminate never returns, see DequeueSynchronizer.
CHECK_DEADLOCK FALSE
