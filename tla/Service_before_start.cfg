SPECIFICATION ServiceSpec
CONSTANTS
  Workers = {w1, w2}
  Messages = {m1}
  None = None
  MaxCrashes = 1
\* A Suspend after a Terminate never returns, see DequeueSynchronizer.
CHECK_DEADLOCK FALSE
INVARIANT NotEmptyBeforeStart
