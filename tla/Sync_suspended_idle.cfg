SPECIFICATION Spec
CONSTANT Workers = {w1, w2}
SYMMETRY WorkerSymmetry
INVARIANT SuspendedMeansIdle
CHECK_DEADLOCK FALSE
