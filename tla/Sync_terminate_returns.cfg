SPECIFICATION Spec
CONSTANT Workers = {w1}
PROPERTY TerminateAlwaysReturns
CHECK_DEADLOCK FALSE
