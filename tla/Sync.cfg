SPECIFICATION Spec
CONSTANT Workers = {w1, w2, w3}
INVARIANT TypeOK
INVARIANT CounterAgrees
INVARIANT WaitsAreForSomebody
PROPERTY ImplementsGate
PROPERTY WaitsCountDown
PROPERTY StartReturns
PROPERTY SuspendReturns
PROPERTY TerminateReturns
\* A Suspend after a Terminate never returns, see WaitsAreForSomebody.
CHECK_DEADLOCK FALSE
