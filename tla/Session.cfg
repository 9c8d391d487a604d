SPECIFICATION SessionSpec
CONSTANTS
  Callers = {c1, c2}
  None = None
  MaxSessions = 3
INVARIANT SessionTypeOK
INVARIANT ConnectedMeansUsable
INVARIANT ExclusiveUnlessRaced
PROPERTY RetryUsesNewSessionUnlessRaced
PROPERTY ImplementsGatewayCall
PROPERTY SendCountsDown
PROPERTY SendReturns
