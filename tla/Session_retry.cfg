SPECIFICATION SessionSafetySpec
CONSTANTS
  Callers = {c1, c2}
  None = None
  MaxSessions = 3
SYMMETRY CallerSymmetry
PROPERTY RetryUsesNewSession
