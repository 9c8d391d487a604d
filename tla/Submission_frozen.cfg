SPECIFICATION Spec
CONSTANTS
  Messages = {m1, m2}
  MaxSends = 2
  MaxDeliveries = 1
SYMMETRY MessageSymmetry
INVARIANT FrozenAfterSending
