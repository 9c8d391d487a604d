SPECIFICATION Spec
CONSTANTS
  Messages = {m1}
  MaxSends = 3
  MaxDeliveries = 2
INVARIANT TypeOK
INVARIANT OneWayToTheGateway
INVARIANT ResentOnlyAfterException
INVARIANT FrozenMeansLogged
PROPERTY FrozenForGood
PROPERTY ImplementsSubmitOnce
