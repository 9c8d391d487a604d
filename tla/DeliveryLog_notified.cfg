SPECIFICATION MCSpec
CONSTANTS
  Messages = {m1}
  Requests = {q1}
  RecipientCount = 1
  MaxSends = 1
  MaxProviders = 2
  Half = 2
  HandlerLists <- ConfiguredHandlers
PROPERTY DeliverySetsStatus
