SPECIFICATION MCSpec
CONSTANTS
  Messages = {m1}
  Requests = {q1}
  RecipientCount = 2
  MaxSends = 2
  MaxProviders = 3
  Half = 4
  HandlerLists <- ConfiguredHandlers
INVARIANT TypeOK
INVARIANT CompleteLog
INVARIANT LinesFollowHeader
INVARIANT WritersHoldTheFile
INVARIANT LogReaderExact
INVARIANT SmsReaderExact
INVARIANT QueueReaderExact
INVARIANT ToIntSeparates
PROPERTY FinalUnlessResent
PROPERTY ImplementsRecipientLog
