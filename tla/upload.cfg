SPECIFICATION Spec
CONSTANTS
  RawNames <- MCRawNames
  Unsafe = Unsafe
  MaxParts = 5
  MaxFiles = 4
INVARIANTS PublishesWhatWasSent NothingStoredUnauthorized AnswerIsTrue
CHECK_DEADLOCK FALSE
