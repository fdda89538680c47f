SPECIFICATION MCFairSpec
CONSTANTS
  s1 = s1 s2 = s2 s3 = s3 h1 = h1 h2 = h2 t1 = t1 t2 = t2
  Sources = {s1, s2, s3}
  Handlers = {h1, h2}
  GlobalLimit = 2
  SourceLimit = 1
  Window = 1
  FailureRetention = 2
  MaxLag = 1
  MaxTime = 5
  AdminTokens = {t1, t2}
  AdminSessionTTL = 1
  MaxLost = 1
  MaxRequests = 4
  None = None
INVARIANTS WindowBound CountsAreExact WrongAnswersAreCharged LockedSessionsStayOut SessionsEnd
PROPERTIES ThrottleLifts ImplementsGate
CHECK_DEADLOCK FALSE
