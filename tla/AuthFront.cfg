SPECIFICATION AuthSpec
CONSTANTS
  r1 = r1  r2 = r2  a1 = a1  a2 = a2
  Requests <- TwoRequests
  Addrs <- TwoAddrs
  Limit = 1
  Window = 1
  TTL = 1
  MaxTime = 2
  MaxCalls = 2
  MaxTokens = 2
INVARIANTS AuthTypeOK SlidingLimit DenialJustified SessionsWereAllowed
PROPERTIES LoggedOutStaysOut NoEarlyEviction ExpiredIsSwept
CHECK_DEADLOCK FALSE
