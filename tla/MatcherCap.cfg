SPECIFICATION MarketSpec
CONSTANTS
  a = a
  b = b
  c = c
  k = k
  l = l
  m = m
  r1 = r1
  r2 = r2
  r3 = r3
  r4 = r4
  r5 = r5
  None = None
  Accounts = {a, b, c}
  Signers = {k, l, m}
  Requests = {r1}
  Orders <- MarketOrders
  Quotes <- SolverQuotes
  Scale = 2
  MaxFills = 3
  MaxSolverFills = 2
  MaxTime = 2
  MaxEpoch = 1
  MinimumBase = 1
  MaximumBase = 4
  MaxLifetime = 3
  MaxQuoteLifetime = 3
  MaxAccepted = 1
  MaxOpen = 3
  MaxOpenPerAccount = 2
  MaxQuotes = 2
  MaxCapacity = 4
SYMMETRY Symmetric
CHECK_DEADLOCK FALSE
INVARIANT CapCountsLive
