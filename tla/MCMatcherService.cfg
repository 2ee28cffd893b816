SPECIFICATION MCSpec
CONSTANTS
  r1 = r1
  r2 = r2
  order = order
  cancel = cancel
  raw = raw
  Ids = {r1, r2}
  Bodies = {order, cancel, raw}
  Raw = {raw}
  Refused = {}
  Needs <- MCNeeds
  None = None
  MaxTime = 1
  MaxFuture = 0
  MaxRecords = 2
  MaxQueue = 1
  MaxTroubles = 2
  Weather = {"process", "power"}
  Wants <- MCWants
  Gateways = {"proxy", "direct"}
  Callers = {"desks", "any"}
  MaxPosts <- MCMaxPosts
  MaxPending = 2
INVARIANTS
  JournalSound
  AnswersStand
PROPERTIES
  MatcherIsDurableLog
  CallsSettle
CHECK_DEADLOCK FALSE
