SPECIFICATION ComponentsSpec
CONSTANTS
  None = None
  \* swap state machine
  s1 = s1  s2 = s2
  secret = secret  guess = guess  art = art
  i1 = i1  i2 = i2  i3 = i3  i4 = i4  i5 = i5  i6 = i6  i7 = i7
  i8 = i8  i9 = i9  i10 = i10  i11 = i11  i12 = i12  i13 = i13
  Sources = {s1, s2}
  RequiredSources = 2
  MaxDelay = 3
  MinConfirmations <- MCConfirmations
  MinAge <- MCAge
  AuthorizationDeadline = 2
  ZecFundBy = 4
  EvmFundBy = 6
  EvmClaimSafetyCutoff = 8
  EvmRefundTime = 10
  ZecRefundTime = 12
  Secret = secret
  Artifacts = {art}
  FundingFacts <- MCFundingFacts
  SpendFacts <- MCSpendFacts
  Attestations <- MCAttestations
  EvidenceIds <- MCEvidenceIds
  Times <- MCTimes
  FlagTargets = {None}
  MaxDisputes = 1
  \* coordinator store
  Handles = {h1, h2}
  Events = {e1, e2}
  e1 = e1
  MaxEvents = 2
  MaxQueue = 1
  \* conditional lock
  Funder = funder
  ClaimRecipient = recipient
  Stranger = stranger
  Lock = lock
  Amount = 1
  Preimages = {secret, guess}
  Preimage = secret
  FundingCutoff = 1
  ClaimCutoff = 2
  RefundFrom = 4
  Fees = {0, 1}
  Supply = 2
  MaxTimestamp = 4
  \* order settlement
  alice = alice  bob = bob  fund = fund  usdc = usdc  usdt = usdt  zec = zec
  SettledOrders <- MCSettledOrders
  SignedOrders <- MCSignedOrders
  FillSizes = {1, 2}
  Makers = {alice, bob}
  FeeAccount = fund
  ZecToken = zec
  QuoteTokens = {usdc}
  Endowment <- MCEndowment
  TickDivisor = 2
  FeeDivisor = 10
  MakerFee = 1
  TakerFee = 2
  FeeLimit = 3
  MaxEpoch = 1
  MaxClock = 2
  MaxFills = 3
  \* automated market maker
  ZecAsset = zec
  Nobody = nobody
  AmmQuotes = {usdc}
  Traders = {alice, bob}
  TraderHolds = 3
  Sizes = {2, 3}
  Minimums = {0, 1}
  PairBps = 10
  PairFee = 1
  MinimumLiquidity = 1
  MaxAmmTime = 1
  \* paper session
  PaperMarkets = {usdc, usdt}
  PaperZec = 3
  PaperQuote = 6
  QuoteDivisor = 4
  VenueDepth <- MCDepth
  LastPrice = 3
  Tickets <- MCTickets
  SliceCounts = {0, 2}
  RetainedJobs = 1
  MaxPaperOrders = 2
  MaxJobs = 1
  MaxPaperTime = 2
  \* rate limiter
  Clients = {alice, bob}
  Watched = alice
  Capacity = 3
  RefillPerSecond = 2
  Window = 2
  WindowRequests = 1
  MaxEntries = 1
  MaxLimiterTime = 3
INVARIANTS
  CausalSettlement
  LockKeepsAmount
  WithinSignedOrder
  SessionConsistent
  WithinBudget
PROPERTIES
  StoreKeepsPromise
  ClosingEnds
  ShareKeepsValue
CHECK_DEADLOCK FALSE
