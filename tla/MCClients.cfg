SPECIFICATION ClientsSpec
CONSTANTS
  None = None
  alice = alice  bob = bob
  usdc = usdc  usdt = usdt
  \* account recovery
  Starts = {0}
  PageLimit = 1
  PageBound = 2
  ChallengeSeconds = 1
  MaxChallenges = 1
  OrderExpiries = {1, 2}
  MaxMutations = 3
  MaxRecoveryTime = 1
  \* evidence of the stablecoin leg
  EvmFundCutoff = 2
  EvmClaimCutoff = 3
  EvmRefundFrom = 4
  MaxHeight = 4
  MaxUndone = 1
  \* wallet bar
  a1 = a1  a2 = a2
  EvmAccounts = {a1, a2}
  Mainnet = 1
  OtherChain = 5
  MaxConnects = 2
  MaxWalletMoves = 2
  \* ZEC wallet
  ZecAccounts = {a1, a2}
  MaxZecConnects = 2
  MaxZecMoves = 2
  MaxPolls = 1
  \* swap observer
  EvmRefundOffset = 1
  ZecRefundOffset = 2
  MaxObserverTime = 2
  MaxObserverPolls = 2
  MaxStops = 1
  \* Zcash artifacts
  o1 = o1
  Contract = 8
  Coins = {10}
  SpendFees = {1}
  ConventionalFee <- MCConventionalFee
  MaximumFee = 2
  MinimumOutput = 3
  ZecOutputs = {o1}
  ExpiryHeights = {1}
  RefundLock = 0
  TransactionVersion = 6
  MaxTip = 2
  \* reserve
  w1 = w1  w2 = w2  t1 = t1  t2 = t2
  WithdrawalIds = {w1, w2}
  Txids = {t1, t2}
  Payable = 2
  Changes = {0, 1}
  NetworkFees = {0, 1}
  StartingAssets = 8
  StartingSupply = 2
  OtherRequirements = 1
  \* payouts
  c1 = c1  c2 = c2
  PayoutClaims = {c1, c2}
  Eligible = {c1, c2}
  BurnOf <- MCBurnOf
  \* native order surface
  NativeMarkets = {usdc, usdt}
  NativeTerms = {1, 2}
  Deployments <- MCDeployments
  MaxContexts = 2
  MaxNativeCalls = 2
  \* paper pool
  PoolMarkets = {usdc, usdt}
  SeedZec = 6
  SeedQuote = 20
  PoolAmounts = {1, 2, 5}
  PoolBps = 10
  PoolSwapFee = 1
  MaxPoolSteps = 3
  \* trade ticket
  FormMarkets = {usdc, usdt}
  TicketPrices = {2, 3}
  TicketSizes = {4}
  Slippages = {1}
  Expiries = {0, 1}
  SliceChoices = {2}
  Percents = {100}
  FormTifs = {}
  SlippageScale = 2
  FormDivisor = 4
  SessionZec = 5
  SessionQuote = 3
  MaxBookChanges = 1
  MaxFormTime = 2
  \* swap plans
  PlanParties <- MCPlanParties
  PlannedFills <- MCPlannedFills
  PlanPolicies <- MCPlanPolicies
  TermsContexts <- MCTermsContexts
  TimingPolicies <- MCTiming
  MarketPolicies <- MCMarketPolicies
  PriceDivisor = 2
  FirstLocktime = 1
  LastLocktime = 20
  MaxSwapTime = 10
  \* feeds
  FeedOrders <- MCFeedOrders
  FeedQuotes <- MCFeedQuotes
  FeedPage = 1
  DepthLevels = 1
  TickerTrades = 2
  DayLength = 1
  FeedDivisor = 2
  MaxFeedEvents = 3
  MaxFeedTime = 2
INVARIANTS
  RecoveryComplete
  EvidenceStands
  ConnectedOrTold
  OutcomeShowsChain
  ResumedStands
  WithdrawalsBacked
  BurnAnsweredOnce
  OutcomeOfReview
  NeverShorted
  SentAsReviewed
  TermsBindBoth
  ReadersMissNothing
PROPERTIES
  ReviewedEndsForCause
CHECK_DEADLOCK FALSE
