SPECIFICATION LedgersSpec
CONSTANTS
  None = None
  s1 = s1  s2 = s2  s3 = s3
  secret = secret  art = art
  i1 = i1  i2 = i2  i3 = i3  i4 = i4  i5 = i5  i6 = i6  i7 = i7  i8 = i8
  Sources = {s1, s2, s3}
  RequiredSources = 2
  MaxDelay = 3
  MinConfirmations <- MCConfirmations
  MinAge <- MCAge
  AuthorizationDeadline = 2
  ZecFundBy = 4
  EvmFundBy = 6
  EvmClaimSafetyCutoff = 8
  EvmRefundTime = 10
  ZecRefundTime = 12
  Secret = secret
  Artifacts <- MCArtifacts
  art2 = art2  i9 = i9  i10 = i10
  FundingFacts <- MCFundingOnly
  SpendFacts <- MCRefundOnly
  Attestations <- MCJournaled
  EvidenceIds <- MCJournaledIds
  Times <- MCJournalTimes
  FlagTargets = {None}
  MaxDisputes = 1
  \* settlement accounting
  b1 = b1  b2 = b2  r1 = r1  r2 = r2  rs = rs  fa = fa
  SignedOrders <- MCSignedOrders
  FillAmounts = {1, 2}
  FeesInBps = {0, 1}
  ProtocolFee = 2
  BpsScale = 3
  CostDivisor = 2
  FeeAccount = fa
  Endowment <- MCEndowment
  MaxAtoms = 20
  MaxSnapshots = 2
INVARIANTS
  ReceiptsMatchReports
  AbandonedStaysAbandoned
  SettledAsSigned
CHECK_DEADLOCK FALSE
