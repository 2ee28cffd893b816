SPECIFICATION Spec
CONSTANTS
  None = None
  s1 = s1  s2 = s2  s3 = s3
  secret = secret  art = art
  i1 = i1  i2 = i2  i3 = i3  i4 = i4  i5 = i5  i6 = i6  i7 = i7  i8 = i8  i9 = i9  i10 = i10
  Sources = {s1, s2, s3}
  RequiredSources = 2
  MaxDelay = 3
  MinConfirmations <- MCConfirmations
  MinAge <- MCAge
  AuthorizationDeadline = 2
  ZecFundBy = 4
  EvmFundBy = 6
  EvmClaimSafetyCutoff = 8
  EvmRefundTime = 10
  ZecRefundTime = 12
  Secret = secret
  Artifacts = {art}
  FundingFacts <- MCFundingFacts
  SpendFacts <- MCSpendFacts
  Attestations <- MCAttestations
  EvidenceIds <- MCEvidenceIds
  Times <- MCTimes
  FlagTargets <- MCFlagTargets
  MaxDisputes = 2
INVARIANTS
  TypeOK
  EvidenceSound
PROPERTIES
  DisputeFreezesProgress
  HardDisputePersists
  ConfirmedEvidenceFrozen
CHECK_DEADLOCK FALSE
