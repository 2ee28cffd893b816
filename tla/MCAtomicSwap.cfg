SPECIFICATION SwapSpec
CONSTANTS
  None = None
  ZecFundBy = 2
  EvmFundBy = 4
  EvmClaimSafetyCutoff = 8
  EvmRefundTime = 10
  ZecRefundTime = 15
  SafetyWindow = 2
  Delay = 2
  Reaction = 1
  MaxTime = 18
  MaxReorgs = 2
INVARIANTS
  BuyerWhole
  SellerWhole
PROPERTIES
  HonestSwapEnds
CHECK_DEADLOCK FALSE
