---------------------------- MODULE MCSwapFunding ----------------------------
(***************************************************************************)
(* SwapState up to the confirmation of both funding legs and of the        *)
(* stablecoin's claim: three observers, two of whom must agree, a ZEC      *)
(* funding that a reorganization may move to another block, an observer    *)
(* that reports another tip, a replacement report, and an operator that    *)
(* flags what it likes.                                                    *)
(***************************************************************************)
EXTENDS SwapState

CONSTANTS s1, s2, s3, secret, art, i1, i2, i3, i4, i5, i6, i7, i8, i9, i10

MCConfirmations == [l \in Leg |-> 2]
MCAge == [l \in Leg |-> IF l = "zec" THEN 1 ELSE 0]

Funding(l, at, h) == [leg |-> l, executedAt |-> at, height |-> h, binds |-> TRUE]
zecFunding == Funding("zec", 2, 10)
zecRemined == Funding("zec", 3, 11)
evmFunding == Funding("evm", 5, 50)
evmClaim ==
  [leg |-> "evm", action |-> "claim", funding |-> evmFunding, executedAt |-> 7, height |-> 60,
   binds |-> TRUE, preimage |-> secret]

Report(i, f, src, at, tip, h) ==
  [id |-> i, fact |-> f, source |-> src, observedAt |-> at, tip |-> tip, height |-> h]

MCFundingFacts == {zecFunding, zecRemined, evmFunding}
MCSpendFacts == {evmClaim}
MCAttestations ==
  { Report(i1, zecFunding, s1, 3, "main", 11),
    Report(i2, zecFunding, s2, 3, "main", 11),
    Report(i3, zecFunding, s3, 3, "main", 11),
    Report(i4, zecFunding, s3, 3, "fork", 11),
    Report(i5, zecFunding, s1, 4, "main", 11),
    Report(i6, zecRemined, s2, 4, "main", 11),
    Report(i7, evmFunding, s1, 6, "evm", 51),
    Report(i8, evmFunding, s2, 6, "evm", 51),
    Report(i9, evmClaim, s1, 7, "evm", 61),
    Report(i10, evmClaim, s2, 7, "evm", 61) }
MCEvidenceIds == {a.id : a \in MCAttestations}
MCTimes == {0, 2, 4, 6, 7}
MCFlagTargets == {i1}
=============================================================================
