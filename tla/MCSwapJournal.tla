---------------------------- MODULE MCSwapJournal ----------------------------
(***************************************************************************)
(* The journal over the ZEC leg, from its terms to its refund: two funding *)
(* artifacts, three observers on one chain view with spare reports, so     *)
(* that a report is replaced, replaced again and offered once more.  Side  *)
(* by side with it, the other ledger of the libraries, that of settled     *)
(* fills: a behaviour is about one of them, its part.                      *)
(***************************************************************************)
EXTENDS MCSwapFunding, SwapJournal, SettlementAccounting

CONSTANTS art2, b1, b2, r1, r2, rs, fa

VARIABLE part

MCArtifacts == {art, art2}
zecRefund ==
  [leg |-> "zec", action |-> "refund", funding |-> zecFunding, executedAt |-> 12,
   height |-> 30, binds |-> TRUE, preimage |-> None]
MCJournaled ==
  { Report(i1, zecFunding, s1, 3, "main", 11),
    Report(i2, zecFunding, s2, 3, "main", 11),
    Report(i3, zecFunding, s3, 3, "main", 11),
    Report(i4, zecFunding, s1, 3, "main", 11),
    Report(i8, zecRefund, s1, 13, "main", 31),
    Report(i9, zecRefund, s2, 13, "main", 31) }
MCJournaledIds == {a.id : a \in MCJournaled}
MCFundingOnly == {zecFunding}
MCRefundOnly == {zecRefund}
MCJournalTimes == {0, 3, 13}

-----------------------------------------------------------------------------
(* Settlement accounting: two buyers and a seller, orders that fill in     *)
(* parts, costs that round up.                                             *)

Signing(side, maker, recipient, limit, base, fee, sequence) ==
  [side |-> side, maker |-> maker, recipient |-> recipient, limit |-> limit,
   base |-> base, fee |-> fee, sequence |-> sequence]
MCSignedOrders ==
  { Signing("sell", s1, rs, 3, 3, 1, 2), Signing("buy", b1, r1, 4, 2, 1, 1),
    Signing("buy", b2, r2, 4, 2, 0, 3) }
MCEndowment ==
  [a \in {b1, b2, s1, r1, r2, rs, fa} |->
     [base |-> IF a = s1 THEN 4 ELSE 0, quote |-> IF a \in {b1, b2} THEN 9 ELSE 0]]

-----------------------------------------------------------------------------
LedgersInit == part \in {"journal", "fills"} /\ JournalInit /\ AccountingInit

LedgersNext ==
  /\ UNCHANGED part
  /\ \/ part = "journal" /\ JournalNext /\ UNCHANGED accountingVars
     \/ part = "fills" /\ AccountingNext /\ UNCHANGED journalVars

LedgersSpec == LedgersInit /\ [][LedgersNext]_<<part, journalVars, accountingVars>>
=============================================================================
