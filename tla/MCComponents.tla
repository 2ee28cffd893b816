---------------------------- MODULE MCComponents -----------------------------
(***************************************************************************)
(* Small instances of components that have nothing to do with each other,  *)
(* checked side by side: a behaviour is about one of them, its part, and   *)
(* leaves the others as they began.                                        *)
(***************************************************************************)
EXTENDS SwapState, SwapStore, ConditionalLock, Settlement, Amm, PaperTerminal,
        RateLimit

VARIABLE part

CONSTANTS s1, s2, secret, guess, art,
          i1, i2, i3, i4, i5, i6, i7, i8, i9, i10, i11, i12, i13,
          e1,
          alice, bob, fund, usdc, usdt, zec

-----------------------------------------------------------------------------
(* SwapState through claims and refunds of both legs: two observers, both  *)
(* needed.  Either leg may be claimed or refunded, a report of a spend may *)
(* be retracted and replaced, one report shows another tip, and the times  *)
(* sit on both sides of every signed deadline.                             *)

MCConfirmations == [l \in Leg |-> 2]
MCAge == [l \in Leg |-> IF l = "zec" THEN 1 ELSE 0]

zecFunding == [leg |-> "zec", executedAt |-> 2, height |-> 10, binds |-> TRUE]
evmFunding == [leg |-> "evm", executedAt |-> 5, height |-> 50, binds |-> TRUE]

Spend(f, action, at, h) ==
  [leg |-> f.leg, action |-> action, funding |-> f, executedAt |-> at, height |-> h,
   binds |-> TRUE, preimage |-> IF action = "claim" THEN secret ELSE None]
evmClaim == Spend(evmFunding, "claim", 7, 60)
evmRefund == Spend(evmFunding, "refund", 10, 70)
zecClaim == Spend(zecFunding, "claim", 8, 20)
zecRefund == Spend(zecFunding, "refund", 12, 30)

Report(i, f, src, at, tip, h) ==
  [id |-> i, fact |-> f, source |-> src, observedAt |-> at, tip |-> tip, height |-> h]

MCFundingFacts == {zecFunding, evmFunding}
MCSpendFacts == {evmClaim, evmRefund, zecClaim, zecRefund}
MCAttestations ==
  { Report(i1, zecFunding, s1, 3, "main", 11),  Report(i2, zecFunding, s2, 3, "main", 11),
    Report(i3, evmFunding, s1, 6, "main", 51),  Report(i4, evmFunding, s2, 6, "main", 51),
    Report(i5, evmClaim, s1, 7, "main", 61),    Report(i6, evmClaim, s2, 7, "main", 61),
    Report(i7, evmClaim, s2, 7, "fork", 61),
    Report(i8, evmRefund, s1, 10, "main", 71),  Report(i9, evmRefund, s2, 10, "main", 71),
    Report(i10, zecClaim, s1, 9, "main", 21),   Report(i11, zecClaim, s2, 9, "main", 21),
    Report(i12, zecRefund, s1, 13, "main", 31), Report(i13, zecRefund, s2, 13, "main", 31) }
MCEvidenceIds == {a.id : a \in MCAttestations}
MCTimes == {0, 4, 6, 7, 9, 10, 13}

SpendPart == Next

-----------------------------------------------------------------------------
(* The coordinator's store: two handles.  Where locks are removed from     *)
(* under live handles, one event is appended.                              *)
StorePart ==
  /\ StoreNext
  /\ careful \/ \A h \in Handles : \A r \in Range(queue'[h]) : r.event = e1

-----------------------------------------------------------------------------
(* The conditional lock.                                                   *)
LockPart == LockNext

-----------------------------------------------------------------------------
(* Order settlement: two makers on opposite sides, orders of each kind, an *)
(* unsigned one, a later expiry, and prices whose costs round.             *)

Signed(maker, side, base, limit, tif, expiry) ==
  [maker |-> maker, side |-> side, quote |-> usdc, base |-> base, limit |-> limit,
   timeInForce |-> tif, nonce |-> 1, epoch |-> 0, expiry |-> expiry, recipient |-> maker,
   maximumFee |-> 2, clob |-> TRUE]

MCSignedOrders ==
  { Signed(alice, "sell", 3, 3, "GTC", 0), Signed(alice, "sell", 2, 4, "IOC", 0),
    Signed(bob, "buy", 3, 4, "GTC", 1), Signed(bob, "buy", 2, 3, "IOC", 0),
    Signed(bob, "buy", 2, 4, "FOK", 0) }
MCSettledOrders == MCSignedOrders \cup {Signed(bob, "buy", 3, 9, "GTC", 0)}
MCEndowment ==
  [t \in {zec, usdc} |-> [a \in {alice, bob, fund} |->
     IF <<t, a>> = <<zec, alice>> THEN 4 ELSE IF <<t, a>> = <<usdc, bob>> THEN 8 ELSE 0]]

-----------------------------------------------------------------------------
(* The paper session: one price level on each side of the book, a buy that *)
(* takes the level and rests, a sell that expires while it rests, either   *)
(* of them sliced in two.                                                  *)

MCDepth == {[side |-> "sell", price |-> 3, size |-> 3], [side |-> "buy", price |-> 2, size |-> 4]}
MCTickets ==
  { [side |-> "buy", tif |-> "GTC", price |-> 3, size |-> 5, expiry |-> 0],
    [side |-> "sell", tif |-> "GTC", price |-> 3, size |-> 2, expiry |-> 1] }

-----------------------------------------------------------------------------
componentVars == <<part, vars, storeVars, lockVars, settlementVars, ammVars, paperVars, rateVars>>

ComponentsInit ==
  /\ part \in {"spend", "store", "lock", "settlement", "amm", "paper", "rate"}
  /\ Init /\ StoreInit /\ LockInit /\ SettlementInit /\ AmmInit /\ PaperInit
  /\ RateInit
  /\ part # "store" => careful
  /\ steady = TRUE /\ onScreen = usdc

ComponentsNext ==
  /\ UNCHANGED part
  /\ \/ /\ part = "spend" /\ SpendPart
        /\ UNCHANGED <<storeVars, lockVars, settlementVars, ammVars, paperVars, rateVars>>
     \/ /\ part = "store" /\ StorePart
        /\ UNCHANGED <<vars, lockVars, settlementVars, ammVars, paperVars, rateVars>>
     \/ /\ part = "lock" /\ LockPart
        /\ UNCHANGED <<vars, storeVars, settlementVars, ammVars, paperVars, rateVars>>
     \/ /\ part = "settlement" /\ SettlementNext
        /\ UNCHANGED <<vars, storeVars, lockVars, ammVars, paperVars, rateVars>>
     \/ /\ part = "amm" /\ AmmNext
        /\ UNCHANGED <<vars, storeVars, lockVars, settlementVars, paperVars, rateVars>>
     \/ /\ part = "paper" /\ PaperNext
        /\ UNCHANGED <<vars, storeVars, lockVars, settlementVars, ammVars, rateVars>>
     \/ /\ part = "rate" /\ RateNext
        /\ UNCHANGED <<vars, storeVars, lockVars, settlementVars, ammVars, paperVars>>

ComponentsSpec ==
  /\ ComponentsInit
  /\ [][ComponentsNext]_componentVars
  /\ \A h \in Handles : WF_storeVars(Work(h))
=============================================================================
