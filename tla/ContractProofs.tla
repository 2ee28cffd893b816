---------------------------- MODULE ContractProofs ---------------------------
(***************************************************************************)
(* The Solidity contracts, for every instance of each: the lock of a swap  *)
(* pays once and can pay, whatever fees the token keeps; a settlement      *)
(* takes from an order no more than its maker signed; what a share of a    *)
(* market maker's pair stands for never falls.                             *)
(***************************************************************************)
EXTENDS ConditionalLock, Settlement, Amm, Lemmas, TLAPS

-----------------------------------------------------------------------------
(* The conditional lock. *)

Owed(s) == IF s \in {"Claimed", "Refunded"} THEN Amount ELSE 0

(* Between calls. *)
Settled == paid = Owed(state) /\ (state = "Funded" => balance[Lock] >= Amount)

(* Within a call: it takes the lock in, or it pays it out. *)
InCall ==
  /\ call.paid = 0 /\ paid = Owed(state)
  /\ \/ call.state = "Unfunded" /\ state = "Funded" /\ call.to = Lock
     \/ /\ call.state = "Funded" /\ state \in {"Claimed", "Refunded"}
        /\ call.before[Lock] >= Amount

LockSafe ==
  /\ LockTypeOK
  /\ call = None => Settled
  /\ call # None => InCall

LEMMA LockSafeNext ==
  ASSUME LockSafe, [LockNext]_lockVars
  PROVE  LockSafe'
<1>. USE LockConstants DEF LockSafe, LockTypeOK, Settled, InCall, Owed, State, Holders, Accounts
<1>1. ASSUME NEW sender \in Accounts, Fund(sender) PROVE LockSafe'
  BY <1>1 DEF Fund, Enter, Calls
<1>2. ASSUME NEW sender \in Accounts, NEW p \in Preimages, Claim(sender, p) PROVE LockSafe'
  BY <1>2 DEF Claim, Enter, Calls
<1>3. ASSUME NEW sender \in Accounts, Refund(sender) PROVE LockSafe'
  BY <1>3 DEF Refund, Enter, Calls
<1>4. ASSUME NEW sender \in Accounts, NEW to \in Holders \ {sender}, Transfer(sender, to)
      PROVE  LockSafe'
  BY <1>4 DEF Transfer, Calls
<1>5. CASE Return
  BY <1>5 DEF Return, MovedExactly, Calls
<1>6. CASE NextBlock
  BY <1>6 DEF NextBlock
<1>7. CASE UNCHANGED lockVars
  BY <1>7 DEF lockVars
<1>. QED  BY <1>1, <1>2, <1>3, <1>4, <1>5, <1>6, <1>7 DEF LockNext

LEMMA LockSafeInit == LockInit => LockSafe
BY LockConstants DEF LockInit, LockSafe, LockTypeOK, Settled, Owed, State, Holders, Accounts

(* The contract is always safe, in and between calls. *)
THEOREM LockIsSafe == LockSpec => []LockSafe
BY LockSafeInit, LockSafeNext, PTL DEF LockSpec

(* The amount leaves the contract once, at its end, and a funded contract  *)
(* holds the whole of it.                                                  *)
THEOREM LockPaysOnce == LockSpec => []LockKeepsAmount
<1>1. LockSafe => PaidOnce
  BY DEF LockSafe, Settled, Owed, PaidOnce
<1>2. LockSafe => Solvent
  BY DEF LockSafe, Settled, Solvent
<1>. QED  BY <1>1, <1>2, LockIsSafe, PTL DEF LockKeepsAmount

-----------------------------------------------------------------------------
(* The order settlement. *)

SettlementSpec == SettlementInit /\ [][SettlementNext]_settlementVars

FillRecords ==
  [buy : SettledOrders, sell : SettledOrders, base : Nat, price : Nat, debited : Int, credited : Int]

(* What was filled or written off is never less than what was settled, and *)
(* an immediate order with a settlement has nothing left.                  *)
Accounted(o) ==
  /\ filled[o] <= o.base
  /\ SettledOf(o) <= filled[o]
  /\ o.timeInForce # "GTC" /\ FillsOf(o) # {} => filled[o] = o.base /\ Cardinality(FillsOf(o)) = 1

SettlementSafe ==
  /\ filled \in [SettledOrders -> Nat]
  /\ fills \in Seq(FillRecords)
  /\ \A o \in SettledOrders : Accounted(o) /\ \A i \in FillsOf(o) : AsSigned(o, fills[i])

LEMMA CostsAreNaturals ==
  ASSUME SettlementAssumption, NEW n \in Nat, NEW l \in Nat
  PROVE  /\ CostUp(n, l) \in Nat /\ CostDown(n, l) \in Nat
         /\ CostDown(n, l) <= CostUp(n, l)
         /\ n = 0 => CostDown(n, l) = 0
<1>. DEFINE p == n * l
<1>1. p \in Nat
  OBVIOUS
<1>2. n = 0 => p = 0
  OBVIOUS
<1>. HIDE DEF p
<1>3. TickDivisor \in Nat \ {0}
  BY DEF SettlementAssumption
<1>4. (p + TickDivisor - 1) \div TickDivisor \in Nat /\ p \div TickDivisor \in Nat
  BY <1>1, <1>3
<1>5. p \div TickDivisor <= (p + TickDivisor - 1) \div TickDivisor
  BY <1>1, <1>3
<1>6. 0 \div TickDivisor = 0
  BY <1>3
<1>. QED  BY <1>2, <1>4, <1>5, <1>6 DEF p, CostUp, CostDown

(* What the fills of an order add up to. *)
LEMMA BaseIsNatural ==
  ASSUME fills \in Seq(FillRecords), NEW o
  PROVE  IsFiniteSet(FillsOf(o)) /\ SettledOf(o) \in Nat
<1>. DEFINE base == [i \in FillsOf(o) |-> fills[i].base]
<1>1. FillsOf(o) \subseteq 1..Len(fills) /\ Len(fills) \in Nat
  BY DEF FillsOf
<1>2. IsFiniteSet(1..Len(fills))
  BY <1>1, FS_Interval
<1>3. IsFiniteSet(FillsOf(o))
  BY <1>1, <1>2, FS_Subset
<1>4. \A i \in 1..Len(fills) : fills[i] \in FillRecords
  OBVIOUS
<1>5. \A i \in FillsOf(o) : base[i] \in Int /\ base[i] >= 0
  BY <1>1, <1>4 DEF FillRecords
<1>6. SettledOf(o) = SumOver(base, FillsOf(o))
  BY DEF SettledOf
<1>. HIDE DEF base
<1>. QED  BY <1>3, <1>5, <1>6, SumType

(* Adding a fill adds its base to the two orders it is of.                 *)
LEMMA FillAdded ==
  ASSUME fills \in Seq(FillRecords), NEW r \in FillRecords, fills' = Append(fills, r),
         NEW o \in SettledOrders
  PROVE  /\ IsFiniteSet(FillsOf(o)) /\ SettledOf(o) \in Nat
         /\ FillsOf(o)' = FillsOf(o) \cup (IF o \in {r.buy, r.sell} THEN {Len(fills) + 1} ELSE {})
         /\ SettledOf(o)' = SettledOf(o) + (IF o \in {r.buy, r.sell} THEN r.base ELSE 0)
         /\ Len(fills) + 1 \notin FillsOf(o)
         /\ \A i \in FillsOf(o) : fills'[i] = fills[i]
         /\ fills'[Len(fills) + 1] = r
<1>. DEFINE n == Len(fills) + 1
            base == [i \in FillsOf(o) |-> fills[i].base]
            baseAfter == [i \in FillsOf(o)' |-> fills'[i].base]
<1>1. /\ Len(fills) \in Nat /\ DOMAIN fills = 1..Len(fills) /\ DOMAIN fills' = 1..n
      /\ \A i \in 1..Len(fills) : fills'[i] = fills[i] /\ fills[i] \in FillRecords
      /\ fills'[n] = r
  OBVIOUS
<1>2. IsFiniteSet(FillsOf(o)) /\ n \notin FillsOf(o)
  <2>1. IsFiniteSet(FillsOf(o))
    BY BaseIsNatural
  <2>. QED  BY <1>1, <2>1 DEF FillsOf
<1>3. FillsOf(o)' = FillsOf(o) \cup (IF o \in {r.buy, r.sell} THEN {n} ELSE {})
  BY <1>1 DEF FillsOf
<1>4. \A i \in FillsOf(o) : i \in 1..Len(fills)
  BY <1>1 DEF FillsOf
<1>5. \A i \in FillsOf(o) : base[i] \in Nat /\ baseAfter[i] = base[i]
  BY <1>1, <1>3, <1>4 DEF FillRecords
<1>6. SettledOf(o) = SumOver(base, FillsOf(o)) /\ SettledOf(o)' = SumOver(baseAfter, FillsOf(o)')
  BY DEF SettledOf
<1>. HIDE DEF base, baseAfter
<1>7. SumOver(base, FillsOf(o)) \in Nat /\ SumOver(baseAfter, FillsOf(o)) = SumOver(base, FillsOf(o))
  <2>1. \A i \in FillsOf(o) : base[i] \in Int /\ base[i] >= 0
    BY <1>5
  <2>2. SumOver(base, FillsOf(o)) \in Int /\ SumOver(base, FillsOf(o)) >= 0
    BY <1>2, <2>1, SumType
  <2>3. SumOver(baseAfter, FillsOf(o)) = SumOver(base, FillsOf(o))
    BY <1>2, <1>5, SumEqual
  <2>. QED  BY <2>2, <2>3
<1>8. CASE o \in {r.buy, r.sell}
  <2>1. baseAfter[n] = r.base /\ r.base \in Int
    BY <1>1, <1>3, <1>8 DEF baseAfter, FillRecords
  <2>2. SumOver(baseAfter, FillsOf(o) \cup {n}) = baseAfter[n] + SumOver(baseAfter, FillsOf(o))
    <3>1. \A i \in FillsOf(o) : baseAfter[i] \in Int
      BY <1>5
    <3>. QED  BY <1>2, <2>1, <3>1, SumInsert
  <2>3. FillsOf(o)' = FillsOf(o) \cup {n}
    BY <1>3, <1>8
  <2>4. SumOver(baseAfter, FillsOf(o)') = r.base + SumOver(base, FillsOf(o))
    BY <1>7, <2>1, <2>2, <2>3
  <2>. QED  BY <1>1, <1>2, <1>3, <1>4, <1>6, <1>7, <1>8, <2>1, <2>4
<1>9. CASE o \notin {r.buy, r.sell}
  <2>1. FillsOf(o)' = FillsOf(o)
    BY <1>3, <1>9
  <2>. QED  BY <1>1, <1>2, <1>3, <1>4, <1>6, <1>7, <1>9, <2>1
<1>. QED  BY <1>8, <1>9

(* Whatever the two limits and rates, each side pays its price and its fee.*)
LEMMA SettlesAsSigned ==
  ASSUME SettlementAssumption, NEW maker \in SettledOrders, NEW taker \in SettledOrders,
         NEW base \in FillSizes, SettlementSafe, Settle(maker, taker, base)
  PROVE  \E r \in FillRecords :
           /\ fills' = Append(fills, r)
           /\ {r.buy, r.sell} = {maker, taker} /\ r.base = base /\ base > 0
           /\ AsSigned(maker, r) /\ AsSigned(taker, r)
<1>. DEFINE buy == IF maker.side = "buy" THEN maker ELSE taker
            sell == IF maker.side = "buy" THEN taker ELSE maker
            price == maker.limit
            pays == CostUp(base, price)
            receives == CostDown(base, price)
            makerFee == (receives * MakerFee) \div FeeDivisor
            takerFee == (pays * TakerFee) \div FeeDivisor
            buyerFee == IF buy = maker THEN makerFee ELSE takerFee
            sellerFee == IF sell = maker THEN makerFee ELSE takerFee
            r == [buy |-> buy, sell |-> sell, base |-> base, price |-> price,
                  debited |-> pays + buyerFee, credited |-> receives - sellerFee]
<1>1. /\ base \in Nat /\ FeeDivisor \in Nat \ {0} /\ MakerFee \in Nat /\ TakerFee \in Nat
      /\ \A o \in {maker, taker} :
           o.side \in {"buy", "sell"} /\ o.limit \in Nat /\ o.maximumFee \in Nat
  BY DEF SettlementAssumption
<1>2. /\ fills' = Append(fills, r)
      /\ maker.side # taker.side
      /\ buy.limit >= sell.limit
      /\ receives > 0
      /\ MakerFee <= maker.maximumFee /\ TakerFee <= taker.maximumFee
  BY DEF Settle, Crossing
<1>3. /\ pays \in Nat /\ receives \in Nat /\ receives <= pays /\ (base = 0 => receives = 0)
  BY <1>1, CostsAreNaturals
<1>4. /\ makerFee \in Nat /\ FeeDivisor * makerFee <= receives * MakerFee
      /\ takerFee \in Nat /\ FeeDivisor * takerFee <= pays * TakerFee
  <2>. HIDE DEF receives, pays
  <2>1. receives * MakerFee \in Nat /\ pays * TakerFee \in Nat
    BY <1>1, <1>3
  <2>. QED  BY <1>1, <2>1, Quotients
<1>5. /\ FeeDivisor * makerFee <= maker.maximumFee * pays
      /\ FeeDivisor * takerFee <= taker.maximumFee * pays
  <2>. HIDE DEF receives, pays, makerFee, takerFee
  <2>0. pays <= pays
    BY <1>3
  <2>1. receives * MakerFee <= maker.maximumFee * pays
    BY <1>1, <1>2, <1>3, RateWithin
  <2>2. pays * TakerFee <= taker.maximumFee * pays
    BY <1>1, <1>2, <1>3, <2>0, RateWithin
  <2>3. FeeDivisor * makerFee \in Int /\ receives * MakerFee \in Int /\ maker.maximumFee * pays \in Int
    BY <1>1, <1>3, <1>4
  <2>4. FeeDivisor * takerFee \in Int /\ pays * TakerFee \in Int /\ taker.maximumFee * pays \in Int
    BY <1>1, <1>3, <1>4
  <2>5. FeeDivisor * makerFee <= maker.maximumFee * pays
    BY <1>4, <2>1, <2>3
  <2>6. FeeDivisor * takerFee <= taker.maximumFee * pays
    BY <1>4, <2>2, <2>4
  <2>. QED  BY <2>5, <2>6
<1>. HIDE DEF pays, receives, makerFee, takerFee
<1>6. buyerFee \in Nat /\ sellerFee \in Nat /\ price \in Nat /\ buy \in SettledOrders /\ sell \in SettledOrders
  BY <1>1, <1>4
<1>7. r \in FillRecords
  BY <1>1, <1>3, <1>6 DEF FillRecords
<1>8. {r.buy, r.sell} = {maker, taker} /\ r.base = base
  OBVIOUS
<1>9. base > 0
  BY <1>1, <1>2, <1>3
<1>10. r.debited - pays = buyerFee /\ receives - r.credited = sellerFee
  BY <1>3, <1>6
<1>11. CostUp(r.base, r.price) = pays /\ CostDown(r.base, r.price) = receives
  BY DEF pays, receives
<1>12. AsSigned(maker, r)
  <2>1. CASE maker.side = "buy"
    <3>1. buyerFee = makerFee
      BY <2>1
    <3>. QED  BY <1>1, <1>5, <1>10, <1>11, <2>1, <3>1 DEF AsSigned
  <2>2. CASE maker.side # "buy"
    <3>1. sellerFee = makerFee
      BY <2>2
    <3>. QED  BY <1>1, <1>5, <1>10, <1>11, <2>2, <3>1 DEF AsSigned
  <2>. QED  BY <2>1, <2>2
<1>13. AsSigned(taker, r)
  <2>1. CASE maker.side = "buy"
    <3>1. taker.side # "buy" /\ sellerFee = takerFee /\ r.price >= taker.limit
      BY <1>1, <1>2, <2>1
    <3>. QED  BY <1>1, <1>5, <1>10, <1>11, <2>1, <3>1 DEF AsSigned
  <2>2. CASE maker.side # "buy"
    <3>1. taker.side = "buy" /\ buyerFee = takerFee /\ r.price <= taker.limit
      BY <1>1, <1>2, <2>2
    <3>. QED  BY <1>1, <1>5, <1>10, <1>11, <2>2, <3>1 DEF AsSigned
  <2>. QED  BY <2>1, <2>2
<1>. HIDE DEF r
<1>. QED  BY <1>2, <1>7, <1>8, <1>9, <1>12, <1>13

LEMMA SettlementSafeNext ==
  ASSUME SettlementAssumption, SettlementSafe, [SettlementNext]_settlementVars
  PROVE  SettlementSafe'
<1>1. ASSUME NEW maker \in SettledOrders, NEW taker \in SettledOrders, NEW base \in FillSizes,
             Settle(maker, taker, base)
      PROVE  SettlementSafe'
  <2>1. PICK r \in FillRecords :
           /\ fills' = Append(fills, r)
           /\ {r.buy, r.sell} = {maker, taker} /\ r.base = base /\ base > 0
           /\ AsSigned(maker, r) /\ AsSigned(taker, r)
    BY <1>1, SettlesAsSigned
  <2>2. /\ maker # taker /\ maker.timeInForce = "GTC"
        /\ filled[maker] + base <= maker.base /\ filled[taker] + base <= taker.base
        /\ filled' = FilledAfter(maker, taker, base)
    BY <1>1 DEF Settle
  <2>3. /\ filled \in [SettledOrders -> Nat] /\ fills \in Seq(FillRecords) /\ base \in Nat
        /\ \A o \in SettledOrders : o.base \in Nat
    BY DEF SettlementSafe, SettlementAssumption
  <2>4. /\ filled' \in [SettledOrders -> Nat]
        /\ filled'[maker] = filled[maker] + base
        /\ filled'[taker] = IF taker.timeInForce = "GTC" THEN filled[taker] + base ELSE taker.base
        /\ \A o \in SettledOrders \ {maker, taker} : filled'[o] = filled[o]
    BY <2>2, <2>3 DEF FilledAfter
  <2>5. fills' \in Seq(FillRecords)
    BY <2>1, <2>3
  <2>6. ASSUME NEW o \in SettledOrders
        PROVE  Accounted(o)' /\ \A i \in FillsOf(o)' : AsSigned(o, fills[i])'
    <3>1. /\ IsFiniteSet(FillsOf(o)) /\ SettledOf(o) \in Nat
          /\ FillsOf(o)' = FillsOf(o) \cup (IF o \in {r.buy, r.sell} THEN {Len(fills) + 1} ELSE {})
          /\ SettledOf(o)' = SettledOf(o) + (IF o \in {r.buy, r.sell} THEN r.base ELSE 0)
          /\ Len(fills) + 1 \notin FillsOf(o)
          /\ \A i \in FillsOf(o) : fills'[i] = fills[i]
          /\ fills'[Len(fills) + 1] = r
      BY <2>1, <2>3, FillAdded
    <3>2. Accounted(o) /\ \A i \in FillsOf(o) : AsSigned(o, fills[i])
      BY DEF SettlementSafe
    <3>3. \A i \in FillsOf(o)' : AsSigned(o, fills'[i])
      BY <2>1, <3>1, <3>2
    <3>4. CASE o \notin {maker, taker}
      <4>1. FillsOf(o)' = FillsOf(o) /\ filled'[o] = filled[o]
        BY <2>1, <2>4, <3>1, <3>4
      <4>2. SettledOf(o)' = SettledOf(o) + 0
        BY <2>1, <3>1, <3>4
      <4>3. SettledOf(o)' = SettledOf(o)
        BY <3>1, <4>2
      <4>. QED  BY <3>2, <3>3, <4>1, <4>3 DEF Accounted, AsSigned
    <3>5. CASE o \in {maker, taker}
      <4>1. SettledOf(o)' = SettledOf(o) + base /\ FillsOf(o)' = FillsOf(o) \cup {Len(fills) + 1}
        BY <2>1, <3>1, <3>5
      <4>2. filled'[o] <= o.base /\ filled[o] + base <= filled'[o] /\ filled[o] + base <= o.base
        BY <2>2, <2>3, <2>4, <3>5
      <4>3. SettledOf(o)' <= filled'[o]
        BY <2>3, <2>4, <3>1, <3>2, <4>1, <4>2 DEF Accounted
      <4>4. ASSUME o.timeInForce # "GTC" PROVE filled'[o] = o.base /\ Cardinality(FillsOf(o)') = 1
        <5>1. o = taker
          BY <2>2, <3>5, <4>4
        <5>2. filled'[o] = o.base
          BY <2>4, <4>4, <5>1
        <5>3. FillsOf(o) = {}
          BY <2>1, <2>3, <3>2, <4>2, <4>4 DEF Accounted
        <5>4. Cardinality({Len(fills) + 1}) = 1
          BY FS_Singleton
        <5>. QED  BY <4>1, <5>2, <5>3, <5>4
      <4>. QED  BY <3>3, <4>2, <4>3, <4>4 DEF Accounted, AsSigned
    <3>. QED  BY <3>4, <3>5
  <2>. QED  BY <2>4, <2>5, <2>6 DEF SettlementSafe
<1>2. ASSUME UNCHANGED <<filled, fills>> PROVE SettlementSafe'
  <2>1. \A o \in SettledOrders : FillsOf(o)' = FillsOf(o)
    BY <1>2 DEF FillsOf
  <2>2. \A o \in SettledOrders : SettledOf(o)' = SettledOf(o)
    BY <1>2, <2>1 DEF SettledOf
  <2>3. \A o \in SettledOrders : Accounted(o)' = Accounted(o)
    BY <1>2, <2>1, <2>2 DEF Accounted
  <2>4. \A o \in SettledOrders : \A i \in FillsOf(o) : AsSigned(o, fills[i])' = AsSigned(o, fills[i])
    BY <1>2 DEF AsSigned
  <2>. QED  BY <1>2, <2>1, <2>3, <2>4 DEF SettlementSafe
<1>3. ASSUME NEW o \in SettledOrders, CancelNonce(o.maker, o.nonce) PROVE SettlementSafe'
  BY <1>2, <1>3 DEF CancelNonce
<1>4. ASSUME NEW a \in Makers, IncrementEpoch(a) PROVE SettlementSafe'
  BY <1>2, <1>4 DEF IncrementEpoch
<1>5. CASE PauseSettlement
  BY <1>2, <1>5 DEF PauseSettlement
<1>6. CASE NextSecond
  BY <1>2, <1>6 DEF NextSecond
<1>7. CASE UNCHANGED settlementVars
  BY <1>2, <1>7 DEF settlementVars
<1>. QED  BY <1>1, <1>3, <1>4, <1>5, <1>6, <1>7 DEF SettlementNext

LEMMA SettlementSafeInit ==
  ASSUME SettlementAssumption, SettlementInit PROVE SettlementSafe
<1>1. fills = <<>> /\ \A o \in SettledOrders : FillsOf(o) = {}
  BY DEF SettlementInit, FillsOf
<1>2. ASSUME NEW o \in SettledOrders PROVE SettledOf(o) = 0
  <2>1. SettledOf(o) = SumOver([i \in {} |-> fills[i].base], {})
    BY <1>1 DEF SettledOf
  <2>. QED  BY <2>1, SumEmpty
<1>3. filled \in [SettledOrders -> Nat] /\ \A o \in SettledOrders : filled[o] = 0
  BY DEF SettlementInit
<1>. QED  BY <1>1, <1>2, <1>3 DEF SettlementSafe, Accounted, SettlementAssumption

(* Over any number of settlements, at any prices and rates, an order gives *)
(* no more than it signed.                                                 *)
THEOREM SettledWithinSigned == SettlementSpec => []WithinSignedOrder
<1>1. ASSUME SettlementSafe PROVE WithinSignedOrder
  <2>1. ASSUME NEW o \in SettledOrders PROVE SettledOf(o) <= o.base
    <3>1. SettledOf(o) <= filled[o] /\ filled[o] <= o.base
      BY <1>1 DEF SettlementSafe, Accounted
    <3>2. SettledOf(o) \in Int /\ filled[o] \in Int /\ o.base \in Int
      BY <1>1, BaseIsNatural, SettlementAssumption DEF SettlementSafe, SettlementAssumption
    <3>. QED  BY <3>1, <3>2
  <2>2. ASSUME NEW o \in SettledOrders, o.timeInForce # "GTC" PROVE Cardinality(FillsOf(o)) <= 1
    <3>1. CASE FillsOf(o) = {}
      BY <3>1, FS_EmptySet
    <3>2. CASE FillsOf(o) # {}
      BY <1>1, <2>2, <3>2 DEF SettlementSafe, Accounted
    <3>. QED  BY <3>1, <3>2
  <2>. QED  BY <1>1, <2>1, <2>2 DEF WithinSignedOrder, SettlementSafe
<1>2. SettlementInit => SettlementSafe
  BY SettlementAssumption, SettlementSafeInit
<1>3. SettlementSafe /\ [SettlementNext]_settlementVars => SettlementSafe'
  BY SettlementAssumption, SettlementSafeNext
<1>. QED  BY <1>1, <1>2, <1>3, PTL DEF SettlementSpec

-----------------------------------------------------------------------------
(* The automated market maker. *)

AmmSpec == AmmInit /\ [][AmmNext]_ammVars

Holdings == [AmmTokens -> [AmmHolders -> Nat]]

AmmTypes ==
  /\ reserves \in [AmmQuotes -> [zec : Nat, quote : Nat]]
  /\ shareSupply \in [AmmQuotes -> Nat]

\* These balances hold the reserves, the shares are all of the supply, and the
\* first ones of an opened pool are nobody's.
Covered(b) ==
  /\ b \in Holdings
  /\ \A q \in AmmQuotes :
       /\ reserves[q].zec <= b[ZecAsset][PairOf(q)] /\ reserves[q].quote <= b[q][PairOf(q)]
       /\ SumOver(b[Share(q)], AmmHolders) = shareSupply[q]
       /\ shareSupply[q] > 0 => /\ reserves[q].zec > 0 /\ reserves[q].quote > 0
                                /\ b[Share(q)][Nobody] >= MinimumLiquidity

AmmInv == AmmTypes /\ Covered(owned)

\* What ShareKeepsValue says of one pair.
ValueKept(q) ==
  shareSupply[q] > 0 =>
    /\ shareSupply'[q] >= MinimumLiquidity
    /\ reserves'[q].zec > 0 /\ reserves'[q].quote > 0
    /\ reserves'[q].zec * reserves'[q].quote * shareSupply[q] * shareSupply[q]
         >= reserves[q].zec * reserves[q].quote * shareSupply'[q] * shareSupply'[q]

LEMMA AmmNames ==
  /\ IsFiniteSet(AmmHolders)
  /\ \A q \in AmmQuotes :
       /\ q # ZecAsset /\ Share(q) # ZecAsset /\ Share(q) \notin AmmQuotes
       /\ {q, ZecAsset, Share(q)} \subseteq AmmTokens
       /\ PairOf(q) \in AmmHolders /\ PairOf(q) \notin Traders /\ PairOf(q) # Nobody
  /\ \A q, r \in AmmQuotes : q # r => Share(q) # Share(r) /\ PairOf(q) # PairOf(r)
  /\ Nobody \in AmmHolders /\ Traders \subseteq AmmHolders /\ Nobody \notin Traders
<1>1. IsFiniteSet({PairOf(q) : q \in AmmQuotes})
  <2>1. [q \in AmmQuotes |-> PairOf(q)] \in Surjection(AmmQuotes, {PairOf(q) : q \in AmmQuotes})
    BY DEF Surjection
  <2>. QED  BY <2>1, AmmAssumption, FS_Surjection
<1>2. IsFiniteSet({Nobody})
  BY FS_Singleton
<1>3. IsFiniteSet(AmmHolders)
  BY <1>1, <1>2, AmmAssumption, FS_Union DEF AmmHolders
<1>4. \A q, r \in AmmQuotes : q # r => Share(q) # Share(r) /\ PairOf(q) # PairOf(r)
  BY DEF Share, PairOf
<1>5. \A q \in AmmQuotes : {q, ZecAsset, Share(q)} \subseteq AmmTokens
  BY DEF AmmTokens
<1>6. \A q \in AmmQuotes : PairOf(q) \in AmmHolders
  BY DEF AmmHolders
<1>. QED  BY <1>3, <1>4, <1>5, <1>6, AmmAssumption DEF AmmHolders

\* A transfer that does not revert moves the amount and nothing else.
LEMMA TransferMoves ==
  ASSUME NEW b \in Holdings, NEW token \in AmmTokens, NEW from \in AmmHolders,
         NEW to \in AmmHolders, from # to, NEW n \in Nat,
         NEW r, r = Transferred(b, token, from, to, n), r # None
  PROVE  /\ n <= b[token][from] /\ r \in Holdings
         /\ r[token][from] = b[token][from] - n /\ r[token][to] = b[token][to] + n
         /\ \A h \in AmmHolders \ {from, to} : r[token][h] = b[token][h]
         /\ \A t \in AmmTokens \ {token} : r[t] = b[t]
         /\ SumOver(r[token], AmmHolders) = SumOver(b[token], AmmHolders)
<1>1. b # None
  BY AmmAssumption DEF Holdings
<1>2. n <= b[token][from] /\ b[token] \in [AmmHolders -> Nat]
  BY <1>1 DEF Transferred, Holdings
<1>3. r = [b EXCEPT ![token][from] = @ - n, ![token][to] = @ + n]
  BY <1>1, <1>2 DEF Transferred, Holdings
<1>4. PICK mine : mine = [b[token] EXCEPT ![from] = @ - n, ![to] = @ + n]
  OBVIOUS
<1>5. DOMAIN b = AmmTokens
  BY DEF Holdings
<1>6. r = [b EXCEPT ![token] = mine]
  BY <1>3, <1>4 DEF Holdings
<1>7. r[token] = mine
  BY <1>5, <1>6
<1>8. /\ r[token] \in [AmmHolders -> Nat]
      /\ r[token][from] = b[token][from] - n /\ r[token][to] = b[token][to] + n
      /\ \A h \in AmmHolders \ {from, to} : r[token][h] = b[token][h]
  <2>1. PICK less : less = [b[token] EXCEPT ![from] = @ - n]
    OBVIOUS
  <2>2. less \in [AmmHolders -> Nat]
    BY <1>2, <2>1
  <2>3. mine = [less EXCEPT ![to] = @ + n]
    BY <1>4, <2>1
  <2>. QED  BY <1>2, <1>7, <2>1, <2>2, <2>3
<1>9. \A t \in AmmTokens \ {token} : r[t] = b[t]
  BY <1>5, <1>6
<1>10. r \in Holdings
  <2>1. DOMAIN r = AmmTokens /\ r = [t \in AmmTokens |-> r[t]]
    BY <1>5, <1>6
  <2>2. \A t \in AmmTokens : r[t] \in [AmmHolders -> Nat]
    BY <1>8, <1>9 DEF Holdings
  <2>. QED  BY <2>1, <2>2 DEF Holdings
<1>11. SumOver(r[token], AmmHolders)
         = SumOver(b[token], AmmHolders) + (r[token][from] - b[token][from]) + (r[token][to] - b[token][to])
  <2>1. \A h \in AmmHolders : b[token][h] \in Int /\ r[token][h] \in Int
    BY <1>2, <1>8
  <2>2. \A h \in AmmHolders : h # from /\ h # to => b[token][h] = r[token][h]
    BY <1>8
  <2>3. PICK f, g : f = b[token] /\ g = r[token]
    OBVIOUS
  <2>4. /\ \A h \in AmmHolders : f[h] \in Int /\ g[h] \in Int
        /\ \A h \in AmmHolders : h # from /\ h # to => f[h] = g[h]
    BY <2>1, <2>2, <2>3
  <2>5. SumOver(g, AmmHolders) = SumOver(f, AmmHolders) + (g[from] - f[from]) + (g[to] - f[to])
    BY <2>4, AmmNames, SumChangeTwo
  <2>. QED  BY <2>3, <2>5
<1>12. SumOver(r[token], AmmHolders) = SumOver(b[token], AmmHolders)
  <2>1. SumOver(b[token], AmmHolders) \in Nat /\ b[token][from] \in Nat /\ b[token][to] \in Nat
    BY <1>2, AmmNames, SumNatural
  <2>. QED  BY <1>8, <1>11, <2>1
<1>. QED  BY <1>2, <1>8, <1>9, <1>10, <1>12

\* And one of the amount there is does not revert.
LEMMA TransferStands ==
  ASSUME NEW b \in Holdings, NEW token \in AmmTokens, NEW from \in AmmHolders,
         NEW to \in AmmHolders, NEW n \in Nat, n <= b[token][from]
  PROVE  Transferred(b, token, from, to, n) # None
<1>1. b # None /\ b[token] \in [AmmHolders -> Nat]
  BY AmmAssumption DEF Holdings
<1>2. Transferred(b, token, from, to, n) = [b EXCEPT ![token][from] = @ - n, ![token][to] = @ + n]
  BY <1>1 DEF Transferred
<1>3. [b[token] EXCEPT ![from] = @ - n, ![to] = @ + n] \in [AmmHolders -> Nat]
  <2>1. PICK f : f = [b[token] EXCEPT ![from] = @ - n]
    OBVIOUS
  <2>2. f \in [AmmHolders -> Nat]
    BY <1>1, <2>1
  <2>3. [f EXCEPT ![to] = @ + n] \in [AmmHolders -> Nat]
    BY <2>2
  <2>4. [b[token] EXCEPT ![from] = @ - n, ![to] = @ + n] = [f EXCEPT ![to] = @ + n]
    BY <2>1
  <2>. QED  BY <2>3, <2>4
<1>4. [b EXCEPT ![token][from] = @ - n, ![token][to] = @ + n]
        = [b EXCEPT ![token] = [b[token] EXCEPT ![from] = @ - n, ![to] = @ + n]]
  BY DEF Holdings
<1>5. [b EXCEPT ![token][from] = @ - n, ![token][to] = @ + n] \in Holdings
  BY <1>3, <1>4 DEF Holdings
<1>. QED  BY <1>2, <1>5, AmmAssumption DEF Holdings

\* What is sent to a pair leaves its reserves covered.
LEMMA SentKeeps ==
  ASSUME AmmTypes, NEW b, Covered(b), NEW q \in AmmQuotes, NEW a \in Traders,
         NEW token \in {ZecAsset, q, Share(q)}, NEW n \in Nat,
         NEW r, r = Transferred(b, token, a, PairOf(q), n), r # None
  PROVE  Covered(r)
<1>1. /\ b \in Holdings /\ token \in AmmTokens /\ a \in AmmHolders /\ PairOf(q) \in AmmHolders
      /\ a # PairOf(q)
  BY AmmNames DEF Covered
<1>2. /\ n <= b[token][a] /\ r \in Holdings
      /\ r[token][PairOf(q)] = b[token][PairOf(q)] + n
      /\ \A h \in AmmHolders \ {a, PairOf(q)} : r[token][h] = b[token][h]
      /\ \A t \in AmmTokens \ {token} : r[t] = b[t]
      /\ SumOver(r[token], AmmHolders) = SumOver(b[token], AmmHolders)
  BY <1>1, TransferMoves
<1>3. \A t \in AmmTokens, h \in AmmHolders : h \notin Traders => b[t][h] \in Nat /\ r[t][h] >= b[t][h]
  <2>. SUFFICES ASSUME NEW t \in AmmTokens, NEW h \in AmmHolders, h \notin Traders
                PROVE  b[t][h] \in Nat /\ r[t][h] >= b[t][h]
    OBVIOUS
  <2>1. b[t][h] \in Nat
    BY <1>1 DEF Holdings
  <2>. QED  BY <1>2, <2>1
<1>4. ASSUME NEW p \in AmmQuotes
      PROVE  /\ reserves[p].zec <= r[ZecAsset][PairOf(p)] /\ reserves[p].quote <= r[p][PairOf(p)]
             /\ SumOver(r[Share(p)], AmmHolders) = shareSupply[p]
             /\ shareSupply[p] > 0 => /\ reserves[p].zec > 0 /\ reserves[p].quote > 0
                                      /\ r[Share(p)][Nobody] >= MinimumLiquidity
  <2>1. /\ b[ZecAsset][PairOf(p)] \in Nat /\ r[ZecAsset][PairOf(p)] >= b[ZecAsset][PairOf(p)]
        /\ b[p][PairOf(p)] \in Nat /\ r[p][PairOf(p)] >= b[p][PairOf(p)]
        /\ b[Share(p)][Nobody] \in Nat /\ r[Share(p)][Nobody] >= b[Share(p)][Nobody]
    BY <1>3, AmmNames
  <2>2. SumOver(r[Share(p)], AmmHolders) = SumOver(b[Share(p)], AmmHolders)
    BY <1>2, AmmNames
  <2>3. /\ reserves[p].zec \in Nat /\ reserves[p].quote \in Nat
        /\ r[ZecAsset][PairOf(p)] \in Nat /\ r[p][PairOf(p)] \in Nat /\ r[Share(p)][Nobody] \in Nat
    BY <1>2, AmmNames DEF AmmTypes, Holdings
  <2>. QED  BY <2>1, <2>2, <2>3, AmmAssumption DEF Covered
<1>. QED  BY <1>2, <1>4 DEF Covered

\* An opened pool has the first shares out.
LEMMA OpenedHasShares ==
  ASSUME AmmTypes, NEW b, Covered(b), NEW q \in AmmQuotes
  PROVE  /\ shareSupply[q] \in Nat /\ reserves[q].zec \in Nat /\ reserves[q].quote \in Nat
         /\ b[Share(q)] \in [AmmHolders -> Nat]
         /\ b[ZecAsset][PairOf(q)] \in Nat /\ b[q][PairOf(q)] \in Nat
         /\ b[Share(q)][PairOf(q)] + b[Share(q)][Nobody] <= shareSupply[q]
         /\ shareSupply[q] > 0 => shareSupply[q] >= b[Share(q)][PairOf(q)] + MinimumLiquidity
<1>1. /\ shareSupply[q] \in Nat /\ reserves[q].zec \in Nat /\ reserves[q].quote \in Nat
      /\ b[Share(q)] \in [AmmHolders -> Nat]
  BY AmmNames DEF AmmTypes, Covered, Holdings
<1>2. b[ZecAsset][PairOf(q)] \in Nat /\ b[q][PairOf(q)] \in Nat
  BY AmmNames DEF Covered, Holdings
<1>3. PICK f : f = b[Share(q)]
  OBVIOUS
<1>4. f[PairOf(q)] + f[Nobody] <= SumOver(f, AmmHolders)
  <2>1. \A h \in AmmHolders : f[h] \in Nat /\ f[h] \in Int
    BY <1>1, <1>3
  <2>2. PICK rest : rest = AmmHolders \ {PairOf(q)}
    OBVIOUS
  <2>3. IsFiniteSet(rest) /\ Nobody \in rest /\ PairOf(q) \in AmmHolders
    BY <2>2, AmmNames, FS_Subset
  <2>4. SumOver(f, AmmHolders) = f[PairOf(q)] + SumOver(f, rest)
    BY <2>1, <2>2, <2>3, AmmNames, SumMember
  <2>5. SumOver(f, rest) = f[Nobody] + SumOver(f, rest \ {Nobody})
    BY <2>1, <2>2, <2>3, SumMember
  <2>6. SumOver(f, rest \ {Nobody}) \in Nat
    <3>1. IsFiniteSet(rest \ {Nobody}) /\ \A h \in rest \ {Nobody} : f[h] \in Nat
      BY <2>1, <2>2, <2>3, FS_Subset
    <3>. QED  BY <3>1, SumNatural
  <2>7. f[PairOf(q)] \in Nat /\ f[Nobody] \in Nat
    BY <2>1, <2>3, AmmNames
  <2>. QED  BY <2>4, <2>5, <2>6, <2>7
<1>5. SumOver(f, AmmHolders) = shareSupply[q] /\ (shareSupply[q] > 0 => f[Nobody] >= MinimumLiquidity)
  BY <1>3 DEF Covered
<1>6. f[PairOf(q)] \in Nat /\ f[Nobody] \in Nat
  BY <1>1, <1>3, AmmNames
<1>. QED  BY <1>1, <1>2, <1>3, <1>4, <1>5, <1>6, AmmAssumption

\* A call of one pair leaves the others' as they are.
LEMMA OthersKeep ==
  ASSUME AmmTypes, NEW b, Covered(b), NEW q \in AmmQuotes, NEW s \in Nat,
         owned' \in Holdings,
         reserves' = [reserves EXCEPT ![q] = PairHolds(owned', q)],
         shareSupply' = [shareSupply EXCEPT ![q] = s],
         \A p \in AmmQuotes \ {q} : /\ owned'[Share(p)] = b[Share(p)]
                                    /\ owned'[ZecAsset][PairOf(p)] = b[ZecAsset][PairOf(p)]
                                    /\ owned'[p][PairOf(p)] = b[p][PairOf(p)],
         SumOver(owned'[Share(q)], AmmHolders) = s,
         s > 0 => /\ owned'[ZecAsset][PairOf(q)] > 0 /\ owned'[q][PairOf(q)] > 0
                  /\ owned'[Share(q)][Nobody] >= MinimumLiquidity
  PROVE  AmmInv' /\ \A p \in AmmQuotes \ {q} : ValueKept(p)
<1>1. \A p \in AmmQuotes : owned'[ZecAsset][PairOf(p)] \in Nat /\ owned'[p][PairOf(p)] \in Nat
  BY AmmNames DEF Holdings
<1>2. PairHolds(owned', q) = [zec |-> owned'[ZecAsset][PairOf(q)], quote |-> owned'[q][PairOf(q)]]
  BY DEF PairHolds
<1>3. AmmTypes'
  <2>1. PairHolds(owned', q) \in [zec : Nat, quote : Nat]
    BY <1>1, <1>2
  <2>2. reserves' \in [AmmQuotes -> [zec : Nat, quote : Nat]]
    BY <2>1 DEF AmmTypes
  <2>3. shareSupply' \in [AmmQuotes -> Nat]
    BY DEF AmmTypes
  <2>. QED  BY <2>2, <2>3 DEF AmmTypes
<1>4. /\ reserves'[q].zec = owned'[ZecAsset][PairOf(q)] /\ reserves'[q].quote = owned'[q][PairOf(q)]
      /\ shareSupply'[q] = s
  BY <1>2 DEF AmmTypes
<1>5. \A p \in AmmQuotes \ {q} : reserves'[p] = reserves[p] /\ shareSupply'[p] = shareSupply[p]
  BY DEF AmmTypes
<1>6. ASSUME NEW p \in AmmQuotes
      PROVE  /\ reserves'[p].zec <= owned'[ZecAsset][PairOf(p)] /\ reserves'[p].quote <= owned'[p][PairOf(p)]
             /\ SumOver(owned'[Share(p)], AmmHolders) = shareSupply'[p]
             /\ shareSupply'[p] > 0 => /\ reserves'[p].zec > 0 /\ reserves'[p].quote > 0
                                       /\ owned'[Share(p)][Nobody] >= MinimumLiquidity
  <2>1. CASE p = q
    BY <1>1, <1>4, <2>1
  <2>2. CASE p # q
    BY <1>5, <2>2 DEF Covered
  <2>. QED  BY <2>1, <2>2
<1>7. AmmInv'
  BY <1>3, <1>6 DEF AmmInv, Covered
<1>8. ASSUME NEW p \in AmmQuotes \ {q} PROVE ValueKept(p)
  <2>1. PICK x \in Nat, y \in Nat, n \in Nat : x = reserves[p].zec /\ y = reserves[p].quote /\ n = shareSupply[p]
    BY OpenedHasShares
  <2>2. n > 0 => n >= MinimumLiquidity /\ x > 0 /\ y > 0
    <3>1. shareSupply[p] > 0 => /\ shareSupply[p] >= b[Share(p)][PairOf(p)] + MinimumLiquidity
                                /\ b[Share(p)] \in [AmmHolders -> Nat]
      BY OpenedHasShares
    <3>2. shareSupply[p] > 0 => b[Share(p)][PairOf(p)] \in Nat
      BY <3>1, AmmNames
    <3>. QED  BY <2>1, <3>1, <3>2, AmmAssumption DEF Covered
  <2>3. x * y * n * n >= x * y * n * n
    BY <2>1
  <2>. QED  BY <1>5, <2>1, <2>2, <2>3 DEF ValueKept
<1>. QED  BY <1>7, <1>8

\* The whole part of a square root is there.
LEMMA SqrtIsNat == ASSUME NEW n \in Nat PROVE Sqrt(n) \in Nat
<1>1. PICK r \in Nat : n < (r + 1) * (r + 1) /\ \A k \in Nat : n < (k + 1) * (k + 1) => r <= k
  <2>. DEFINE T == {k \in Nat : n < (k + 1) * (k + 1)}
  <2>1. n \in T
    <3>1. (n + 1) * (n + 1) = n * n + n + n + 1 /\ n * n \in Nat
      OBVIOUS
    <3>. QED  BY <3>1
  <2>2. PICK r \in T : \A k \in T : r <= k
    <3>. HIDE DEF T
    <3>1. T \subseteq Nat
      BY DEF T
    <3>. QED  BY <2>1, <3>1, LeastNatural
  <2>. QED  BY <2>2
<1>2. r * r <= n
  <2>1. CASE r = 0
    BY <2>1
  <2>2. CASE r # 0
    <3>1. r - 1 \in Nat /\ (r - 1) + 1 = r
      BY <2>2
    <3>2. ~ n < r * r
      BY <1>1, <3>1
    <3>. QED  BY <3>2
  <2>. QED  BY <2>1, <2>2
<1>3. r <= n
  <2>1. r <= r * r
    <3>1. CASE r = 0
      BY <3>1
    <3>2. CASE r # 0
      <4>1. 1 <= r
        BY <3>2
      <4>2. 1 * r <= r * r
        BY <4>1, ProductsKeepOrder
      <4>. QED  BY <4>2
    <3>. QED  BY <3>1, <3>2
  <2>2. r * r \in Nat
    OBVIOUS
  <2>. QED  BY <1>2, <2>1, <2>2
<1>4. r \in 0..n
  BY <1>3
<1>5. \E k \in 0..n : k * k <= n /\ n < (k + 1) * (k + 1)
  BY <1>1, <1>2, <1>4
<1>6. Sqrt(n) \in 0..n
  <2>. DEFINE Root(k) == k * k <= n /\ n < (k + 1) * (k + 1)
  <2>1. \E k \in 0..n : Root(k)
    BY <1>5
  <2>2. Sqrt(n) = CHOOSE k \in 0..n : Root(k)
    BY DEF Sqrt
  <2>. HIDE DEF Root
  <2>. QED  BY <2>1, <2>2
<1>. QED  BY <1>6

\* A deposit is worth at least the shares given for it.
LEMMA MintKeeps ==
  ASSUME AmmTypes, NEW b, Covered(b), NEW q \in AmmQuotes, NEW a \in Traders, NEW least \in Nat,
         Mint(q, b, a, least)
  PROVE  AmmInv' /\ \A p \in AmmQuotes : ValueKept(p)
<1>0. PICK x, y, z, u, n :
        /\ x = reserves[q].zec /\ y = reserves[q].quote /\ n = shareSupply[q]
        /\ z = b[ZecAsset][PairOf(q)] /\ u = b[q][PairOf(q)]
  OBVIOUS
<1>1. /\ x \in Nat /\ y \in Nat /\ z \in Nat /\ u \in Nat /\ n \in Nat
      /\ x <= z /\ y <= u /\ (n > 0 => x > 0 /\ y > 0 /\ n >= MinimumLiquidity)
  <2>1. b[Share(q)][PairOf(q)] \in Nat /\ b[Share(q)][Nobody] \in Nat
    BY OpenedHasShares, AmmNames
  <2>2. shareSupply[q] > 0 => shareSupply[q] >= MinimumLiquidity
    BY <2>1, OpenedHasShares, AmmAssumption
  <2>3. /\ reserves[q].zec <= b[ZecAsset][PairOf(q)] /\ reserves[q].quote <= b[q][PairOf(q)]
        /\ shareSupply[q] > 0 => reserves[q].zec > 0 /\ reserves[q].quote > 0
    BY DEF Covered
  <2>4. /\ shareSupply[q] \in Nat /\ reserves[q].zec \in Nat /\ reserves[q].quote \in Nat
        /\ b[ZecAsset][PairOf(q)] \in Nat /\ b[q][PairOf(q)] \in Nat
    BY OpenedHasShares
  <2>. QED  BY <1>0, <2>2, <2>3, <2>4
<1>2. PICK shares, first :
        /\ z - x > 0 /\ u - y > 0
        /\ shares = SharesFor(q, z - x, u - y) /\ shares > 0
        /\ first = IF n = 0 THEN MinimumLiquidity ELSE 0
        /\ shareSupply' = [shareSupply EXCEPT ![q] = @ + first + shares]
        /\ owned' = [b EXCEPT ![Share(q)][Nobody] = @ + first, ![Share(q)][a] = @ + shares]
        /\ reserves' = [reserves EXCEPT ![q] = PairHolds(b, q)]
  <2>0. PICK now : now = PairHolds(b, q)
    OBVIOUS
  <2>1. now = PairHolds(b, q) /\ now.zec = z /\ now.quote = u
    BY <1>0, <2>0 DEF PairHolds
  <2>2. PICK inZec, inQuote :
          /\ inZec = now.zec - x /\ inQuote = now.quote - y
          /\ inZec > 0 /\ inQuote > 0
          /\ \E shares \in {SharesFor(q, inZec, inQuote)} :
               /\ shares > 0 /\ shares >= least
               /\ \E first \in {IF shareSupply[q] = 0 THEN MinimumLiquidity ELSE 0} :
                    /\ shareSupply' = [shareSupply EXCEPT ![q] = @ + first + shares]
                    /\ owned' = [b EXCEPT ![Share(q)][Nobody] = @ + first, ![Share(q)][a] = @ + shares]
          /\ reserves' = [reserves EXCEPT ![q] = now]
    BY <1>0, <2>1 DEF Mint
  <2>3. PICK shares, first :
          /\ shares = SharesFor(q, inZec, inQuote) /\ shares > 0
          /\ first = IF shareSupply[q] = 0 THEN MinimumLiquidity ELSE 0
          /\ shareSupply' = [shareSupply EXCEPT ![q] = @ + first + shares]
          /\ owned' = [b EXCEPT ![Share(q)][Nobody] = @ + first, ![Share(q)][a] = @ + shares]
    BY <2>2
  <2>. QED  BY <1>0, <2>1, <2>2, <2>3
<1>3. PICK inZec \in Nat \ {0}, inQuote \in Nat \ {0} :
        inZec = z - x /\ inQuote = u - y /\ z = x + inZec /\ u = y + inQuote
  BY <1>0, <1>1, <1>2
<1>4. first \in Nat
  BY <1>0, <1>1, <1>2, AmmAssumption
<1>5. shares \in Nat \ {0} /\ (n > 0 => shares * x <= inZec * n /\ shares * y <= inQuote * n)
  <2>1. CASE n = 0
    <3>1. shares = Sqrt(inZec * inQuote) - MinimumLiquidity
      BY <1>0, <1>1, <1>2, <1>3, <2>1 DEF SharesFor
    <3>2. Sqrt(inZec * inQuote) \in Nat
      BY <1>3, SqrtIsNat
    <3>. QED  BY <1>2, <2>1, <3>1, <3>2, AmmAssumption
  <2>2. CASE n # 0
    <3>1. x \in Nat \ {0} /\ y \in Nat \ {0} /\ inZec * n \in Nat /\ inQuote * n \in Nat
      BY <1>0, <1>1, <1>3, <2>2
    <3>2. PICK c \in Nat, d \in Nat : /\ c = (inZec * n) \div x /\ x * c <= inZec * n
                                     /\ d = (inQuote * n) \div y /\ y * d <= inQuote * n
      BY <3>1, Quotients
    <3>3. shares = IF c < d THEN c ELSE d
      BY <1>0, <1>1, <1>2, <1>3, <2>2, <3>2 DEF SharesFor, Smaller
    <3>4. shares \in Nat \ {0} /\ shares <= c /\ shares <= d
      BY <1>2, <3>2, <3>3
    <3>5. shares * x <= c * x /\ shares * y <= d * y
      BY <3>1, <3>2, <3>4, ProductsKeepOrder
    <3>. QED  BY <3>1, <3>2, <3>4, <3>5
  <2>. QED  BY <1>0, <1>1, <2>1, <2>2
<1>6. PICK s \in Nat : s = n + first + shares
  BY <1>0, <1>1, <1>4, <1>5
<1>7. /\ b \in Holdings /\ Share(q) \in AmmTokens /\ Nobody \in AmmHolders /\ a \in AmmHolders
      /\ Nobody # a /\ DOMAIN b = AmmTokens
  BY AmmNames DEF Covered, Holdings
<1>8. PICK mine : mine = [b[Share(q)] EXCEPT ![Nobody] = @ + first, ![a] = @ + shares]
  OBVIOUS
<1>9. owned' = [b EXCEPT ![Share(q)] = mine]
  BY <1>2, <1>7, <1>8
<1>10. owned'[Share(q)] = mine /\ \A t \in AmmTokens \ {Share(q)} : owned'[t] = b[t]
  BY <1>7, <1>9
<1>11. /\ mine \in [AmmHolders -> Nat] /\ b[Share(q)] \in [AmmHolders -> Nat]
       /\ mine[Nobody] = b[Share(q)][Nobody] + first /\ mine[a] = b[Share(q)][a] + shares
       /\ \A h \in AmmHolders : h # Nobody /\ h # a => b[Share(q)][h] = mine[h]
  <2>1. PICK half : half = [b[Share(q)] EXCEPT ![Nobody] = @ + first]
    OBVIOUS
  <2>2. b[Share(q)] \in [AmmHolders -> Nat]
    BY <1>7 DEF Holdings
  <2>3. half \in [AmmHolders -> Nat]
    BY <1>4, <1>7, <2>1, <2>2
  <2>4. mine = [half EXCEPT ![a] = @ + shares]
    BY <1>8, <2>1
  <2>. QED  BY <1>5, <1>7, <2>1, <2>2, <2>3, <2>4
<1>12. owned' \in Holdings
  <2>1. DOMAIN owned' = AmmTokens /\ owned' = [t \in AmmTokens |-> owned'[t]]
    BY <1>7, <1>9
  <2>2. \A t \in AmmTokens : owned'[t] \in [AmmHolders -> Nat]
    BY <1>7, <1>10, <1>11 DEF Holdings
  <2>. QED  BY <2>1, <2>2 DEF Holdings
<1>13. SumOver(owned'[Share(q)], AmmHolders) = s
  <2>1. PICK f : f = b[Share(q)]
    OBVIOUS
  <2>2. \A h \in AmmHolders : f[h] \in Int /\ mine[h] \in Int
    BY <1>11, <2>1
  <2>3. SumOver(mine, AmmHolders) = SumOver(f, AmmHolders) + (mine[Nobody] - f[Nobody]) + (mine[a] - f[a])
    BY <1>7, <1>11, <2>1, <2>2, AmmNames, SumChangeTwo
  <2>4. SumOver(f, AmmHolders) = n
    BY <1>0, <1>1, <2>1 DEF Covered
  <2>5. f[Nobody] \in Nat /\ f[a] \in Nat
    BY <1>7, <1>11, <2>1
  <2>. QED  BY <1>0, <1>1, <1>4, <1>5, <1>6, <1>10, <1>11, <2>1, <2>3, <2>4, <2>5
<1>14. /\ owned'[ZecAsset] = b[ZecAsset]
       /\ \A p \in AmmQuotes : owned'[p] = b[p]
       /\ \A p \in AmmQuotes \ {q} : owned'[Share(p)] = b[Share(p)]
  BY <1>10, AmmNames
<1>15. owned'[Share(q)][Nobody] >= MinimumLiquidity
  <2>1. b[Share(q)][Nobody] \in Nat
    BY <1>7, <1>11
  <2>2. n > 0 => b[Share(q)][Nobody] >= MinimumLiquidity
    BY <1>0, <1>1 DEF Covered
  <2>3. owned'[Share(q)][Nobody] = b[Share(q)][Nobody] + first
    BY <1>10, <1>11
  <2>4. n = 0 => first = MinimumLiquidity
    BY <1>2
  <2>. QED  BY <1>0, <1>1, <1>4, <2>1, <2>2, <2>3, <2>4, AmmAssumption
<1>16. owned'[ZecAsset][PairOf(q)] = z /\ owned'[q][PairOf(q)] = u /\ z > 0 /\ u > 0
  <2>1. z > 0 /\ u > 0
    BY <1>0, <1>1, <1>3
  <2>2. owned'[ZecAsset][PairOf(q)] = z /\ owned'[q][PairOf(q)] = u
    BY <1>0, <1>1, <1>14
  <2>. QED  BY <2>1, <2>2
<1>17. reserves' = [reserves EXCEPT ![q] = PairHolds(owned', q)]
  BY <1>2, <1>14 DEF PairHolds
<1>18. shareSupply' = [shareSupply EXCEPT ![q] = s]
  BY <1>0, <1>1, <1>2, <1>6
<1>19. AmmInv' /\ \A p \in AmmQuotes \ {q} : ValueKept(p)
  <2>1. \A p \in AmmQuotes \ {q} : /\ owned'[Share(p)] = b[Share(p)]
                                   /\ owned'[ZecAsset][PairOf(p)] = b[ZecAsset][PairOf(p)]
                                   /\ owned'[p][PairOf(p)] = b[p][PairOf(p)]
    BY <1>14
  <2>. QED  BY <2>1, <1>12, <1>13, <1>15, <1>16, <1>17, <1>18, OthersKeep
<1>20. ValueKept(q)
  <2>1. SUFFICES ASSUME n > 0 PROVE ValueKept(q)
    BY <1>0, <1>1 DEF ValueKept
  <2>2. reserves'[q].zec = z /\ reserves'[q].quote = u /\ shareSupply'[q] = s
    BY <1>16, <1>17, <1>18 DEF PairHolds, AmmTypes
  <2>3. s = n + shares
    BY <1>0, <1>1, <1>2, <1>5, <1>6, <2>1
  <2>4. s * x <= n * z /\ s * y <= n * u
    <3>1. s * x = n * x + shares * x /\ n * z = n * x + inZec * n
      BY <1>1, <1>3, <1>5, <2>3
    <3>2. s * y = n * y + shares * y /\ n * u = n * y + inQuote * n
      BY <1>1, <1>3, <1>5, <2>3
    <3>. QED  BY <1>1, <1>3, <1>5, <2>1, <3>1, <3>2
  <2>5. (s * x) * (s * y) <= (n * z) * (n * u)
    <3>1. s * x \in Nat /\ n * z \in Nat /\ s * y \in Nat /\ n * u \in Nat
      BY <1>1
    <3>. QED  BY <2>4, <3>1, ProductsKeepOrder
  <2>6. (s * x) * (s * y) = x * y * s * s /\ (n * z) * (n * u) = z * u * n * n
    BY <1>1
  <2>7. z * u * n * n >= x * y * s * s
    BY <2>5, <2>6
  <2>8. s >= MinimumLiquidity
    BY <1>0, <1>1, <1>5, <2>1, <2>3, AmmAssumption
  <2>. QED  BY <1>0, <1>1, <1>16, <2>2, <2>7, <2>8 DEF ValueKept
<1>. QED  BY <1>19, <1>20

\* A swap leaves the product of the reserves no smaller.
LEMMA ProductStands ==
  ASSUME NEW x \in Nat, NEW y \in Nat, NEW z \in Nat, NEW out \in Nat, out <= y,
         ProductHolds(z, x, y, out)
  PROVE  (x + z) * (y - out) >= x * y
<1>1. PICK fee \in Nat, bps \in Nat \ {0}, rest \in Nat :
        fee = PairFee /\ bps = PairBps /\ fee <= bps /\ rest = y - out
  <2>1. y - out \in Nat
    OBVIOUS
  <2>. QED  BY <2>1, AmmAssumption
<1>2. PICK net \in Nat : net = (x + z) * bps - z * fee /\ net <= (x + z) * bps
  <2>1. z * fee <= z * bps /\ (x + z) * bps = x * bps + z * bps
    BY <1>1, ProductsKeepOrder
  <2>2. x * bps \in Nat /\ z * bps \in Nat /\ z * fee \in Nat
    BY <1>1
  <2>3. (x + z) * bps - z * fee \in Nat /\ (x + z) * bps - z * fee <= (x + z) * bps
    BY <2>1, <2>2
  <2>. QED  BY <2>3
<1>3. net * (rest * bps) >= x * y * bps * bps
  BY <1>1, <1>2 DEF ProductHolds
<1>4. PICK whole \in Nat, part \in Nat : whole = (x + z) * bps /\ part = rest * bps
  BY <1>1
<1>5. net * part <= whole * part
  BY <1>2, <1>4, ProductsKeepOrder
<1>6. PICK u \in Nat, v \in Nat, k \in Nat \ {0} : u = x * y /\ v = (x + z) * rest /\ k = bps * bps
  BY <1>1
<1>7. u * k = x * y * bps * bps /\ v * k = whole * part
  BY <1>1, <1>4, <1>6
<1>8. u * k <= v * k
  <2>1. net * part \in Nat /\ whole * part \in Nat /\ u * k \in Nat
    BY <1>2, <1>4, <1>6
  <2>. QED  BY <1>3, <1>4, <1>5, <1>7, <2>1
<1>. QED  BY <1>1, <1>6, <1>8, FactorLeavesOrder

LEMMA SwapKeeps ==
  ASSUME AmmTypes, NEW b, Covered(b), NEW q \in AmmQuotes, NEW a \in Traders,
         NEW zecIn \in BOOLEAN, NEW least \in Nat, Swap(q, b, zecIn, least, a)
  PROVE  AmmInv' /\ \A p \in AmmQuotes : ValueKept(p)
<1>0. PICK x, y, z, u, n :
        /\ x = reserves[q].zec /\ y = reserves[q].quote /\ n = shareSupply[q]
        /\ z = b[ZecAsset][PairOf(q)] /\ u = b[q][PairOf(q)]
  OBVIOUS
<1>1. /\ x \in Nat /\ y \in Nat /\ z \in Nat /\ u \in Nat /\ n \in Nat
      /\ x <= z /\ y <= u /\ (n > 0 => x > 0 /\ y > 0 /\ n >= MinimumLiquidity)
  <2>1. b[Share(q)][PairOf(q)] \in Nat /\ b[Share(q)][Nobody] \in Nat
    BY OpenedHasShares, AmmNames
  <2>2. shareSupply[q] > 0 => shareSupply[q] >= MinimumLiquidity
    BY <2>1, OpenedHasShares, AmmAssumption
  <2>3. /\ reserves[q].zec <= b[ZecAsset][PairOf(q)] /\ reserves[q].quote <= b[q][PairOf(q)]
        /\ shareSupply[q] > 0 => reserves[q].zec > 0 /\ reserves[q].quote > 0
    BY DEF Covered
  <2>4. /\ shareSupply[q] \in Nat /\ reserves[q].zec \in Nat /\ reserves[q].quote \in Nat
        /\ b[ZecAsset][PairOf(q)] \in Nat /\ b[q][PairOf(q)] \in Nat
    BY OpenedHasShares
  <2>. QED  BY <1>0, <2>2, <2>3, <2>4
<1>2. PICK in, out, tokenIn, tokenOut, reserveIn, reserveOut :
        /\ tokenIn = (IF zecIn THEN ZecAsset ELSE q) /\ tokenOut = (IF zecIn THEN q ELSE ZecAsset)
        /\ reserveIn = (IF zecIn THEN x ELSE y) /\ reserveOut = (IF zecIn THEN y ELSE x)
        /\ in = b[tokenIn][PairOf(q)] - reserveIn
        /\ in > 0 /\ reserveIn > 0 /\ reserveOut > 0
        /\ out = QuoteOut(in, reserveIn, reserveOut) /\ out < reserveOut
        /\ ProductHolds(in, reserveIn, reserveOut, out)
        /\ owned' = Transferred(b, tokenOut, PairOf(q), a, out)
        /\ reserves' = [reserves EXCEPT ![q] = PairHolds(owned', q)]
        /\ shareSupply' = shareSupply
  BY <1>0 DEF Swap
<1>3. /\ reserveIn \in Nat \ {0} /\ reserveOut \in Nat \ {0} /\ in \in Nat \ {0}
      /\ b[tokenIn][PairOf(q)] \in Nat /\ b[tokenOut][PairOf(q)] \in Nat
      /\ b[tokenIn][PairOf(q)] = reserveIn + in /\ b[tokenOut][PairOf(q)] >= reserveOut
      /\ tokenIn \in {ZecAsset, q} /\ tokenOut = (IF tokenIn = q THEN ZecAsset ELSE q)
  <2>1. CASE zecIn
    BY <1>0, <1>1, <1>2, <2>1, AmmNames
  <2>2. CASE ~zecIn
    BY <1>0, <1>1, <1>2, <2>2, AmmNames
  <2>. QED  BY <2>1, <2>2
<1>4. out \in Nat
  <2>1. PICK payment \in Nat : payment = in * (PairBps - PairFee)
    <3>1. PairBps - PairFee \in Nat
      BY AmmAssumption
    <3>. QED  BY <1>3, <3>1
  <2>2. payment * reserveOut \in Nat
    BY <1>3, <2>1
  <2>3. reserveIn * PairBps + payment \in Nat \ {0}
    <3>1. reserveIn * PairBps \in Nat \ {0}
      BY <1>3, AmmAssumption
    <3>. QED  BY <2>1, <3>1
  <2>4. out = (payment * reserveOut) \div (reserveIn * PairBps + payment)
    BY <1>2, <2>1 DEF QuoteOut
  <2>. QED  BY <2>2, <2>3, <2>4, Quotients
<1>5. (reserveIn + in) * (reserveOut - out) >= reserveIn * reserveOut
  <2>1. out <= reserveOut
    BY <1>2, <1>3, <1>4
  <2>. QED  BY <1>2, <1>3, <1>4, <2>1, ProductStands
<1>6. /\ b \in Holdings /\ tokenOut \in AmmTokens /\ PairOf(q) \in AmmHolders /\ a \in AmmHolders
      /\ PairOf(q) # a
  BY <1>3, AmmNames DEF Covered
<1>7. out <= b[tokenOut][PairOf(q)]
  BY <1>2, <1>3, <1>4
<1>8. owned' # None
  BY <1>2, <1>4, <1>6, <1>7, TransferStands
<1>9. /\ owned' \in Holdings
      /\ owned'[tokenOut][PairOf(q)] = b[tokenOut][PairOf(q)] - out
      /\ \A h \in AmmHolders \ {PairOf(q), a} : owned'[tokenOut][h] = b[tokenOut][h]
      /\ \A t \in AmmTokens \ {tokenOut} : owned'[t] = b[t]
  BY <1>2, <1>4, <1>6, <1>8, TransferMoves
<1>10. /\ owned'[Share(q)] = b[Share(q)]
       /\ \A p \in AmmQuotes \ {q} : /\ owned'[Share(p)] = b[Share(p)]
                                     /\ owned'[ZecAsset][PairOf(p)] = b[ZecAsset][PairOf(p)]
                                     /\ owned'[p][PairOf(p)] = b[p][PairOf(p)]
  BY <1>3, <1>9, AmmNames
<1>11. PICK i \in Nat, o \in Nat : /\ i = owned'[tokenIn][PairOf(q)] /\ o = owned'[tokenOut][PairOf(q)]
                                  /\ i = reserveIn + in /\ o >= reserveOut - out
                                  /\ i > 0 /\ o > 0
  <2>1. owned'[tokenIn] = b[tokenIn]
    BY <1>3, <1>9, AmmNames
  <2>2. b[tokenOut][PairOf(q)] - out \in Nat /\ b[tokenOut][PairOf(q)] - out > 0
        /\ b[tokenOut][PairOf(q)] - out >= reserveOut - out
    BY <1>2, <1>3, <1>4, <1>7
  <2>3. owned'[tokenIn][PairOf(q)] = reserveIn + in
    BY <1>3, <2>1
  <2>4. reserveIn + in \in Nat /\ reserveIn + in > 0
    BY <1>3
  <2>. QED  BY <1>9, <2>2, <2>3, <2>4
<1>12. i * o >= x * y
  <2>1. reserveOut - out \in Nat
    BY <1>2, <1>3, <1>4
  <2>2. i * (reserveOut - out) <= i * o
    BY <1>11, <2>1, ProductsKeepOrder
  <2>3. reserveIn * reserveOut = x * y
    BY <1>1, <1>2
  <2>4. i * (reserveOut - out) \in Nat /\ i * o \in Nat /\ x * y \in Nat
    BY <1>1, <1>11, <2>1
  <2>. QED  BY <1>5, <1>11, <2>2, <2>3, <2>4
<1>13. PICK z2 \in Nat, u2 \in Nat : /\ z2 = owned'[ZecAsset][PairOf(q)] /\ u2 = owned'[q][PairOf(q)]
                                     /\ z2 > 0 /\ u2 > 0 /\ z2 * u2 >= x * y
  <2>1. CASE tokenIn = ZecAsset
    BY <1>3, <1>11, <1>12, <2>1, AmmNames
  <2>2. CASE tokenIn = q
    <3>1. i * o = o * i
      BY <1>11
    <3>. QED  BY <1>3, <1>11, <1>12, <2>2, <3>1, AmmNames
  <2>. QED  BY <1>3, <2>1, <2>2
<1>14. shareSupply' = [shareSupply EXCEPT ![q] = n]
  BY <1>0, <1>2 DEF AmmTypes
<1>15. /\ SumOver(owned'[Share(q)], AmmHolders) = n
       /\ n > 0 => owned'[Share(q)][Nobody] >= MinimumLiquidity
  BY <1>0, <1>10 DEF Covered
<1>16. AmmInv' /\ \A p \in AmmQuotes \ {q} : ValueKept(p)
  <2>1. owned' \in Holdings /\ reserves' = [reserves EXCEPT ![q] = PairHolds(owned', q)]
    BY <1>2, <1>9
  <2>2. n > 0 => /\ owned'[ZecAsset][PairOf(q)] > 0 /\ owned'[q][PairOf(q)] > 0
                 /\ owned'[Share(q)][Nobody] >= MinimumLiquidity
    BY <1>13, <1>15
  <2>3. \A p \in AmmQuotes \ {q} : /\ owned'[Share(p)] = b[Share(p)]
                                   /\ owned'[ZecAsset][PairOf(p)] = b[ZecAsset][PairOf(p)]
                                   /\ owned'[p][PairOf(p)] = b[p][PairOf(p)]
    BY <1>10
  <2>4. SumOver(owned'[Share(q)], AmmHolders) = n /\ n \in Nat
    BY <1>1, <1>15
  <2>. QED  BY <2>1, <2>2, <2>3, <2>4, <1>14, OthersKeep
<1>17. ValueKept(q)
  <2>1. reserves'[q].zec = z2 /\ reserves'[q].quote = u2 /\ shareSupply'[q] = n
    BY <1>2, <1>13, <1>14 DEF PairHolds, AmmTypes
  <2>2. x * y * n * n <= z2 * u2 * n * n
    <3>1. PICK c \in Nat, d \in Nat, e \in Nat : c = x * y /\ d = z2 * u2 /\ e = n * n
      BY <1>1
    <3>2. c * e <= d * e
      BY <1>13, <3>1, ProductsKeepOrder
    <3>3. x * y * n * n = c * e /\ z2 * u2 * n * n = d * e
      BY <1>1, <3>1
    <3>. QED  BY <3>2, <3>3
  <2>3. z2 * u2 * n * n >= x * y * n * n
    BY <1>1, <2>2
  <2>. QED  BY <1>0, <1>1, <1>13, <2>1, <2>3 DEF ValueKept
<1>. QED  BY <1>16, <1>17

\* Burning shares takes out no more than their part.
LEMMA BurnKeeps ==
  ASSUME AmmTypes, NEW b, Covered(b), NEW q \in AmmQuotes, NEW a \in Traders,
         NEW leastZec \in Nat, NEW leastQuote \in Nat, Burn(q, b, a, leastZec, leastQuote)
  PROVE  AmmInv' /\ \A p \in AmmQuotes : ValueKept(p)
<1>0. PICK x, y, z, u, n, h :
        /\ x = reserves[q].zec /\ y = reserves[q].quote /\ n = shareSupply[q]
        /\ z = b[ZecAsset][PairOf(q)] /\ u = b[q][PairOf(q)] /\ h = b[Share(q)][PairOf(q)]
  OBVIOUS
<1>1. /\ x \in Nat /\ y \in Nat /\ z \in Nat /\ u \in Nat /\ n \in Nat /\ h \in Nat
      /\ x <= z /\ y <= u /\ h <= n /\ (n > 0 => x > 0 /\ y > 0 /\ n >= h + MinimumLiquidity)
  <2>1. b[Share(q)][PairOf(q)] \in Nat /\ b[Share(q)][Nobody] \in Nat
    BY OpenedHasShares, AmmNames
  <2>2. /\ shareSupply[q] > 0 => shareSupply[q] >= b[Share(q)][PairOf(q)] + MinimumLiquidity
        /\ b[Share(q)][PairOf(q)] + b[Share(q)][Nobody] <= shareSupply[q]
    BY OpenedHasShares
  <2>3. /\ reserves[q].zec <= b[ZecAsset][PairOf(q)] /\ reserves[q].quote <= b[q][PairOf(q)]
        /\ shareSupply[q] > 0 => reserves[q].zec > 0 /\ reserves[q].quote > 0
    BY DEF Covered
  <2>4. /\ shareSupply[q] \in Nat /\ reserves[q].zec \in Nat /\ reserves[q].quote \in Nat
        /\ b[ZecAsset][PairOf(q)] \in Nat /\ b[q][PairOf(q)] \in Nat
    BY OpenedHasShares
  <2>. QED  BY <1>0, <2>1, <2>2, <2>3, <2>4
<1>2. PICK outZec, outQuote, given, payment :
        /\ h > 0
        /\ outZec = (h * z) \div n /\ outQuote = (h * u) \div n
        /\ given = [b EXCEPT ![Share(q)][PairOf(q)] = 0]
        /\ payment = Transferred(given, ZecAsset, PairOf(q), a, outZec)
        /\ owned' = Transferred(payment, q, PairOf(q), a, outQuote)
        /\ shareSupply' = [shareSupply EXCEPT ![q] = @ - h]
        /\ reserves' = [reserves EXCEPT ![q] = PairHolds(owned', q)]
  <2>0. PICK now : now = PairHolds(b, q)
    OBVIOUS
  <2>1. now.zec = z /\ now.quote = u
    BY <1>0, <2>0 DEF PairHolds
  <2>2. PICK outZec, outQuote :
        /\ h > 0
        /\ outZec = (h * now.zec) \div n /\ outQuote = (h * now.quote) \div n
        /\ owned' = Transferred(Transferred([b EXCEPT ![Share(q)][PairOf(q)] = 0],
                                            ZecAsset, PairOf(q), a, outZec), q, PairOf(q), a, outQuote)
        /\ shareSupply' = [shareSupply EXCEPT ![q] = @ - h]
        /\ reserves' = [reserves EXCEPT ![q] = PairHolds(owned', q)]
    BY <1>0, <2>0 DEF Burn
  <2>. QED  BY <2>1, <2>2
<1>3. PICK k \in Nat \ {0} : k = n - h /\ n = k + h /\ k >= MinimumLiquidity
  <2>1. n > 0 /\ n >= h + MinimumLiquidity
    BY <1>1, <1>2
  <2>2. n - h \in Nat \ {0} /\ n - h >= MinimumLiquidity
    BY <1>1, <2>1, AmmAssumption
  <2>. QED  BY <1>1, <2>2
<1>4. x \in Nat \ {0} /\ y \in Nat \ {0} /\ z \in Nat \ {0} /\ u \in Nat \ {0} /\ n \in Nat \ {0}
  BY <1>1, <1>2
<1>5. /\ outZec \in Nat /\ z - outZec \in Nat \ {0} /\ k * z <= (z - outZec) * n
      /\ outQuote \in Nat /\ u - outQuote \in Nat \ {0} /\ k * u <= (u - outQuote) * n
  <2>1. h * z \in Nat /\ h * u \in Nat
    BY <1>1
  <2>2. (h * z) \div n \in Nat /\ (h * u) \div n \in Nat
    BY <1>4, <2>1, Quotients
  <2>3. z - (h * z) \div n \in Nat \ {0} /\ k * z <= (z - (h * z) \div n) * n
    BY <1>1, <1>3, <1>4, BurnLeaves
  <2>4. u - (h * u) \div n \in Nat \ {0} /\ k * u <= (u - (h * u) \div n) * n
    BY <1>1, <1>3, <1>4, BurnLeaves
  <2>. QED  BY <1>2, <2>2, <2>3, <2>4
<1>6. /\ b \in Holdings /\ ZecAsset \in AmmTokens /\ q \in AmmTokens /\ Share(q) \in AmmTokens
      /\ PairOf(q) \in AmmHolders /\ a \in AmmHolders /\ PairOf(q) # a
      /\ b[Share(q)] \in [AmmHolders -> Nat]
  BY AmmNames DEF Covered, Holdings
\* The shares given back are gone.
<1>7. /\ given \in Holdings
      /\ given[Share(q)] = [b[Share(q)] EXCEPT ![PairOf(q)] = 0]
      /\ \A t \in AmmTokens \ {Share(q)} : given[t] = b[t]
  <2>1. PICK mine : mine = [b[Share(q)] EXCEPT ![PairOf(q)] = 0]
    OBVIOUS
  <2>2. given = [b EXCEPT ![Share(q)] = mine]
    BY <1>2, <2>1
  <2>3. mine \in [AmmHolders -> Nat]
    BY <1>6, <2>1
  <2>. QED  BY <1>6, <2>1, <2>2, <2>3 DEF Holdings
<1>8. SumOver(given[Share(q)], AmmHolders) = k
  <2>1. PICK f, g : f = b[Share(q)] /\ g = given[Share(q)]
    OBVIOUS
  <2>2. /\ \A i \in AmmHolders : f[i] \in Int /\ g[i] \in Int
        /\ \A i \in AmmHolders \ {PairOf(q)} : f[i] = g[i]
        /\ f[PairOf(q)] = h /\ g[PairOf(q)] = 0
    BY <1>0, <1>6, <1>7, <2>1
  <2>3. SumOver(g, AmmHolders) = SumOver(f, AmmHolders) + g[PairOf(q)] - f[PairOf(q)]
    BY <1>6, <2>2, AmmNames, SumChange
  <2>4. SumOver(f, AmmHolders) = n
    BY <1>0, <2>1 DEF Covered
  <2>. QED  BY <1>1, <1>3, <2>1, <2>2, <2>3, <2>4
\* Both payments go through.
<1>9. /\ payment \in Holdings
      /\ payment[ZecAsset][PairOf(q)] = z - outZec
      /\ \A i \in AmmHolders \ {PairOf(q), a} : payment[ZecAsset][i] = given[ZecAsset][i]
      /\ \A t \in AmmTokens \ {ZecAsset} : payment[t] = given[t]
  <2>1. given[ZecAsset][PairOf(q)] = z
    BY <1>0, <1>6, <1>7, AmmNames
  <2>2. outZec <= given[ZecAsset][PairOf(q)]
    BY <1>1, <1>5, <2>1
  <2>3. /\ payment = Transferred(given, ZecAsset, PairOf(q), a, outZec)
        /\ given \in Holdings /\ ZecAsset \in AmmTokens /\ outZec \in Nat
        /\ PairOf(q) \in AmmHolders /\ a \in AmmHolders /\ PairOf(q) # a
    BY <1>2, <1>5, <1>6, <1>7
  <2>4. payment # None
    BY <2>2, <2>3, TransferStands
  <2>. QED  BY <2>1, <2>3, <2>4, TransferMoves
<1>10. /\ owned' \in Holdings
       /\ owned'[q][PairOf(q)] = u - outQuote
       /\ \A i \in AmmHolders \ {PairOf(q), a} : owned'[q][i] = payment[q][i]
       /\ \A t \in AmmTokens \ {q} : owned'[t] = payment[t]
  <2>1. payment[q][PairOf(q)] = u
    BY <1>0, <1>6, <1>7, <1>9, AmmNames
  <2>2. outQuote <= payment[q][PairOf(q)]
    BY <1>1, <1>5, <2>1
  <2>3. /\ owned' = Transferred(payment, q, PairOf(q), a, outQuote)
        /\ payment \in Holdings /\ q \in AmmTokens /\ outQuote \in Nat
        /\ PairOf(q) \in AmmHolders /\ a \in AmmHolders /\ PairOf(q) # a
    BY <1>2, <1>5, <1>6, <1>9
  <2>4. owned' # None
    BY <2>2, <2>3, TransferStands
  <2>. QED  BY <2>1, <2>3, <2>4, TransferMoves
<1>11. owned'[Share(q)] = given[Share(q)] /\ owned'[ZecAsset] = payment[ZecAsset]
  BY <1>6, <1>9, <1>10, AmmNames
<1>12. \A p \in AmmQuotes \ {q} : /\ owned'[Share(p)] = b[Share(p)]
                                  /\ owned'[ZecAsset][PairOf(p)] = b[ZecAsset][PairOf(p)]
                                  /\ owned'[p][PairOf(p)] = b[p][PairOf(p)]
  <2>. SUFFICES ASSUME NEW p \in AmmQuotes \ {q}
                PROVE  /\ owned'[Share(p)] = b[Share(p)]
                       /\ owned'[ZecAsset][PairOf(p)] = b[ZecAsset][PairOf(p)]
                       /\ owned'[p][PairOf(p)] = b[p][PairOf(p)]
    OBVIOUS
  <2>1. /\ p \in AmmTokens \ {q, ZecAsset, Share(q)} /\ Share(p) \in AmmTokens \ {q, ZecAsset, Share(q)}
        /\ PairOf(p) \in AmmHolders \ {PairOf(q), a}
    BY AmmNames
  <2>2. owned'[Share(p)] = b[Share(p)] /\ owned'[p] = b[p]
    BY <1>7, <1>9, <1>10, <2>1
  <2>3. owned'[ZecAsset][PairOf(p)] = given[ZecAsset][PairOf(p)]
    BY <1>9, <1>11, <2>1
  <2>4. given[ZecAsset] = b[ZecAsset]
    BY <1>6, <1>7, AmmNames
  <2>. QED  BY <2>2, <2>3, <2>4
<1>13. PICK z2 \in Nat, u2 \in Nat : /\ z2 = owned'[ZecAsset][PairOf(q)] /\ u2 = owned'[q][PairOf(q)]
                                     /\ z2 > 0 /\ u2 > 0 /\ k * z <= z2 * n /\ k * u <= u2 * n
  <2>1. PICK z2, u2 : z2 = z - outZec /\ u2 = u - outQuote
    OBVIOUS
  <2>2. z2 \in Nat /\ z2 > 0 /\ k * z <= z2 * n
    BY <1>5, <2>1
  <2>3. u2 \in Nat /\ u2 > 0 /\ k * u <= u2 * n
    BY <1>5, <2>1
  <2>4. z2 = owned'[ZecAsset][PairOf(q)] /\ u2 = owned'[q][PairOf(q)]
    BY <1>9, <1>10, <1>11, <2>1
  <2>. QED  BY <2>2, <2>3, <2>4
<1>14. owned'[Share(q)][Nobody] >= MinimumLiquidity
  <2>1. given[Share(q)][Nobody] = b[Share(q)][Nobody]
    BY <1>6, <1>7, AmmNames
  <2>2. b[Share(q)][Nobody] >= MinimumLiquidity
    BY <1>0, <1>4 DEF Covered
  <2>. QED  BY <1>11, <2>1, <2>2
<1>15. shareSupply' = [shareSupply EXCEPT ![q] = k]
  BY <1>0, <1>2, <1>3 DEF AmmTypes
<1>16. AmmInv' /\ \A p \in AmmQuotes \ {q} : ValueKept(p)
  <2>1. SumOver(owned'[Share(q)], AmmHolders) = k /\ k \in Nat
    BY <1>8, <1>11
  <2>2. k > 0 => /\ owned'[ZecAsset][PairOf(q)] > 0 /\ owned'[q][PairOf(q)] > 0
                 /\ owned'[Share(q)][Nobody] >= MinimumLiquidity
    BY <1>13, <1>14
  <2>3. owned' \in Holdings /\ reserves' = [reserves EXCEPT ![q] = PairHolds(owned', q)]
    BY <1>2, <1>10
  <2>. QED  BY <2>1, <2>2, <2>3, <1>12, <1>15, OthersKeep
<1>17. ValueKept(q)
  <2>1. reserves'[q].zec = z2 /\ reserves'[q].quote = u2 /\ shareSupply'[q] = k
    BY <1>2, <1>13, <1>15 DEF PairHolds, AmmTypes
  <2>2. k * x <= z2 * n /\ k * y <= u2 * n
    <3>1. k * x <= k * z /\ k * y <= k * u
      BY <1>1, ProductsKeepOrder
    <3>2. k * x \in Nat /\ k * y \in Nat /\ k * z \in Nat /\ k * u \in Nat /\ z2 * n \in Nat /\ u2 * n \in Nat
      BY <1>1
    <3>. QED  BY <1>13, <3>1, <3>2
  <2>3. (k * x) * (k * y) <= (z2 * n) * (u2 * n)
    <3>1. k * x \in Nat /\ k * y \in Nat /\ z2 * n \in Nat /\ u2 * n \in Nat
      BY <1>1
    <3>. QED  BY <2>2, <3>1, ProductsKeepOrder
  <2>4. (k * x) * (k * y) = x * y * k * k /\ (z2 * n) * (u2 * n) = z2 * u2 * n * n
    BY <1>1
  <2>5. z2 * u2 * n * n >= x * y * k * k
    BY <2>3, <2>4
  <2>. QED  BY <1>0, <1>3, <1>13, <2>1, <2>5 DEF ValueKept
<1>. QED  BY <1>16, <1>17

\* What only adds to the balances of an opened pair keeps its value.
LEMMA SyncKeeps ==
  ASSUME AmmInv, NEW q \in AmmQuotes, Sync(q)
  PROVE  AmmInv' /\ \A p \in AmmQuotes : ValueKept(p)
<1>1. owned' = owned /\ shareSupply' = shareSupply /\ AmmTypes /\ Covered(owned)
  BY DEF Sync, AmmInv
<1>2. PICK x, y, z, u, n :
        /\ x = reserves[q].zec /\ y = reserves[q].quote /\ n = shareSupply[q]
        /\ z = owned[ZecAsset][PairOf(q)] /\ u = owned[q][PairOf(q)]
  OBVIOUS
<1>3. /\ x \in Nat /\ y \in Nat /\ z \in Nat /\ u \in Nat /\ n \in Nat
      /\ x <= z /\ y <= u /\ (n > 0 => x > 0 /\ y > 0 /\ n >= MinimumLiquidity)
  <2>1. owned[Share(q)][PairOf(q)] \in Nat
    BY <1>1, OpenedHasShares, AmmNames
  <2>2. shareSupply[q] > 0 => shareSupply[q] >= MinimumLiquidity
    BY <1>1, <2>1, OpenedHasShares, AmmAssumption
  <2>3. /\ reserves[q].zec <= owned[ZecAsset][PairOf(q)] /\ reserves[q].quote <= owned[q][PairOf(q)]
        /\ shareSupply[q] > 0 => reserves[q].zec > 0 /\ reserves[q].quote > 0
    BY <1>1 DEF Covered
  <2>4. /\ shareSupply[q] \in Nat /\ reserves[q].zec \in Nat /\ reserves[q].quote \in Nat
        /\ owned[ZecAsset][PairOf(q)] \in Nat /\ owned[q][PairOf(q)] \in Nat
    BY <1>1, OpenedHasShares
  <2>. QED  BY <1>2, <2>2, <2>3, <2>4
<1>4. AmmInv' /\ \A p \in AmmQuotes \ {q} : ValueKept(p)
  <2>1. reserves' = [reserves EXCEPT ![q] = PairHolds(owned', q)]
    BY <1>1 DEF Sync
  <2>2. shareSupply' = [shareSupply EXCEPT ![q] = n]
    BY <1>1, <1>2 DEF AmmTypes
  <2>3. owned' \in Holdings /\ SumOver(owned'[Share(q)], AmmHolders) = n
    BY <1>1, <1>2 DEF Covered
  <2>4. n > 0 => /\ owned'[ZecAsset][PairOf(q)] > 0 /\ owned'[q][PairOf(q)] > 0
                 /\ owned'[Share(q)][Nobody] >= MinimumLiquidity
    <3>1. n > 0 => z > 0 /\ u > 0
      BY <1>3
    <3>2. n > 0 => owned[Share(q)][Nobody] >= MinimumLiquidity
      BY <1>1, <1>2 DEF Covered
    <3>. QED  BY <1>1, <1>2, <3>1, <3>2
  <2>5. \A p \in AmmQuotes \ {q} : /\ owned'[Share(p)] = owned[Share(p)]
                                   /\ owned'[ZecAsset][PairOf(p)] = owned[ZecAsset][PairOf(p)]
                                   /\ owned'[p][PairOf(p)] = owned[p][PairOf(p)]
    BY <1>1
  <2>. QED  BY <1>1, <1>3, <2>1, <2>2, <2>3, <2>4, <2>5, OthersKeep
<1>5. ValueKept(q)
  <2>1. reserves'[q].zec = z /\ reserves'[q].quote = u /\ shareSupply'[q] = n
    BY <1>1, <1>2 DEF Sync, PairHolds, AmmTypes
  <2>2. x * y <= z * u
    BY <1>3, ProductsKeepOrder
  <2>3. x * y * n * n <= z * u * n * n
    <3>1. PICK c \in Nat, d \in Nat, e \in Nat : c = x * y /\ d = z * u /\ e = n * n
      BY <1>3
    <3>2. c * e <= d * e
      BY <2>2, <3>1, ProductsKeepOrder
    <3>3. x * y * n * n = c * e /\ z * u * n * n = d * e
      BY <1>3, <3>1
    <3>. QED  BY <3>2, <3>3
  <2>4. z * u * n * n >= x * y * n * n
    BY <1>3, <2>3
  <2>5. n > 0 => z > 0 /\ u > 0 /\ n >= MinimumLiquidity
    BY <1>3
  <2>. QED  BY <1>2, <2>1, <2>4, <2>5 DEF ValueKept
<1>. QED  BY <1>4, <1>5

LEMMA UnopenedKeeps ==
  ASSUME AmmTypes, NEW b, Covered(b), UNCHANGED <<reserves, shareSupply>>
  PROVE  \A p \in AmmQuotes : ValueKept(p)
<1>. SUFFICES ASSUME NEW p \in AmmQuotes PROVE ValueKept(p)
  OBVIOUS
<1>1. PICK x, y, n : x = reserves[p].zec /\ y = reserves[p].quote /\ n = shareSupply[p]
  OBVIOUS
<1>2. /\ x \in Nat /\ y \in Nat /\ n \in Nat
      /\ (n > 0 => x > 0 /\ y > 0 /\ n >= MinimumLiquidity)
  <2>1. b[Share(p)][PairOf(p)] \in Nat
    BY OpenedHasShares, AmmNames
  <2>2. shareSupply[p] > 0 => shareSupply[p] >= MinimumLiquidity
    BY <2>1, OpenedHasShares, AmmAssumption
  <2>3. shareSupply[p] > 0 => reserves[p].zec > 0 /\ reserves[p].quote > 0
    BY DEF Covered
  <2>4. shareSupply[p] \in Nat /\ reserves[p].zec \in Nat /\ reserves[p].quote \in Nat
    BY OpenedHasShares
  <2>. QED  BY <1>1, <2>2, <2>3, <2>4
<1>3. x * y * n * n >= x * y * n * n
  BY <1>2
<1>. QED  BY <1>1, <1>2, <1>3 DEF ValueKept

LEMMA AmmStarts == ASSUME AmmInit PROVE AmmInv
<1>1. AmmTypes
  BY DEF AmmInit, AmmTypes
<1>2. owned \in Holdings
  BY AmmAssumption DEF AmmInit, Holdings
<1>3. ASSUME NEW q \in AmmQuotes
      PROVE  /\ reserves[q].zec <= owned[ZecAsset][PairOf(q)] /\ reserves[q].quote <= owned[q][PairOf(q)]
             /\ SumOver(owned[Share(q)], AmmHolders) = shareSupply[q]
             /\ shareSupply[q] > 0 => /\ reserves[q].zec > 0 /\ reserves[q].quote > 0
                                      /\ owned[Share(q)][Nobody] >= MinimumLiquidity
  <2>1. reserves[q] = [zec |-> 0, quote |-> 0] /\ shareSupply[q] = 0
    BY DEF AmmInit
  <2>2. owned[ZecAsset][PairOf(q)] \in Nat /\ owned[q][PairOf(q)] \in Nat
    BY <1>2, AmmNames DEF Holdings
  <2>3. SumOver(owned[Share(q)], AmmHolders) = 0
    <3>1. PICK f : f = owned[Share(q)]
      OBVIOUS
    <3>2. \A h \in AmmHolders : f[h] = 0
      BY <3>1, AmmNames DEF AmmInit
    <3>3. SumOver(f, AmmHolders) = 0 * Cardinality(AmmHolders) /\ Cardinality(AmmHolders) \in Nat
      BY <3>2, AmmNames, SumConstant, FS_CardinalityType
    <3>. QED  BY <3>1, <3>3
  <2>. QED  BY <2>1, <2>2, <2>3
<1>. QED  BY <1>1, <1>2, <1>3 DEF AmmInv, Covered

LEMMA AmmStep ==
  ASSUME AmmInv, AmmNext
  PROVE  AmmInv' /\ \A p \in AmmQuotes : ValueKept(p)
<1>0. AmmTypes /\ Covered(owned)
  BY DEF AmmInv
<1>s. \A n \in Sizes \cup Minimums : n \in Nat
  BY AmmAssumption
<1>1. ASSUME NEW q \in AmmQuotes, NEW a \in Traders, CallPair(q, a)
      PROVE  AmmInv' /\ \A p \in AmmQuotes : ValueKept(p)
  <2>1. CASE Mint(q, owned, a, 0)
    BY <1>0, <2>1, MintKeeps
  <2>2. CASE Burn(q, owned, a, 0, 0)
    BY <1>0, <2>2, BurnKeeps
  <2>3. CASE \E zecIn \in BOOLEAN : Swap(q, owned, zecIn, 0, a)
    BY <1>0, <2>3, SwapKeeps
  <2>. QED  BY <1>1, <2>1, <2>2, <2>3 DEF CallPair
<1>2. ASSUME NEW q \in AmmQuotes, NEW a \in Traders, NEW x \in Sizes, NEW y \in Sizes,
             NEW m \in Minimums, AddLiquidity(q, a, x, y, m, 0)
      PROVE  AmmInv' /\ \A p \in AmmQuotes : ValueKept(p)
  <2>1. PICK once, pulled : /\ once = Transferred(owned, ZecAsset, a, PairOf(q), x)
                            /\ pulled = Transferred(once, q, a, PairOf(q), y)
                            /\ pulled # None /\ Mint(q, pulled, a, m)
    <3>1. PICK once : once = Transferred(owned, ZecAsset, a, PairOf(q), x)
      OBVIOUS
    <3>2. PICK pulled \in {Transferred(once, q, a, PairOf(q), y)} : pulled # None /\ Mint(q, pulled, a, m)
      BY <1>2, <3>1, Zenon DEF AddLiquidity
    <3>3. pulled = Transferred(once, q, a, PairOf(q), y)
      OBVIOUS
    <3>. QED  BY <3>1, <3>2, <3>3
  <2>2. once # None
    BY <2>1 DEF Transferred
  <2>3. Covered(once)
    BY <1>0, <1>s, <2>1, <2>2, SentKeeps
  <2>4. Covered(pulled)
    BY <1>0, <1>s, <2>1, <2>3, SentKeeps
  <2>. QED  BY <1>0, <1>s, <2>1, <2>4, MintKeeps
<1>3. ASSUME NEW q \in AmmQuotes, NEW a \in Traders, NEW x \in Sizes,
             NEW m \in Minimums, NEW n \in Minimums, RemoveLiquidity(q, a, x, m, n, 0)
      PROVE  AmmInv' /\ \A p \in AmmQuotes : ValueKept(p)
  <2>1. PICK pulled : /\ pulled = Transferred(owned, Share(q), a, PairOf(q), x)
                      /\ pulled # None /\ Burn(q, pulled, a, m, n)
    BY <1>3 DEF RemoveLiquidity
  <2>2. Covered(pulled)
    BY <1>0, <1>s, <2>1, SentKeeps
  <2>. QED  BY <1>0, <1>s, <2>1, <2>2, BurnKeeps
<1>4. ASSUME NEW q \in AmmQuotes, NEW a \in Traders, NEW zecIn \in BOOLEAN, NEW x \in Sizes,
             NEW m \in Minimums, SwapExactIn(q, a, zecIn, x, m, 0)
      PROVE  AmmInv' /\ \A p \in AmmQuotes : ValueKept(p)
  <2>1. PICK token, pulled : /\ token = (IF zecIn THEN ZecAsset ELSE q)
                             /\ pulled = Transferred(owned, token, a, PairOf(q), x)
                             /\ pulled # None /\ Swap(q, pulled, zecIn, m, a)
    BY <1>4 DEF SwapExactIn
  <2>2. token \in {ZecAsset, q, Share(q)}
    BY <2>1
  <2>3. Covered(pulled)
    BY <1>0, <1>s, <2>1, <2>2, SentKeeps
  <2>. QED  BY <1>0, <1>s, <2>1, <2>3, SwapKeeps
<1>5. ASSUME NEW q \in AmmQuotes, NEW a \in Traders, NEW t \in {ZecAsset, q, Share(q)},
             NEW x \in Sizes, SendToPair(q, a, t, x)
      PROVE  AmmInv' /\ \A p \in AmmQuotes : ValueKept(p)
  <2>1. owned[t][a] >= x /\ owned' = Transferred(owned, t, a, PairOf(q), x)
        /\ UNCHANGED <<reserves, shareSupply>>
    BY <1>5 DEF SendToPair
  <2>2. /\ owned \in Holdings /\ t \in AmmTokens /\ a \in AmmHolders /\ PairOf(q) \in AmmHolders
        /\ x \in Nat /\ owned[t][a] \in Nat
    BY <1>0, <1>s, AmmNames DEF Covered, Holdings
  <2>3. owned' # None
    BY <2>1, <2>2, TransferStands
  <2>4. PICK sent : sent = owned'
    OBVIOUS
  <2>5. Covered(sent)
    BY <1>0, <2>1, <2>2, <2>3, <2>4, SentKeeps
  <2>6. Covered(owned)'
    BY <2>1, <2>4, <2>5 DEF Covered
  <2>. QED  BY <1>0, <2>1, <2>6, UnopenedKeeps DEF AmmInv, AmmTypes
<1>6. ASSUME NEW q \in AmmQuotes, CreatePair(q)
      PROVE  AmmInv' /\ \A p \in AmmQuotes : ValueKept(p)
  BY <1>0, <1>6, UnopenedKeeps DEF CreatePair, AmmInv, AmmTypes, Covered
<1>7. ASSUME PauseRouter PROVE AmmInv' /\ \A p \in AmmQuotes : ValueKept(p)
  BY <1>0, <1>7, UnopenedKeeps DEF PauseRouter, AmmInv, AmmTypes, Covered
<1>8. ASSUME NextAmmBlock PROVE AmmInv' /\ \A p \in AmmQuotes : ValueKept(p)
  BY <1>0, <1>8, UnopenedKeeps DEF NextAmmBlock, AmmInv, AmmTypes, Covered
<1>. QED  BY <1>1, <1>2, <1>3, <1>4, <1>5, <1>6, <1>7, <1>8, SyncKeeps DEF AmmNext

\* What a share of a pair stands for never falls: whatever deposits,
\* withdrawals, swaps, stray transfers and syncs are made, of an opened pair the
\* product of the reserves per share squared does not decrease, and neither the
\* reserves nor the shares are ever all taken (Pair.sol: mint, burn, swap, sync).
THEOREM SharesKeepValue == AmmSpec => ShareKeepsValue
<1>1. AmmInit => AmmInv
  BY AmmStarts
<1>2. AmmInv /\ [AmmNext]_ammVars => AmmInv'
  <2>1. CASE AmmInv /\ AmmNext
    BY <2>1, AmmStep
  <2>2. CASE AmmInv /\ UNCHANGED ammVars
    BY <2>2 DEF ammVars, AmmInv, AmmTypes, Covered
  <2>. QED  BY <2>1, <2>2
<1>3. AmmInv /\ [AmmNext]_ammVars =>
        [\A q \in AmmQuotes : shareSupply[q] > 0 =>
            /\ shareSupply'[q] >= MinimumLiquidity
            /\ reserves'[q].zec > 0 /\ reserves'[q].quote > 0
            /\ reserves'[q].zec * reserves'[q].quote * shareSupply[q] * shareSupply[q]
                 >= reserves[q].zec * reserves[q].quote * shareSupply'[q] * shareSupply'[q]]_ammVars
  BY AmmStep DEF ValueKept
<1>. QED  BY <1>1, <1>2, <1>3, PTL DEF AmmSpec, ShareKeepsValue
=============================================================================
