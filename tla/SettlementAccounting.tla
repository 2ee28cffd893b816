------------------------ MODULE SettlementAccounting ------------------------
(***************************************************************************)
(* The ledger of lib/settlement-accounting.ts: fills that were planned     *)
(* against a snapshot are settled one at a time, in any order and any      *)
(* number of times. Who plans is not trusted: settlePlannedFill checks     *)
(* every fill against the signed orders and against the ledger.            *)
(***************************************************************************)
EXTENDS Integers, FiniteSets, Sums

CONSTANTS
  SignedOrders,   \* records: side, maker, recipient, limit, base, fee, sequence
  FillAmounts,    \* what a plan may ask for
  FeesInBps,      \* what the venue may charge
  ProtocolFee,    \* MAX_ORDER_FEE_BPS
  BpsScale,       \* 10,000
  CostDivisor,
  FeeAccount,
  Endowment,      \* account -> what it starts with of each asset
  MaxAtoms,       \* 2^256 - 1
  MaxSnapshots    \* bound: plans made

ASSUME AccountingAssumption ==
  /\ CostDivisor \in Nat \ {0} /\ BpsScale \in Nat \ {0}
  /\ ProtocolFee \in 0 .. BpsScale
  /\ FillAmounts \subseteq Nat /\ FeesInBps \subseteq Nat
  /\ IsFiniteSet(SignedOrders) /\ IsFiniteSet(DOMAIN Endowment)
  /\ Endowment \in [DOMAIN Endowment -> [base : Int, quote : Int]]
  /\ FeeAccount \in DOMAIN Endowment
  /\ \A o \in SignedOrders :
       /\ o.side \in {"buy", "sell"} /\ o.limit \in Nat /\ o.base \in Nat /\ o.fee \in Nat
       /\ o.maker \in DOMAIN Endowment /\ o.recipient \in DOMAIN Endowment

VARIABLES
  ledger,    \* balances, filled amounts, applied fill IDs
  planned,   \* fills with the remaining amounts of their snapshots
  ended      \* orders that expired, were cancelled or lost their epoch

accountingVars == <<ledger, planned, ended>>

LedgerAccounts == DOMAIN Endowment

AccountingInit ==
  /\ ledger = [balances |-> Endowment, filled |-> [o \in SignedOrders |-> 0], applied |-> {}]
  /\ planned = {}
  /\ ended = {}

Left(o) == o.base - ledger.filled[o]

(* A planner takes a snapshot; it may be settled much later. *)
PlanFill(maker, taker, amount, price) ==
  /\ Cardinality(planned) < MaxSnapshots
  /\ planned' = planned \cup
       {[maker |-> maker, taker |-> taker, amount |-> amount, price |-> price,
         left |-> [o \in {maker, taker} |-> Left(o)]]}
  /\ UNCHANGED <<ledger, ended>>

EndOrder(o) ==
  /\ o \notin ended
  /\ ended' = ended \cup {o}
  /\ UNCHANGED <<ledger, planned>>

-----------------------------------------------------------------------------

CeilDivide(n, d) == (n + d - 1) \div d

FeeOn(quote, bps) == (quote * bps) \div BpsScale

BuyOf(fill) == IF fill.maker.side = "buy" THEN fill.maker ELSE fill.taker
SellOf(fill) == IF fill.maker.side = "sell" THEN fill.maker ELSE fill.taker

FillShape(fill) ==
  /\ fill.maker.sequence < fill.taker.sequence
  /\ fill.price = fill.maker.limit
  /\ fill.maker.side # fill.taker.side
  /\ fill.maker.maker # fill.taker.maker
  /\ SellOf(fill).limit <= fill.price /\ fill.price <= BuyOf(fill).limit

(* Fault: the snapshot is trusted. *)
ReconcilesWithNothing(fill, o) == fill.amount <= fill.left[o]

(* The snapshot is the ledger of this moment, and the order has room. *)
Reconciles(fill, o) ==
  /\ fill.left[o] = Left(o)
  /\ fill.amount <= fill.left[o]

LeastForSeller(fill) == CeilDivide(fill.amount * SellOf(fill).limit, CostDivisor)
MostForBuyer(fill) == (fill.amount * BuyOf(fill).limit) \div CostDivisor

(* At the maker's price, rounded in favour of the maker. *)
QuoteOf(fill) ==
  IF fill.maker.side = "sell" THEN CeilDivide(fill.amount * fill.price, CostDivisor)
                              ELSE (fill.amount * fill.price) \div CostDivisor

QuoteFits(fill) == QuoteOf(fill) \in LeastForSeller(fill) .. MostForBuyer(fill)

FeesFit(fill, fees) ==
  /\ fees.maker <= ProtocolFee /\ fees.maker <= fill.maker.fee
  /\ fees.taker <= ProtocolFee /\ fees.taker <= fill.taker.fee

BuyerFee(fill, fees) ==
  FeeOn(QuoteOf(fill), IF fill.maker.side = "buy" THEN fees.maker ELSE fees.taker)
SellerFee(fill, fees) ==
  FeeOn(QuoteOf(fill), IF fill.maker.side = "sell" THEN fees.maker ELSE fees.taker)

FillId(fill) ==
  <<fill.maker, fill.taker, ledger.filled[fill.maker], ledger.filled[fill.taker],
    fill.amount, fill.price>>

(* One account may be in several roles: the deltas add up. *)
DeltasOf(fill, fees) ==
  LET quote == QuoteOf(fill)
      buyer == BuyOf(fill)
      seller == SellOf(fill)
      IfFor(a, account, amount) == IF a = account THEN amount ELSE 0
  IN [a \in LedgerAccounts |->
       [base |-> IfFor(a, buyer.recipient, fill.amount) - IfFor(a, seller.maker, fill.amount),
        quote |-> IfFor(a, seller.recipient, quote - SellerFee(fill, fees))
                    + IfFor(a, FeeAccount, BuyerFee(fill, fees) + SellerFee(fill, fees))
                    - IfFor(a, buyer.maker, quote + BuyerFee(fill, fees))]]

Applied(deltas) ==
  [a \in LedgerAccounts |->
    [base |-> ledger.balances[a].base + deltas[a].base,
     quote |-> ledger.balances[a].quote + deltas[a].quote]]

Affordable(balances) ==
  \A a \in LedgerAccounts : balances[a].base \in 0 .. MaxAtoms /\ balances[a].quote \in 0 .. MaxAtoms

(* Anything that does not fit throws and leaves the ledger as it was. *)
SettlePlannedFill(fill, fees) ==
  /\ FillShape(fill)
  /\ \A o \in {fill.maker, fill.taker} : o \notin ended /\ Reconciles(fill, o)
  /\ FeesFit(fill, fees)
  /\ QuoteFits(fill)
  /\ SellerFee(fill, fees) <= QuoteOf(fill)
  /\ FillId(fill) \notin ledger.applied
  /\ \E balances \in {Applied(DeltasOf(fill, fees))} :
       /\ Affordable(balances)
       /\ ledger' = [balances |-> balances,
                     filled |-> [o \in SignedOrders |->
                       ledger.filled[o] + (IF o \in {fill.maker, fill.taker} THEN fill.amount ELSE 0)],
                     applied |-> ledger.applied \cup {FillId(fill)}]
  /\ UNCHANGED <<planned, ended>>

AccountingNext ==
  \/ \E maker, taker \in SignedOrders, amount \in FillAmounts :
       \E price \in {maker.limit, taker.limit} : PlanFill(maker, taker, amount, price)
  \/ \E o \in SignedOrders : EndOrder(o)
  \/ \E fill \in planned, fees \in [maker : FeesInBps, taker : FeesInBps] : SettlePlannedFill(fill, fees)

-----------------------------------------------------------------------------

Moved(account, asset) == ledger.balances[account][asset] - Endowment[account][asset]

\* What the part of o that was filled must have moved on the account: the base
\* exactly, the quote at the limit and with the fee its maker signed.
BaseOwed(o, a) ==
  IF o.side = "buy" THEN (IF o.recipient = a THEN ledger.filled[o] ELSE 0)
                    ELSE (IF o.maker = a THEN -ledger.filled[o] ELSE 0)
QuoteOwed(o, a) ==
  LET worth == ledger.filled[o] * o.limit
  IN  IF o.side = "buy" THEN (IF o.maker = a THEN -(worth * (BpsScale + o.fee)) ELSE 0)
                        ELSE (IF o.recipient = a THEN worth * (BpsScale - o.fee) ELSE 0)

(* However stale or wrong the plans, and whatever orders and fees share an *)
(* account, over all fills an account gets no less and pays no more than   *)
(* the limits and fees signed for it say, for no more than the signed      *)
(* sizes, and no asset appears or vanishes (settlePlannedFill).            *)
SettledAsSigned ==
  /\ \A o \in SignedOrders : ledger.filled[o] <= o.base
  /\ \A a \in LedgerAccounts :
       /\ Moved(a, "base") = SumOver([o \in SignedOrders |-> BaseOwed(o, a)], SignedOrders)
       /\ Moved(a, "quote") * (CostDivisor * BpsScale)
            >= SumOver([o \in SignedOrders |-> QuoteOwed(o, a)], SignedOrders)
  /\ \A asset \in {"base", "quote"} :
       SumOver([a \in LedgerAccounts |-> Moved(a, asset)], LedgerAccounts) = 0
=============================================================================
