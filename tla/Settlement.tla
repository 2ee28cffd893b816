------------------------------ MODULE Settlement ------------------------------
(***************************************************************************)
(* The order settlement contract (contracts/src/Settlement.sol): anyone    *)
(* may bring two signed orders that cross and settle part of them in one   *)
(* transaction.  An order lives on through many settlements; its maker may *)
(* cancel its nonce or raise the account's epoch at any time in between.   *)
(*                                                                         *)
(* An order is its own hash.  Amounts are far from 2^256.                  *)
(***************************************************************************)
EXTENDS Integers, Sequences, SequencesExt, Sums, Absent

CONSTANTS
  SettledOrders,      \* every order that may be presented, signed or not
  SignedOrders,       \* those its maker signed
  FillSizes,          \* baseFillAmount of a call
  Makers, FeeAccount,
  ZecToken, QuoteTokens,
  Endowment,          \* [asset -> [account -> amount]] held at deployment
  TickDivisor,        \* QUOTE_COST_DIVISOR
  FeeDivisor, MakerFee, TakerFee, FeeLimit,
  MaxEpoch, MaxClock, MaxFills

ASSUME SettlementAssumption ==
  /\ TickDivisor \in Nat \ {0} /\ FeeDivisor \in Nat \ {0}
  /\ MakerFee \in Nat /\ TakerFee \in Nat /\ FillSizes \subseteq Nat
  /\ \A o \in SettledOrders :
       /\ o.side \in {"buy", "sell"}
       /\ o.base \in Nat /\ o.limit \in Nat /\ o.maximumFee \in Nat

VARIABLES
  settlementPaused,
  accountEpoch,       \* epoch
  cancelled,          \* nonceBitmap: the <<maker, nonce>> cancelled
  filled,             \* filled: base filled or written off, per order
  held,               \* the tokens' balances
  clock,              \* block.timestamp
  fills               \* history: what was settled

settlementVars == <<settlementPaused, accountEpoch, cancelled, filled, held, clock, fills>>

SettlementInit ==
  /\ settlementPaused = FALSE
  /\ accountEpoch = [a \in Makers |-> 0]
  /\ cancelled = {}
  /\ filled = [o \in SettledOrders |-> 0]
  /\ held = Endowment
  /\ clock = 0
  /\ fills = <<>>

-----------------------------------------------------------------------------
(* Amounts: the buyer's cost rounds up, the seller's proceeds down.        *)

CostUp(size, ticks) == (size * ticks + TickDivisor - 1) \div TickDivisor

CostDown(size, ticks) == (size * ticks) \div TickDivisor

LiveOrder(o) ==
  /\ o.expiry = 0 \/ o.expiry >= clock
  /\ o.epoch = accountEpoch[o.maker]
  /\ <<o.maker, o.nonce>> \notin cancelled
  /\ o.maximumFee <= FeeLimit
  /\ o.clob
  /\ o \in SignedOrders

(* A transfer of one token, refused when the payer holds too little; a     *)
(* failed one fails all that follow it and the call.                       *)
Paid(balances, move) ==
  IF balances = None \/ (move.amount > 0 /\ balances[move.asset][move.from] < move.amount) THEN None
  ELSE [balances EXCEPT ![move.asset][move.from] = @ - move.amount,
                        ![move.asset][move.to] = @ + move.amount]

(* Fault: the remainder of an immediate order stays open. *)
FilledAfterReopened(maker, taker, base) ==
  [filled EXCEPT ![maker] = @ + base, ![taker] = @ + base]

FilledAfter(maker, taker, base) ==
  [filled EXCEPT ![maker] = @ + base,
                 ![taker] = IF taker.timeInForce = "GTC" THEN @ + base ELSE taker.base]

Crossing(buy, sell) == buy.limit >= sell.limit

Settle(maker, taker, base) ==
  LET buy == IF maker.side = "buy" THEN maker ELSE taker
      sell == IF maker.side = "buy" THEN taker ELSE maker
      pays == CostUp(base, maker.limit)
      receives == CostDown(base, maker.limit)
      makerFee == (receives * MakerFee) \div FeeDivisor
      takerFee == (pays * TakerFee) \div FeeDivisor
      buyerFee == IF buy = maker THEN makerFee ELSE takerFee
      sellerFee == IF sell = maker THEN makerFee ELSE takerFee
      paid == FoldLeft(Paid, held,
        << [asset |-> ZecToken, from |-> sell.maker, to |-> buy.recipient, amount |-> base],
           [asset |-> maker.quote, from |-> buy.maker, to |-> sell.recipient,
            amount |-> receives - sellerFee],
           [asset |-> maker.quote, from |-> buy.maker, to |-> FeeAccount,
            amount |-> buyerFee + sellerFee + pays - receives] >>)
  IN /\ Len(fills) < MaxFills
     /\ ~settlementPaused
     /\ maker.side # taker.side
     /\ maker.maker # taker.maker
     /\ maker.quote = taker.quote /\ maker.quote \in QuoteTokens
     /\ LiveOrder(maker) /\ LiveOrder(taker)
     /\ maker.timeInForce = "GTC"
     /\ filled[maker] + base <= maker.base
     /\ filled[taker] + base <= taker.base
     /\ taker.timeInForce = "FOK" => base = taker.base
     /\ Crossing(buy, sell)
     /\ pays > 0 /\ receives > 0 /\ receives >= sellerFee
     /\ MakerFee <= maker.maximumFee /\ TakerFee <= taker.maximumFee
     /\ paid # None
     /\ filled' = FilledAfter(maker, taker, base)
     /\ held' = paid
     /\ fills' = Append(fills, [buy |-> buy, sell |-> sell, base |-> base, price |-> maker.limit,
                                debited |-> pays + buyerFee, credited |-> receives - sellerFee])
     /\ UNCHANGED <<settlementPaused, accountEpoch, cancelled, clock>>

CancelNonce(a, nonce) ==
  /\ cancelled' = cancelled \cup {<<a, nonce>>}
  /\ UNCHANGED <<settlementPaused, accountEpoch, filled, held, clock, fills>>

IncrementEpoch(a) ==
  /\ accountEpoch[a] < MaxEpoch
  /\ accountEpoch' = [accountEpoch EXCEPT ![a] = @ + 1]
  /\ UNCHANGED <<settlementPaused, cancelled, filled, held, clock, fills>>

(* pause by the pauser, unpause by the governor *)
PauseSettlement ==
  /\ settlementPaused' = ~settlementPaused
  /\ UNCHANGED <<accountEpoch, cancelled, filled, held, clock, fills>>

NextSecond ==
  /\ clock < MaxClock
  /\ clock' = clock + 1
  /\ UNCHANGED <<settlementPaused, accountEpoch, cancelled, filled, held, fills>>

SettlementNext ==
  \/ \E maker, taker \in SettledOrders, base \in FillSizes : Settle(maker, taker, base)
  \/ \E o \in SettledOrders : CancelNonce(o.maker, o.nonce)
  \/ \E a \in Makers : IncrementEpoch(a)
  \/ PauseSettlement
  \/ NextSecond

-----------------------------------------------------------------------------
FillsOf(o) == {i \in DOMAIN fills : o \in {fills[i].buy, fills[i].sell}}

SettledOf(o) == SumOver([i \in FillsOf(o) |-> fills[i].base], FillsOf(o))

(* At the price of the fill or a better one, and the fee in proportion.    *)
AsSigned(o, f) ==
  LET cost == CostUp(f.base, f.price)
      fee == IF o.side = "buy" THEN f.debited - cost ELSE CostDown(f.base, f.price) - f.credited
  IN  /\ IF o.side = "buy" THEN f.price <= o.limit ELSE f.price >= o.limit
      /\ FeeDivisor * fee <= o.maximumFee * cost

(* An order binds its maker to at most what was signed, over all the       *)
(* settlements it takes part in, as maker in some and taker in others: no  *)
(* more base than its size, no worse price than its limit for each part,   *)
(* no fee above its maximum, and an immediate order settles once.          *)
WithinSignedOrder ==
  \A o \in SettledOrders :
    /\ SettledOf(o) <= o.base
    /\ o.timeInForce # "GTC" => Cardinality(FillsOf(o)) <= 1
    /\ \A i \in FillsOf(o) : AsSigned(o, fills[i])
=============================================================================
