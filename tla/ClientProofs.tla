----------------------------- MODULE ClientProofs ----------------------------
(***************************************************************************)
(* Theorems about the parts around the swap and the matcher, for every     *)
(* choice of their constants: any wallets, claims, markets, requests and   *)
(* times, and none of the bounds of the instances TLC looks at.            *)
(***************************************************************************)
EXTENDS Payout, NativeOrder, SettlementAccounting, Reserve, RateLimit, WalletBar,
        TradeForm, PaperPool, ZecWallet, AccountRecovery, Lemmas, TLAPS

-----------------------------------------------------------------------------
(* Payouts. *)

PayoutStates ==
  {"requested", "screened", "burn-submitted", "burn-finalized", "payable", "unresolved", "closed",
   "transaction_prepared", "signed", "broadcast", "mined", "confirmed", "refunded", "rejected"}

(* What holds of a single claim: only the submission of its burn, which is *)
(* recorded, makes it answered, and only a signature or what follows it    *)
(* leaves a transaction that may pay.                                      *)
PayoutInv ==
  /\ payouts \in [PayoutClaims -> PayoutStates]
  /\ signedFor \subseteq PayoutClaims
  /\ \A c \in PayoutClaims : Answered(c) => BurnOf[c] \in authorized
  /\ \A c \in signedFor :
       payouts[c] \in {"signed", "broadcast", "mined", "confirmed", "unresolved", "rejected"}
  /\ BurnAnsweredOnce

\* Every operation on claims and burns keeps what they rest on.
LEMMA PayoutInductive ==
  ASSUME PayoutInv, [PayoutNext]_payoutVars
  PROVE  PayoutInv'
<1>. USE DEF PayoutInv, PayoutStates, Answered, BurnAnsweredOnce
<1>1. ASSUME NEW c \in PayoutClaims, Screen(c) PROVE PayoutInv'
  BY <1>1 DEF Screen
<1>2. ASSUME NEW c \in PayoutClaims, SubmitBurn(c) PROVE PayoutInv'
  BY <1>2 DEF SubmitBurn, BurnRecorded
<1>3. ASSUME NEW c \in PayoutClaims, NEW call \in Calls, Call(c, call) PROVE PayoutInv'
  BY <1>3 DEF Call, Calls
<1>4. CASE UNCHANGED payoutVars
  BY <1>4 DEF payoutVars
<1>. QED  BY <1>1, <1>2, <1>3, <1>4 DEF PayoutNext

(* However the calls come, a burn is answered by one claim at most, by a   *)
(* payment or by a refund but not both (payout.ts).                        *)
THEOREM BurnsAnsweredOnce == PayoutInit /\ [][PayoutNext]_payoutVars => []BurnAnsweredOnce
<1>1. PayoutInit => PayoutInv
  BY DEF PayoutInit, PayoutInv, PayoutStates, Answered, BurnAnsweredOnce
<1>2. PayoutInv => BurnAnsweredOnce
  BY DEF PayoutInv
<1>. QED  BY <1>1, <1>2, PayoutInductive, PTL
-----------------------------------------------------------------------------
(* The order surface. *)

Contexts ==
  [id : Nat, market : NativeMarkets, deployment : Deployments, workflow : BOOLEAN]

(* Requests of the context on screen. *)
OfContext(c) == {call \in calls : call.context.id = c.id}

(* A request of this context is the only one, and the page is busy with it.*)
RequestsSound ==
  /\ \A call \in calls : call.context.id \in 0 .. context.id
  /\ \A call \in OfContext(context) :
       /\ call.context = context /\ busy = call.kind /\ outcome = None
       /\ context.deployment.market = context.market
       /\ call.kind = "review" => call.about.market = context.market
       /\ call.kind = "confirm" => pending # None /\ call.about = pending.review
  /\ \A c, d \in OfContext(context) : c = d

(* While the effect is due, what is on screen is of an older context.      *)
NativeInv ==
  /\ context \in Contexts
  /\ \A call \in calls : call.kind \in {"review", "confirm"}
  /\ RequestsSound
  /\ retiring \in BOOLEAN
  /\ retiring = TRUE => OfContext(context) = {}
  /\ retiring = FALSE =>
       /\ busy = None <=> OfContext(context) = {}
       /\ pending # None =>
            /\ pending.review.market = context.market
            /\ pending.review.config = context.deployment.config
       /\ outcome # None =>
            /\ pending # None
            /\ outcome.request = pending.review
            /\ outcome.kind = "confirmed" => outcome.request \in accepted

\* Asking for a review answers no other ticket.
LEMMA AskKeeps ==
  ASSUME NativeInv, NEW kind \in {"review", "confirm"}, NEW about, Ask(kind, about),
         kind = "review" => about.market = context.market,
         kind = "confirm" => pending # None /\ about = pending.review
  PROVE  NativeInv'
<1>. DEFINE call == [kind |-> kind, context |-> context, about |-> about]
<1>1. call.kind = kind /\ call.context = context /\ call.about = about
  OBVIOUS
<1>2. /\ calls' = calls \cup {call} /\ busy' = kind /\ outcome' = None /\ retiring = FALSE
      /\ busy = None /\ context.deployment.market = context.market
      /\ UNCHANGED <<context, retiring, pending, accepted>>
  BY DEF Ask, Ready
<1>. HIDE DEF call
<1>3. OfContext(context) = {}
  BY <1>2 DEF NativeInv
<1>4. OfContext(context)' = {call}
  BY <1>1, <1>2, <1>3 DEF OfContext
<1>5. RequestsSound'
  BY <1>1, <1>2, <1>4 DEF NativeInv, RequestsSound, Contexts
<1>. QED  BY <1>1, <1>2, <1>4, <1>5, NativeConstants DEF NativeInv

\* A review that settles is the one its ticket asked for.
LEMMA ReviewedKeeps ==
  ASSUME NativeInv, NEW call \in calls, Reviewed(call)
  PROVE  NativeInv'
<1>1. /\ calls' = calls \ {call} /\ call.kind = "review"
      /\ UNCHANGED <<context, retiring, outcome, accepted>>
  BY DEF Reviewed
<1>2. OfContext(context)' = OfContext(context) \ {call}
  BY <1>1 DEF OfContext
<1>3. CASE OutcomeStands(call)
  <2>1. call \in OfContext(context) /\ busy' = None
    BY <1>3 DEF OutcomeStands, OfContext, Reviewed
  <2>2. /\ call.context = context /\ outcome = None /\ retiring = FALSE
        /\ context.deployment.market = context.market /\ call.about.market = context.market
        /\ OfContext(context)' = {}
    BY <1>1, <1>2, <2>1 DEF NativeInv, RequestsSound
  <2>3. pending' # None => /\ pending'.review.market = context.market
                           /\ pending'.review.config = context.deployment.config
    BY <1>3, <2>2 DEF Reviewed, BindReview
  <2>4. RequestsSound'
    BY <1>1, <2>2 DEF NativeInv, RequestsSound
  <2>. QED  BY <1>1, <2>1, <2>2, <2>3, <2>4 DEF NativeInv
<1>4. CASE ~OutcomeStands(call)
  <2>1. call \notin OfContext(context) /\ UNCHANGED <<busy, pending>>
    BY <1>4 DEF OutcomeStands, OfContext, Reviewed
  <2>2. OfContext(context)' = OfContext(context)
    BY <1>2, <2>1
  <2>3. RequestsSound'
    BY <1>1, <2>1, <2>2 DEF NativeInv, RequestsSound
  <2>. QED  BY <1>1, <2>1, <2>2, <2>3 DEF NativeInv
<1>. QED  BY <1>3, <1>4

\* A confirmation that settles is of the order that was reviewed.
LEMMA ConfirmedKeeps ==
  ASSUME NativeInv, NEW call \in calls, Confirmed(call)
  PROVE  NativeInv'
<1>1. /\ calls' = calls \ {call} /\ call.kind = "confirm"
      /\ UNCHANGED <<context, retiring, pending>>
  BY DEF Confirmed
<1>2. OfContext(context)' = OfContext(context) \ {call}
  BY <1>1 DEF OfContext
<1>3. accepted \subseteq accepted'
  BY DEF Confirmed
<1>4. CASE OutcomeStands(call)
  <2>1. call \in OfContext(context) /\ busy' = None
    BY <1>4 DEF OutcomeStands, OfContext, Confirmed
  <2>2. /\ call.context = context /\ outcome = None /\ retiring = FALSE
        /\ pending # None /\ call.about = pending.review
        /\ OfContext(context)' = {}
    BY <1>1, <1>2, <2>1 DEF NativeInv, RequestsSound
  <2>3. outcome' # None => /\ outcome'.request = pending.review
                           /\ outcome'.kind = "confirmed" => outcome'.request \in accepted'
    <3>. PICK took \in BOOLEAN :
           \E answer \in [kind : {IF took THEN "confirmed" ELSE "rejected", "receipt-unknown"},
                          request : Reviews] :
             /\ accepted' = IF took THEN accepted \cup {call.about} ELSE accepted
             /\ outcome' = IF BindOutcome(call.about, answer) THEN answer ELSE outcome
      BY <1>4 DEF Confirmed
    <3>. PICK answer \in [kind : {IF took THEN "confirmed" ELSE "rejected", "receipt-unknown"},
                          request : Reviews] :
           /\ accepted' = IF took THEN accepted \cup {call.about} ELSE accepted
           /\ outcome' = IF BindOutcome(call.about, answer) THEN answer ELSE outcome
      OBVIOUS
    <3>1. answer.kind = "confirmed" => took
      OBVIOUS
    <3>. QED  BY <2>2, <3>1 DEF BindOutcome
  <2>4. RequestsSound'
    BY <1>1, <2>2 DEF NativeInv, RequestsSound
  <2>. QED  BY <1>1, <2>1, <2>2, <2>3, <2>4 DEF NativeInv
<1>5. CASE ~OutcomeStands(call)
  <2>1. call \notin OfContext(context) /\ UNCHANGED <<busy, outcome>>
    BY <1>5 DEF OutcomeStands, OfContext, Confirmed
  <2>2. OfContext(context)' = OfContext(context)
    BY <1>2, <2>1
  <2>3. RequestsSound'
    BY <1>1, <2>1, <2>2 DEF NativeInv, RequestsSound
  <2>. QED  BY <1>1, <1>3, <2>1, <2>2, <2>3 DEF NativeInv
<1>. QED  BY <1>4, <1>5

\* The desk keeps tickets and outcomes of one context apart.
LEMMA NativeInductive ==
  ASSUME NativeInv, [NativeNext]_nativeVars
  PROVE  NativeInv'
<1>1. CASE Rerender
  <2>1. /\ context' \in Contexts /\ context'.id = context.id + 1 /\ retiring' = TRUE
        /\ UNCHANGED <<pending, busy, outcome, calls, accepted>>
    BY <1>1 DEF Rerender, NativeInv, Contexts
  <2>2. \A call \in calls : call.context.id \in 0 .. context'.id /\ call.context.id # context'.id
    BY <2>1 DEF NativeInv, RequestsSound, Contexts
  <2>3. OfContext(context)' = {}
    BY <2>1, <2>2 DEF OfContext
  <2>. QED  BY <2>1, <2>2, <2>3 DEF NativeInv, RequestsSound
<1>2. CASE Retire
  BY <1>2 DEF Retire, NativeInv, RequestsSound, OfContext
<1>3. CASE EditTicket
  BY <1>3 DEF EditTicket, NativeInv, RequestsSound, OfContext
<1>4. CASE RequestOrderReview
  BY <1>4, AskKeeps DEF RequestOrderReview, Ask, Ready
<1>5. CASE ConfirmReview
  BY <1>5, AskKeeps DEF ConfirmReview
<1>6. CASE UNCHANGED nativeVars
  BY <1>6 DEF nativeVars, NativeInv, RequestsSound, OfContext
<1>. QED  BY <1>1, <1>2, <1>3, <1>4, <1>5, <1>6, ReviewedKeeps, ConfirmedKeeps DEF NativeNext

(* What the order surface shows belongs together: the review is of this    *)
(* market and configuration and the outcome is of the review shown,        *)
(* whatever changed under the requests (native-matcher-order-action.tsx).  *)
THEOREM OutcomesBelong == NativeInit /\ [][NativeNext]_nativeVars => []OutcomeOfReview
<1>1. NativeInit => NativeInv
  <2>. SUFFICES ASSUME NativeInit PROVE NativeInv
    OBVIOUS
  <2>1. context \in Contexts /\ calls = {} /\ OfContext(context) = {}
    BY DEF NativeInit, Contexts, OfContext
  <2>. QED  BY <2>1 DEF NativeInit, NativeInv, RequestsSound
<1>2. NativeInv => OutcomeOfReview
  <2>. SUFFICES ASSUME NativeInv, retiring = FALSE PROVE OutcomeOfReview
    BY DEF OutcomeOfReview
  <2>1. busy = None <=> \A call \in calls : call.context.id # context.id
    BY DEF NativeInv, OfContext
  <2>2. Cardinality(OfContext(context)) <= 1
    <3>1. CASE OfContext(context) = {}
      BY <3>1, FS_EmptySet
    <3>2. CASE OfContext(context) # {}
      <4>1. PICK c : OfContext(context) = {c}
        BY <3>2 DEF NativeInv, RequestsSound
      <4>. QED  BY <4>1, FS_Singleton
    <3>. QED  BY <3>1, <3>2
  <2>. QED  BY <2>1, <2>2 DEF NativeInv, OutcomeOfReview, OfContext
<1>. QED  BY <1>1, <1>2, NativeInductive, PTL
-----------------------------------------------------------------------------
(* Settlement accounting. *)

AccountingSpec == AccountingInit /\ [][AccountingNext]_accountingVars

(* The least a seller is left with, when the quote covers the limit and    *)
(* the fee is at most what was signed.                                     *)
LEMMA SellerGets ==
  ASSUME NEW q \in Nat, NEW p \in Nat, NEW c \in Nat, NEW b \in Nat, NEW bps \in Nat,
         NEW fee \in Nat, NEW f \in Nat, p <= q * c, b * f <= q * bps, bps <= fee, f <= q
  PROVE  (q - f) * (c * b) >= p * (b - fee)
<1>1. q * bps <= q * fee
  OBVIOUS
<1>2. b * (q - f) >= q * (b - fee)
  <2>1. b * (q - f) = b * q - b * f /\ q * (b - fee) = b * q - q * fee
    OBVIOUS
  <2>2. b * q \in Int /\ b * f \in Int /\ q * fee \in Int /\ q * bps \in Int
    OBVIOUS
  <2>. QED  BY <1>1, <2>1, <2>2
<1>. DEFINE l == b * (q - f)
            r == q * (b - fee)
<1>3. l \in Nat /\ r \in Int /\ l >= r
  BY <1>2
<1>4. (q - f) * (c * b) = c * l /\ c * r = (q * c) * (b - fee)
  OBVIOUS
<1>. HIDE DEF l, r
<1>5. c * l >= c * r
  BY <1>3
<1>6. CASE b >= fee
  <2>1. b - fee \in Nat /\ q * c \in Nat
    BY <1>6
  <2>2. (q * c) * (b - fee) >= p * (b - fee)
    BY <2>1
  <2>3. c * l \in Int /\ c * r \in Int /\ p * (b - fee) \in Int
    BY <1>3
  <2>. QED  BY <1>4, <1>5, <2>2, <2>3
<1>7. CASE b < fee
  <2>1. p * (b - fee) <= 0
    BY <1>7
  <2>2. c * l >= 0 /\ c * l \in Int /\ p * (b - fee) \in Int
    BY <1>3
  <2>. QED  BY <1>4, <2>1, <2>2
<1>. QED  BY <1>6, <1>7

(* The most a buyer pays.                                                  *)
LEMMA BuyerPays ==
  ASSUME NEW q \in Nat, NEW p \in Nat, NEW c \in Nat, NEW b \in Nat, NEW bps \in Nat,
         NEW fee \in Nat, NEW f \in Nat, q * c <= p, b * f <= q * bps, bps <= fee
  PROVE  (q + f) * (c * b) <= p * (b + fee)
<1>1. q * bps <= q * fee
  OBVIOUS
<1>2. b * (q + f) <= q * (b + fee)
  <2>1. b * (q + f) = b * q + b * f /\ q * (b + fee) = b * q + q * fee
    OBVIOUS
  <2>2. b * q \in Int /\ b * f \in Int /\ q * fee \in Int /\ q * bps \in Int
    OBVIOUS
  <2>. QED  BY <1>1, <2>1, <2>2
<1>. DEFINE l == b * (q + f)
            r == q * (b + fee)
<1>3. l \in Nat /\ r \in Nat /\ l <= r
  BY <1>2
<1>4. (q + f) * (c * b) = c * l /\ c * r = (q * c) * (b + fee)
  OBVIOUS
<1>. HIDE DEF l, r
<1>5. c * l <= c * r
  BY <1>3
<1>6. b + fee \in Nat /\ q * c \in Nat
  OBVIOUS
<1>7. (q * c) * (b + fee) <= p * (b + fee)
  BY <1>6
<1>8. c * l \in Int /\ c * r \in Int /\ p * (b + fee) \in Int
  BY <1>3
<1>. QED  BY <1>4, <1>5, <1>7, <1>8
AccountingSafe ==
  /\ ledger.filled \in [SignedOrders -> Nat]
  /\ ledger.balances \in [LedgerAccounts -> [base : Int, quote : Int]]
  /\ \A fill \in planned :
       /\ fill.maker \in SignedOrders /\ fill.taker \in SignedOrders
       /\ fill.amount \in Nat /\ fill.price \in Nat
  /\ SettledAsSigned

\* What a settled fill moves: the base, the quote with both fees, and no order's
\* fill but the two's.
Moves(fill, quote, bought, sold) ==
  LET buyer == BuyOf(fill)
      seller == SellOf(fill)
      IfFor(a, account, units) == IF a = account THEN units ELSE 0
  IN  /\ buyer \in SignedOrders /\ seller \in SignedOrders /\ buyer # seller
      /\ buyer.side = "buy" /\ seller.side = "sell"
      /\ fill.amount \in Nat /\ quote \in Nat /\ bought \in Nat /\ sold \in Nat
      /\ \A o \in {buyer, seller} : ledger.filled[o] + fill.amount <= o.base
      /\ ledger.filled' = [o \in SignedOrders |->
           ledger.filled[o] + (IF o \in {buyer, seller} THEN fill.amount ELSE 0)]
      /\ ledger.balances' \in [LedgerAccounts -> [base : Int, quote : Int]]
      /\ \A a \in LedgerAccounts :
           /\ Moved(a, "base")' = Moved(a, "base")
                + IfFor(a, buyer.recipient, fill.amount) - IfFor(a, seller.maker, fill.amount)
           /\ Moved(a, "quote")' = Moved(a, "quote")
                + IfFor(a, seller.recipient, quote - sold) + IfFor(a, FeeAccount, bought + sold)
                - IfFor(a, buyer.maker, quote + bought)
      /\ (quote - sold) * (CostDivisor * BpsScale) >= (fill.amount * seller.limit) * (BpsScale - seller.fee)
      /\ (quote + bought) * (CostDivisor * BpsScale) <= (fill.amount * buyer.limit) * (BpsScale + buyer.fee)

\* One settlement moves what the fill and its fees say, whatever roles accounts share.
LEMMA SettlingMoves ==
  ASSUME AccountingAssumption, AccountingSafe, NEW fill \in planned,
         NEW fees \in [maker : FeesInBps, taker : FeesInBps], SettlePlannedFill(fill, fees)
  PROVE  Moves(fill, QuoteOf(fill), BuyerFee(fill, fees), SellerFee(fill, fees))
<1>. DEFINE buyer == BuyOf(fill)
            seller == SellOf(fill)
            quote == QuoteOf(fill)
            buyerBps == IF fill.maker.side = "buy" THEN fees.maker ELSE fees.taker
            sellerBps == IF fill.maker.side = "sell" THEN fees.maker ELSE fees.taker
            bought == BuyerFee(fill, fees)
            sold == SellerFee(fill, fees)
<1>1. /\ fill.maker \in SignedOrders /\ fill.taker \in SignedOrders
      /\ fill.amount \in Nat /\ fill.price \in Nat
      /\ CostDivisor \in Nat \ {0} /\ BpsScale \in Nat \ {0}
      /\ fees.maker \in Nat /\ fees.taker \in Nat
      /\ \A o \in SignedOrders : o.limit \in Nat /\ o.fee \in Nat /\ o.base \in Nat
      /\ \A o \in SignedOrders : o.side \in {"buy", "sell"}
  BY DEF AccountingSafe, AccountingAssumption
<1>2. /\ fill.maker.side # fill.taker.side
      /\ fees.maker <= fill.maker.fee /\ fees.taker <= fill.taker.fee
      /\ quote \in LeastForSeller(fill) .. MostForBuyer(fill)
      /\ sold <= quote
      /\ \A o \in {fill.maker, fill.taker} : fill.amount <= Left(o)
  BY DEF SettlePlannedFill, FillShape, FeesFit, QuoteFits, Reconciles
<1>3. /\ ledger.balances' = Applied(DeltasOf(fill, fees))
      /\ ledger.filled' = [o \in SignedOrders |->
           ledger.filled[o] + (IF o \in {fill.maker, fill.taker} THEN fill.amount ELSE 0)]
  BY DEF SettlePlannedFill
<1>4. /\ {buyer, seller} = {fill.maker, fill.taker} /\ buyer # seller
      /\ buyer.side = "buy" /\ seller.side = "sell"
  BY <1>1, <1>2 DEF BuyOf, SellOf
<1>5. /\ buyerBps \in Nat /\ buyerBps <= buyer.fee
      /\ sellerBps \in Nat /\ sellerBps <= seller.fee
  BY <1>1, <1>2 DEF BuyOf, SellOf
<1>6. /\ buyer \in SignedOrders /\ seller \in SignedOrders
      /\ buyer.limit \in Nat /\ seller.limit \in Nat /\ buyer.fee \in Nat /\ seller.fee \in Nat
  BY <1>1, <1>4
<1>7. fill.amount * seller.limit \in Nat /\ fill.amount * buyer.limit \in Nat
  BY <1>1, <1>6
<1>8. /\ LeastForSeller(fill) \in Nat /\ fill.amount * seller.limit <= CostDivisor * LeastForSeller(fill)
      /\ MostForBuyer(fill) \in Nat /\ CostDivisor * MostForBuyer(fill) <= fill.amount * buyer.limit
  <2>. HIDE DEF buyer, seller
  <2>1. LeastForSeller(fill) = (fill.amount * seller.limit + CostDivisor - 1) \div CostDivisor
    BY DEF LeastForSeller, CeilDivide, seller
  <2>2. MostForBuyer(fill) = (fill.amount * buyer.limit) \div CostDivisor
    BY DEF MostForBuyer, buyer
  <2>. QED  BY <1>1, <1>7, <2>1, <2>2, Quotients
<1>9. quote \in Nat /\ LeastForSeller(fill) <= quote /\ quote <= MostForBuyer(fill)
  BY <1>2, <1>8
<1>10. bought = (quote * buyerBps) \div BpsScale /\ sold = (quote * sellerBps) \div BpsScale
  BY DEF BuyerFee, SellerFee, FeeOn
<1>. HIDE DEF quote, bought, sold, buyer, seller, buyerBps, sellerBps
<1>11. /\ bought \in Nat /\ BpsScale * bought <= quote * buyerBps
       /\ sold \in Nat /\ BpsScale * sold <= quote * sellerBps
  <2>1. quote * buyerBps \in Nat /\ quote * sellerBps \in Nat
    BY <1>5, <1>9
  <2>. QED  BY <1>1, <1>10, <2>1, Quotients
<1>12. (quote - sold) * (CostDivisor * BpsScale) >= (fill.amount * seller.limit) * (BpsScale - seller.fee)
  <2>1. CostDivisor * LeastForSeller(fill) <= quote * CostDivisor
    BY <1>1, <1>8, <1>9
  <2>2. fill.amount * seller.limit <= quote * CostDivisor
    <3>1. quote * CostDivisor \in Int /\ CostDivisor * LeastForSeller(fill) \in Int
      BY <1>1, <1>8, <1>9
    <3>. QED  BY <1>7, <1>8, <2>1, <3>1
  <2>. QED  BY <1>1, <1>2, <1>5, <1>6, <1>7, <1>9, <1>11, <2>2, SellerGets
<1>13. (quote + bought) * (CostDivisor * BpsScale) <= (fill.amount * buyer.limit) * (BpsScale + buyer.fee)
  <2>1. quote * CostDivisor <= CostDivisor * MostForBuyer(fill)
    BY <1>1, <1>8, <1>9
  <2>2. quote * CostDivisor <= fill.amount * buyer.limit
    <3>1. quote * CostDivisor \in Int /\ CostDivisor * MostForBuyer(fill) \in Int
      BY <1>1, <1>8, <1>9
    <3>. QED  BY <1>7, <1>8, <2>1, <3>1
  <2>. QED  BY <1>1, <1>5, <1>6, <1>7, <1>9, <1>11, <2>2, BuyerPays
<1>14. \A o \in {buyer, seller} : ledger.filled[o] + fill.amount <= o.base
  <2>1. \A o \in {buyer, seller} : fill.amount <= o.base - ledger.filled[o]
    BY <1>2, <1>4 DEF Left
  <2>2. \A o \in {buyer, seller} : ledger.filled[o] \in Int /\ o.base \in Int
    BY <1>1, <1>6 DEF AccountingSafe
  <2>. QED  BY <1>1, <2>1, <2>2
<1>15. ASSUME NEW a \in LedgerAccounts
       PROVE  ledger.balances'[a] =
                [base |-> ledger.balances[a].base
                   + ((IF a = buyer.recipient THEN fill.amount ELSE 0) - (IF a = seller.maker THEN fill.amount ELSE 0)),
                 quote |-> ledger.balances[a].quote
                   + ((IF a = seller.recipient THEN quote - sold ELSE 0)
                        + (IF a = FeeAccount THEN bought + sold ELSE 0)
                        - (IF a = buyer.maker THEN quote + bought ELSE 0))]
  BY <1>3 DEF Applied, DeltasOf, buyer, seller, quote, bought, sold
<1>16. \A a \in LedgerAccounts : /\ ledger.balances[a].base \in Int /\ ledger.balances[a].quote \in Int
                                 /\ Endowment[a].base \in Int /\ Endowment[a].quote \in Int
  BY DEF AccountingSafe, AccountingAssumption, LedgerAccounts
<1>. DEFINE baseDelta(a) ==
              (IF a = buyer.recipient THEN fill.amount ELSE 0) - (IF a = seller.maker THEN fill.amount ELSE 0)
            quoteDelta(a) ==
              (IF a = seller.recipient THEN quote - sold ELSE 0)
                + (IF a = FeeAccount THEN bought + sold ELSE 0)
                - (IF a = buyer.maker THEN quote + bought ELSE 0)
<1>17. \A a \in LedgerAccounts : baseDelta(a) \in Int /\ quoteDelta(a) \in Int
  BY <1>1, <1>9, <1>11
<1>18. \A a \in LedgerAccounts :
         ledger.balances'[a] = [base |-> ledger.balances[a].base + baseDelta(a),
                                quote |-> ledger.balances[a].quote + quoteDelta(a)]
  BY <1>15
<1>19. ledger.balances' \in [LedgerAccounts -> [base : Int, quote : Int]]
  <2>. HIDE DEF baseDelta, quoteDelta
  <2>1. ASSUME NEW a \in LedgerAccounts PROVE ledger.balances'[a] \in [base : Int, quote : Int]
    <3>1. /\ ledger.balances[a].base + baseDelta(a) \in Int
          /\ ledger.balances[a].quote + quoteDelta(a) \in Int
      BY <1>16, <1>17
    <3>2. ledger.balances'[a] = [base |-> ledger.balances[a].base + baseDelta(a),
                                 quote |-> ledger.balances[a].quote + quoteDelta(a)]
      BY <1>18
    <3>. QED  BY <3>1, <3>2
  <2>2. ledger.balances' = [a \in LedgerAccounts |-> ledger.balances'[a]]
    BY <1>3 DEF Applied
  <2>. QED  BY <2>1, <2>2
<1>20. ASSUME NEW a \in LedgerAccounts
       PROVE  /\ Moved(a, "base")' = Moved(a, "base") + baseDelta(a)
              /\ Moved(a, "quote")' = Moved(a, "quote") + quoteDelta(a)
              /\ Moved(a, "base") \in Int /\ Moved(a, "quote") \in Int
  <2>. HIDE DEF baseDelta, quoteDelta
  <2>1. /\ ledger.balances'[a].base = ledger.balances[a].base + baseDelta(a)
        /\ ledger.balances'[a].quote = ledger.balances[a].quote + quoteDelta(a)
    <3>1. ledger.balances'[a] = [base |-> ledger.balances[a].base + baseDelta(a),
                                 quote |-> ledger.balances[a].quote + quoteDelta(a)]
      BY <1>18
    <3>. QED  BY <3>1
  <2>2. /\ Moved(a, "base") = ledger.balances[a].base - Endowment[a].base
        /\ Moved(a, "quote") = ledger.balances[a].quote - Endowment[a].quote
    BY DEF Moved
  <2>3. /\ Moved(a, "base")' = ledger.balances'[a].base - Endowment[a].base
        /\ Moved(a, "quote")' = ledger.balances'[a].quote - Endowment[a].quote
    BY DEF Moved
  <2>. QED  BY <1>16, <1>17, <2>1, <2>2, <2>3
<1>21. ASSUME NEW a \in LedgerAccounts
       PROVE  /\ Moved(a, "base")' = Moved(a, "base")
                   + (IF a = buyer.recipient THEN fill.amount ELSE 0) - (IF a = seller.maker THEN fill.amount ELSE 0)
              /\ Moved(a, "quote")' = Moved(a, "quote")
                   + (IF a = seller.recipient THEN quote - sold ELSE 0)
                   + (IF a = FeeAccount THEN bought + sold ELSE 0)
                   - (IF a = buyer.maker THEN quote + bought ELSE 0)
  BY <1>1, <1>9, <1>11, <1>20
<1>22. ledger.filled' = [o \in SignedOrders |->
         ledger.filled[o] + (IF o \in {buyer, seller} THEN fill.amount ELSE 0)]
  BY <1>3, <1>4
<1>. QED
  BY <1>1, <1>4, <1>6, <1>9, <1>11, <1>12, <1>13, <1>14, <1>19, <1>21, <1>22
     DEF Moves, buyer, seller, quote, bought, sold
\* What one account has, and nobody else.
Only(x, units) == [a \in LedgerAccounts |-> IF a = x THEN units ELSE 0]

\* An amount that one account alone has is the sum over all of them.
LEMMA OnlyAdds ==
  ASSUME AccountingAssumption, NEW x \in LedgerAccounts, NEW units \in Int
  PROVE  /\ SumOver(Only(x, units), LedgerAccounts) = units
         /\ \A a \in LedgerAccounts : Only(x, units)[a] = IF a = x THEN units ELSE 0
         /\ \A a \in LedgerAccounts : Only(x, units)[a] \in Int
<1>1. /\ IsFiniteSet(LedgerAccounts)
      /\ Only(x, units)[x] = units
      /\ \A a \in LedgerAccounts \ {x} : Only(x, units)[a] = 0
      /\ \A a \in LedgerAccounts : Only(x, units)[a] \in Int
      /\ \A a \in LedgerAccounts : Only(x, units)[a] = IF a = x THEN units ELSE 0
  BY DEF Only, AccountingAssumption, LedgerAccounts
<1>. HIDE DEF Only
<1>. QED  BY <1>1, SumOfOne

\* What one account gains another loses.
LEMMA SettlingConserves ==
  ASSUME AccountingAssumption, AccountingSafe, NEW fill, NEW q, NEW b, NEW s,
         Moves(fill, q, b, s), NEW asset \in {"base", "quote"}
  PROVE  SumOver([a \in LedgerAccounts |-> Moved(a, asset)], LedgerAccounts)' = 0
<1>. DEFINE buyer == BuyOf(fill)
            seller == SellOf(fill)
            before == [a \in LedgerAccounts |-> Moved(a, asset)]
            after == [a \in LedgerAccounts |-> Moved(a, asset)']
<1>1. /\ buyer \in SignedOrders /\ seller \in SignedOrders
      /\ fill.amount \in Nat /\ q \in Nat /\ b \in Nat /\ s \in Nat
      /\ ledger.balances' \in [LedgerAccounts -> [base : Int, quote : Int]]
  BY DEF Moves
<1>2. /\ IsFiniteSet(LedgerAccounts) /\ FeeAccount \in LedgerAccounts
      /\ buyer.recipient \in LedgerAccounts /\ buyer.maker \in LedgerAccounts
      /\ seller.recipient \in LedgerAccounts /\ seller.maker \in LedgerAccounts
  BY <1>1 DEF AccountingAssumption, LedgerAccounts
<1>3. \A a \in LedgerAccounts :
        /\ Moved(a, "base") \in Int /\ Moved(a, "quote") \in Int
        /\ Moved(a, "base")' \in Int /\ Moved(a, "quote")' \in Int
  BY <1>1 DEF Moved, AccountingSafe, AccountingAssumption, LedgerAccounts
<1>4. \A a \in LedgerAccounts : before[a] \in Int /\ after[a] \in Int
  BY <1>3
<1>5. SumOver(before, LedgerAccounts) = 0
  BY DEF AccountingSafe, SettledAsSigned
<1>6. SumOver(after, LedgerAccounts) \in Int
  <2>. HIDE DEF after
  <2>. QED  BY <1>2, <1>4, SumType
<1>7. CASE asset = "base"
  <2>. DEFINE in == Only(buyer.recipient, fill.amount)
              out == Only(seller.maker, fill.amount)
              both == [a \in LedgerAccounts |-> before[a] + in[a]]
  <2>1. /\ SumOver(in, LedgerAccounts) = fill.amount /\ SumOver(out, LedgerAccounts) = fill.amount
        /\ \A a \in LedgerAccounts : in[a] \in Int /\ out[a] \in Int
        /\ \A a \in LedgerAccounts : in[a] = IF a = buyer.recipient THEN fill.amount ELSE 0
        /\ \A a \in LedgerAccounts : out[a] = IF a = seller.maker THEN fill.amount ELSE 0
    BY <1>1, <1>2, OnlyAdds
  <2>2. \A a \in LedgerAccounts : after[a] = before[a] + in[a] - out[a]
    <3>1. ASSUME NEW a \in LedgerAccounts
          PROVE  Moved(a, "base")' = Moved(a, "base")
                   + (IF a = buyer.recipient THEN fill.amount ELSE 0) - (IF a = seller.maker THEN fill.amount ELSE 0)
      BY DEF Moves
    <3>. QED  BY <1>7, <2>1, <3>1
  <2>. HIDE DEF before, after, in, out
  <2>3. \A a \in LedgerAccounts : both[a] = before[a] + in[a] /\ both[a] = after[a] + out[a]
    BY <1>4, <2>1, <2>2
  <2>. HIDE DEF both
  <2>4. SumOver(both, LedgerAccounts) = SumOver(before, LedgerAccounts) + SumOver(in, LedgerAccounts)
    BY <1>2, <1>4, <2>1, <2>3, SumPlus
  <2>5. SumOver(both, LedgerAccounts) = SumOver(after, LedgerAccounts) + SumOver(out, LedgerAccounts)
    BY <1>2, <1>4, <2>1, <2>3, SumPlus
  <2>6. SumOver(after, LedgerAccounts) = 0
    BY <1>1, <1>5, <1>6, <2>1, <2>4, <2>5
  <2>. QED  BY <2>6 DEF after
<1>8. CASE asset = "quote"
  <2>. DEFINE in == Only(seller.recipient, q - s)
              kept == Only(FeeAccount, b + s)
              out == Only(buyer.maker, q + b)
              two == [a \in LedgerAccounts |-> before[a] + in[a]]
              all == [a \in LedgerAccounts |-> two[a] + kept[a]]
  <2>1. /\ SumOver(in, LedgerAccounts) = q - s
        /\ \A a \in LedgerAccounts : in[a] \in Int
        /\ \A a \in LedgerAccounts : in[a] = IF a = seller.recipient THEN q - s ELSE 0
    BY <1>1, <1>2, OnlyAdds
  <2>2. b + s \in Int
    BY <1>1
  <2>3. /\ SumOver(kept, LedgerAccounts) = b + s
        /\ \A a \in LedgerAccounts : kept[a] \in Int
        /\ \A a \in LedgerAccounts : kept[a] = IF a = FeeAccount THEN b + s ELSE 0
    BY <1>2, <2>2, OnlyAdds
  <2>4. q + b \in Int
    BY <1>1
  <2>5. /\ SumOver(out, LedgerAccounts) = q + b
        /\ \A a \in LedgerAccounts : out[a] \in Int
        /\ \A a \in LedgerAccounts : out[a] = IF a = buyer.maker THEN q + b ELSE 0
    BY <1>2, <2>4, OnlyAdds
  <2>6. \A a \in LedgerAccounts : after[a] = before[a] + in[a] + kept[a] - out[a]
    <3>1. ASSUME NEW a \in LedgerAccounts
          PROVE  Moved(a, "quote")' = Moved(a, "quote") + (IF a = seller.recipient THEN q - s ELSE 0)
                   + (IF a = FeeAccount THEN b + s ELSE 0) - (IF a = buyer.maker THEN q + b ELSE 0)
      BY DEF Moves
    <3>. QED  BY <1>8, <2>1, <2>3, <2>5, <3>1
  <2>. HIDE DEF before, after, in, out, kept
  <2>7. \A a \in LedgerAccounts : two[a] \in Int /\ two[a] = before[a] + in[a]
    BY <1>4, <2>1
  <2>. HIDE DEF two
  <2>8. \A a \in LedgerAccounts : all[a] = two[a] + kept[a] /\ all[a] = after[a] + out[a]
    BY <1>4, <2>1, <2>3, <2>5, <2>6, <2>7
  <2>. HIDE DEF all
  <2>9. SumOver(two, LedgerAccounts) = SumOver(before, LedgerAccounts) + SumOver(in, LedgerAccounts)
    BY <1>2, <1>4, <2>1, <2>7, SumPlus
  <2>10. SumOver(all, LedgerAccounts) = SumOver(two, LedgerAccounts) + SumOver(kept, LedgerAccounts)
    BY <1>2, <2>3, <2>7, <2>8, SumPlus
  <2>11. SumOver(all, LedgerAccounts) = SumOver(after, LedgerAccounts) + SumOver(out, LedgerAccounts)
    BY <1>2, <1>4, <2>5, <2>8, SumPlus
  <2>12. SumOver(after, LedgerAccounts) = 0
    BY <1>1, <1>5, <1>6, <2>1, <2>3, <2>5, <2>9, <2>10, <2>11
  <2>. QED  BY <2>12 DEF after
<1>. QED  BY <1>7, <1>8

(* A sum over the orders when two of them change.                          *)
TwoDiffer(f, g, x, y) ==
  /\ IsFiniteSet(SignedOrders)
  /\ \A o \in SignedOrders : f[o] \in Int /\ g[o] \in Int
  /\ x \in SignedOrders /\ y \in SignedOrders /\ x # y
  /\ \A o \in SignedOrders : o # x /\ o # y => f[o] = g[o]

\* What a fill does to the sums over the signed orders.
LEMMA TwoOrders ==
  ASSUME NEW f, NEW g, NEW x, NEW y, TwoDiffer(f, g, x, y)
  PROVE  SumOver(g, SignedOrders) = SumOver(f, SignedOrders) + (g[x] - f[x]) + (g[y] - f[y])
BY SumChangeTwo DEF TwoDiffer

(* The two orders of a fill are owed what it moves, and more.              *)
LEMMA SettlingOwes ==
  ASSUME AccountingAssumption, AccountingSafe, NEW fill, NEW q, NEW b, NEW s,
         Moves(fill, q, b, s), NEW a \in LedgerAccounts
  PROVE  /\ Moved(a, "base")' = SumOver([o \in SignedOrders |-> BaseOwed(o, a)], SignedOrders)'
         /\ Moved(a, "quote")' * (CostDivisor * BpsScale)
              >= SumOver([o \in SignedOrders |-> QuoteOwed(o, a)], SignedOrders)'
<1>. DEFINE buyer == BuyOf(fill)
            seller == SellOf(fill)
            scale == CostDivisor * BpsScale
            base == [o \in SignedOrders |-> BaseOwed(o, a)]
            baseAfter == [o \in SignedOrders |-> BaseOwed(o, a)']
            quote == [o \in SignedOrders |-> QuoteOwed(o, a)]
            quoteAfter == [o \in SignedOrders |-> QuoteOwed(o, a)']
            worth(o) == (fill.amount * o.limit)
<1>1. /\ buyer \in SignedOrders /\ seller \in SignedOrders /\ buyer # seller
      /\ buyer.side = "buy" /\ seller.side = "sell"
      /\ fill.amount \in Nat /\ q \in Nat /\ b \in Nat /\ s \in Nat
      /\ ledger.filled' = [o \in SignedOrders |->
           ledger.filled[o] + (IF o \in {buyer, seller} THEN fill.amount ELSE 0)]
  BY DEF Moves
<1>2. /\ \A o \in SignedOrders : /\ ledger.filled[o] \in Nat /\ o.limit \in Nat /\ o.fee \in Nat
                                 /\ ledger.filled'[o] \in Nat
      /\ IsFiniteSet(SignedOrders) /\ BpsScale \in Nat /\ scale \in Nat
  BY <1>1 DEF AccountingSafe, AccountingAssumption
<1>3. \A o \in SignedOrders : base[o] \in Int /\ baseAfter[o] \in Int
  BY <1>2 DEF BaseOwed
<1>4. ASSUME NEW o \in SignedOrders PROVE quote[o] \in Int /\ quoteAfter[o] \in Int
  <2>1. /\ ledger.filled[o] * o.limit \in Int /\ ledger.filled'[o] * o.limit \in Int
        /\ BpsScale + o.fee \in Int /\ BpsScale - o.fee \in Int
    BY <1>2
  <2>2. /\ (ledger.filled[o] * o.limit) * (BpsScale + o.fee) \in Int
        /\ (ledger.filled[o] * o.limit) * (BpsScale - o.fee) \in Int
        /\ (ledger.filled'[o] * o.limit) * (BpsScale + o.fee) \in Int
        /\ (ledger.filled'[o] * o.limit) * (BpsScale - o.fee) \in Int
    BY <2>1
  <2>. QED  BY <2>2 DEF QuoteOwed
<1>5. \A o \in SignedOrders \ {buyer, seller} : base[o] = baseAfter[o] /\ quote[o] = quoteAfter[o]
  BY <1>1, <1>2 DEF BaseOwed, QuoteOwed
<1>6. /\ baseAfter[buyer] - base[buyer] = IF a = buyer.recipient THEN fill.amount ELSE 0
      /\ baseAfter[seller] - base[seller] = IF a = seller.maker THEN -fill.amount ELSE 0
  BY <1>1, <1>2 DEF BaseOwed
<1>7. quoteAfter[buyer] - quote[buyer]
        = IF a = buyer.maker THEN -(worth(buyer) * (BpsScale + buyer.fee)) ELSE 0
  <2>1. ledger.filled'[buyer] * buyer.limit = ledger.filled[buyer] * buyer.limit + worth(buyer)
    BY <1>1, <1>2
  <2>2. worth(buyer) \in Int /\ ledger.filled[buyer] * buyer.limit \in Int /\ BpsScale + buyer.fee \in Int
    BY <1>1, <1>2
  <2>3. (ledger.filled'[buyer] * buyer.limit) * (BpsScale + buyer.fee)
          = (ledger.filled[buyer] * buyer.limit) * (BpsScale + buyer.fee) + worth(buyer) * (BpsScale + buyer.fee)
    BY <2>1, <2>2
  <2>4. /\ (ledger.filled[buyer] * buyer.limit) * (BpsScale + buyer.fee) \in Int
        /\ worth(buyer) * (BpsScale + buyer.fee) \in Int
    BY <2>2
  <2>. HIDE DEF worth, buyer, seller
  <2>5. /\ quote[buyer] = IF buyer.maker = a THEN -((ledger.filled[buyer] * buyer.limit) * (BpsScale + buyer.fee)) ELSE 0
        /\ quoteAfter[buyer] = IF buyer.maker = a THEN -((ledger.filled'[buyer] * buyer.limit) * (BpsScale + buyer.fee)) ELSE 0
    BY <1>1 DEF QuoteOwed
  <2>. QED  BY <2>3, <2>4, <2>5
<1>8. quoteAfter[seller] - quote[seller]
        = IF a = seller.recipient THEN worth(seller) * (BpsScale - seller.fee) ELSE 0
  <2>1. ledger.filled'[seller] * seller.limit = ledger.filled[seller] * seller.limit + worth(seller)
    BY <1>1, <1>2
  <2>2. worth(seller) \in Int /\ ledger.filled[seller] * seller.limit \in Int /\ BpsScale - seller.fee \in Int
    BY <1>1, <1>2
  <2>3. (ledger.filled'[seller] * seller.limit) * (BpsScale - seller.fee)
          = (ledger.filled[seller] * seller.limit) * (BpsScale - seller.fee) + worth(seller) * (BpsScale - seller.fee)
    BY <2>1, <2>2
  <2>4. /\ (ledger.filled[seller] * seller.limit) * (BpsScale - seller.fee) \in Int
        /\ worth(seller) * (BpsScale - seller.fee) \in Int
    BY <2>2
  <2>. HIDE DEF worth, buyer, seller
  <2>5. /\ quote[seller] = IF seller.recipient = a THEN (ledger.filled[seller] * seller.limit) * (BpsScale - seller.fee) ELSE 0
        /\ quoteAfter[seller] = IF seller.recipient = a THEN (ledger.filled'[seller] * seller.limit) * (BpsScale - seller.fee) ELSE 0
    BY <1>1 DEF QuoteOwed
  <2>. QED  BY <2>3, <2>4, <2>5
<1>9. /\ Moved(a, "base") = SumOver(base, SignedOrders)
      /\ Moved(a, "quote") * scale >= SumOver(quote, SignedOrders)
      /\ Moved(a, "base") \in Int /\ Moved(a, "quote") \in Int
  BY DEF AccountingSafe, SettledAsSigned, Moved, AccountingAssumption, LedgerAccounts
<1>10. /\ Moved(a, "base")' = Moved(a, "base")
            + (IF a = buyer.recipient THEN fill.amount ELSE 0) - (IF a = seller.maker THEN fill.amount ELSE 0)
       /\ Moved(a, "quote")' = Moved(a, "quote")
            + (IF a = seller.recipient THEN q - s ELSE 0) + (IF a = FeeAccount THEN b + s ELSE 0)
            - (IF a = buyer.maker THEN q + b ELSE 0)
       /\ (q - s) * scale >= worth(seller) * (BpsScale - seller.fee)
       /\ (q + b) * scale <= worth(buyer) * (BpsScale + buyer.fee)
  BY DEF Moves
<1>. HIDE DEF base, baseAfter, quote, quoteAfter, buyer, seller, scale
<1>11. SumOver(baseAfter, SignedOrders)
         = SumOver(base, SignedOrders) + (baseAfter[buyer] - base[buyer]) + (baseAfter[seller] - base[seller])
  <2>1. \A o \in SignedOrders : base[o] \in Int /\ baseAfter[o] \in Int
    BY <1>3
  <2>2. \A o \in SignedOrders : o # buyer /\ o # seller => base[o] = baseAfter[o]
    BY <1>5
  <2>3. IsFiniteSet(SignedOrders)
    BY <1>2
  <2>4. buyer \in SignedOrders /\ seller \in SignedOrders /\ buyer # seller
    BY <1>1
  <2>5. PICK x, y, f, g : x = buyer /\ y = seller /\ f = base /\ g = baseAfter
    OBVIOUS
  <2>6. TwoDiffer(f, g, x, y)
    BY <2>1, <2>2, <2>3, <2>4, <2>5 DEF TwoDiffer
  <2>7. SumOver(g, SignedOrders) = SumOver(f, SignedOrders) + (g[x] - f[x]) + (g[y] - f[y])
    BY <2>6, TwoOrders
  <2>. QED  BY <2>5, <2>7
<1>12. SumOver(quoteAfter, SignedOrders)
         = SumOver(quote, SignedOrders) + (quoteAfter[buyer] - quote[buyer]) + (quoteAfter[seller] - quote[seller])
  <2>1. \A o \in SignedOrders : quote[o] \in Int /\ quoteAfter[o] \in Int
    BY <1>4
  <2>2. \A o \in SignedOrders : o # buyer /\ o # seller => quote[o] = quoteAfter[o]
    BY <1>5
  <2>3. IsFiniteSet(SignedOrders)
    BY <1>2
  <2>4. buyer \in SignedOrders /\ seller \in SignedOrders /\ buyer # seller
    BY <1>1
  <2>5. PICK x, y, f, g : x = buyer /\ y = seller /\ f = quote /\ g = quoteAfter
    OBVIOUS
  <2>6. TwoDiffer(f, g, x, y)
    BY <2>1, <2>2, <2>3, <2>4, <2>5 DEF TwoDiffer
  <2>7. SumOver(g, SignedOrders) = SumOver(f, SignedOrders) + (g[x] - f[x]) + (g[y] - f[y])
    BY <2>6, TwoOrders
  <2>. QED  BY <2>5, <2>7
<1>13. SumOver(base, SignedOrders) \in Int /\ SumOver(quote, SignedOrders) \in Int
  BY <1>2, <1>3, <1>4, SumType
<1>14. Moved(a, "base")' = SumOver(baseAfter, SignedOrders)
  BY <1>1, <1>6, <1>9, <1>10, <1>11, <1>13
<1>15. Moved(a, "quote")' * scale >= SumOver(quoteAfter, SignedOrders)
  <2>. DEFINE in == IF a = seller.recipient THEN q - s ELSE 0
              kept == IF a = FeeAccount THEN b + s ELSE 0
              out == IF a = buyer.maker THEN q + b ELSE 0
              owedIn == quoteAfter[seller] - quote[seller]
              owedOut == quoteAfter[buyer] - quote[buyer]
  <2>1. in \in Int /\ kept \in Nat /\ out \in Int
    BY <1>1
  <2>2. worth(seller) * (BpsScale - seller.fee) \in Int /\ worth(buyer) * (BpsScale + buyer.fee) \in Int
    BY <1>1, <1>2
  <2>3. in * scale >= owedIn /\ owedIn \in Int
    <3>1. CASE a = seller.recipient
      BY <3>1, <1>8, <1>10, <2>2
    <3>2. CASE a # seller.recipient
      BY <3>2, <1>2, <1>8
    <3>. QED  BY <3>1, <3>2
  <2>4. out * scale <= -owedOut /\ owedOut \in Int
    <3>1. CASE a = buyer.maker
      BY <3>1, <1>7, <1>10, <2>2
    <3>2. CASE a # buyer.maker
      BY <3>2, <1>2, <1>7
    <3>. QED  BY <3>1, <3>2
  <2>5. kept * scale >= 0 /\ kept * scale \in Int /\ in * scale \in Int /\ out * scale \in Int
        /\ Moved(a, "quote") * scale \in Int
    BY <1>2, <1>9, <2>1
  <2>6. Moved(a, "quote")' = Moved(a, "quote") + in + kept - out
    BY <1>10
  <2>. HIDE DEF in, kept, out, owedIn, owedOut
  <2>7. Moved(a, "quote")' * scale = Moved(a, "quote") * scale + in * scale + kept * scale - out * scale
    BY <1>2, <1>9, <2>1, <2>6
  <2>8. SumOver(quoteAfter, SignedOrders) = SumOver(quote, SignedOrders) + owedOut + owedIn
    BY <1>12 DEF owedIn, owedOut
  <2>. QED  BY <1>9, <1>13, <2>3, <2>4, <2>5, <2>7, <2>8
<1>. QED  BY <1>14, <1>15 DEF baseAfter, quoteAfter, scale

\* Plans, settlements and rejections keep the accounts explained by the settled fills.
LEMMA AccountingSafeNext ==
  ASSUME AccountingAssumption, AccountingSafe, [AccountingNext]_accountingVars
  PROVE  AccountingSafe'
<1>0. ASSUME UNCHANGED ledger, SettledAsSigned PROVE SettledAsSigned'
  BY <1>0 DEF SettledAsSigned, Moved, BaseOwed, QuoteOwed
<1>1. ASSUME NEW maker \in SignedOrders, NEW taker \in SignedOrders, NEW units \in FillAmounts,
             NEW price \in {maker.limit, taker.limit}, PlanFill(maker, taker, units, price)
      PROVE  AccountingSafe'
  <2>1. /\ UNCHANGED ledger
        /\ \A fill \in planned' : \/ fill \in planned
                                  \/ /\ fill.maker = maker /\ fill.taker = taker
                                     /\ fill.amount = units /\ fill.price = price
    BY <1>1 DEF PlanFill
  <2>2. units \in Nat /\ price \in Nat
    BY DEF AccountingAssumption
  <2>3. SettledAsSigned'
    BY <1>0, <2>1 DEF AccountingSafe
  <2>4. \A fill \in planned' : /\ fill.maker \in SignedOrders /\ fill.taker \in SignedOrders
                               /\ fill.amount \in Nat /\ fill.price \in Nat
    BY <2>1, <2>2 DEF AccountingSafe
  <2>. QED  BY <2>1, <2>3, <2>4 DEF AccountingSafe
<1>2. ASSUME UNCHANGED <<ledger, planned>> PROVE AccountingSafe'
  BY <1>0, <1>2 DEF AccountingSafe, LedgerAccounts
<1>3. ASSUME NEW o \in SignedOrders, EndOrder(o) PROVE AccountingSafe'
  BY <1>2, <1>3 DEF EndOrder
<1>4. ASSUME NEW fill \in planned, NEW fees \in [maker : FeesInBps, taker : FeesInBps],
             SettlePlannedFill(fill, fees)
      PROVE  AccountingSafe'
  <2>. DEFINE q == QuoteOf(fill)
              b == BuyerFee(fill, fees)
              s == SellerFee(fill, fees)
  <2>1. Moves(fill, q, b, s)
    BY <1>4, SettlingMoves
  <2>. HIDE DEF q, b, s
  <2>2. \A asset \in {"base", "quote"} :
          SumOver([a \in LedgerAccounts |-> Moved(a, asset)], LedgerAccounts)' = 0
    BY <2>1, SettlingConserves
  <2>3. \A a \in LedgerAccounts :
          /\ Moved(a, "base")' = SumOver([o \in SignedOrders |-> BaseOwed(o, a)], SignedOrders)'
          /\ Moved(a, "quote")' * (CostDivisor * BpsScale)
               >= SumOver([o \in SignedOrders |-> QuoteOwed(o, a)], SignedOrders)'
    BY <2>1, SettlingOwes
  <2>4. /\ ledger'.filled = [o \in SignedOrders |->
             ledger.filled[o] + (IF o \in {BuyOf(fill), SellOf(fill)} THEN fill.amount ELSE 0)]
        /\ fill.amount \in Nat
        /\ \A o \in {BuyOf(fill), SellOf(fill)} : ledger.filled[o] + fill.amount <= o.base
        /\ ledger'.balances \in [LedgerAccounts -> [base : Int, quote : Int]]
    BY <2>1 DEF Moves
  <2>5. /\ ledger.filled \in [SignedOrders -> Nat] /\ UNCHANGED planned
        /\ \A o \in SignedOrders : ledger.filled[o] <= o.base
    BY <1>4 DEF AccountingSafe, SettledAsSigned, SettlePlannedFill
  <2>6. ledger'.filled \in [SignedOrders -> Nat]
    BY <2>4, <2>5
  <2>7. \A o \in SignedOrders : ledger'.filled[o] <= o.base
    BY <2>4, <2>5
  <2>8. LedgerAccounts' = LedgerAccounts
    BY DEF LedgerAccounts
  <2>9. SettledAsSigned'
    BY <2>2, <2>3, <2>7, <2>8 DEF SettledAsSigned
  <2>. QED  BY <2>4, <2>5, <2>6, <2>8, <2>9 DEF AccountingSafe
<1>5. CASE UNCHANGED accountingVars
  BY <1>2, <1>5 DEF accountingVars
<1>. QED  BY <1>1, <1>3, <1>4, <1>5 DEF AccountingNext

\* The ledger starts explained by no fill at all.
LEMMA AccountingSafeInit ==
  ASSUME AccountingAssumption, AccountingInit PROVE AccountingSafe
<1>1. /\ ledger.balances = Endowment /\ ledger.filled = [o \in SignedOrders |-> 0] /\ planned = {}
      /\ Endowment \in [LedgerAccounts -> [base : Int, quote : Int]]
      /\ IsFiniteSet(SignedOrders) /\ IsFiniteSet(LedgerAccounts)
      /\ \A o \in SignedOrders : o.base \in Nat /\ o.limit \in Nat /\ o.fee \in Nat
      /\ BpsScale \in Nat /\ CostDivisor \in Nat
  BY DEF AccountingInit, AccountingAssumption, LedgerAccounts
<1>2. ASSUME NEW S, IsFiniteSet(S), NEW f, \A x \in S : f[x] = 0 PROVE SumOver(f, S) = 0
  <2>1. SumOver(f, S) = 0 * Cardinality(S)
    BY <1>2, SumConstant
  <2>. QED  BY <1>2, <2>1, FS_CardinalityType
<1>3. \A a \in LedgerAccounts : Moved(a, "base") = 0 /\ Moved(a, "quote") = 0
  BY <1>1 DEF Moved
<1>4. ASSUME NEW a \in LedgerAccounts, NEW o \in SignedOrders PROVE BaseOwed(o, a) = 0
  <2>1. ledger.filled[o] = 0
    BY <1>1
  <2>2. BaseOwed(o, a) \in {0, -ledger.filled[o]}
    BY <2>1 DEF BaseOwed
  <2>. QED  BY <2>1, <2>2
<1>5. ASSUME NEW a \in LedgerAccounts, NEW o \in SignedOrders PROVE QuoteOwed(o, a) = 0
  <2>1. ledger.filled[o] * o.limit = 0
    BY <1>1
  <2>2. 0 * (BpsScale + o.fee) = 0 /\ 0 * (BpsScale - o.fee) = 0
    BY <1>1
  <2>. QED  BY <2>1, <2>2 DEF QuoteOwed
<1>6. ASSUME NEW a \in LedgerAccounts
      PROVE  /\ SumOver([o \in SignedOrders |-> BaseOwed(o, a)], SignedOrders) = 0
             /\ SumOver([o \in SignedOrders |-> QuoteOwed(o, a)], SignedOrders) = 0
  <2>1. \A o \in SignedOrders : [p \in SignedOrders |-> BaseOwed(p, a)][o] = 0
    BY <1>4
  <2>2. \A o \in SignedOrders : [p \in SignedOrders |-> QuoteOwed(p, a)][o] = 0
    BY <1>5
  <2>. QED  BY <1>1, <1>2, <2>1, <2>2
<1>7. ASSUME NEW asset \in {"base", "quote"}
      PROVE  SumOver([a \in LedgerAccounts |-> Moved(a, asset)], LedgerAccounts) = 0
  <2>1. \A a \in LedgerAccounts : [c \in LedgerAccounts |-> Moved(c, asset)][a] = 0
    BY <1>3
  <2>. QED  BY <1>1, <1>2, <2>1
<1>8. \A a \in LedgerAccounts : Moved(a, "quote") * (CostDivisor * BpsScale) = 0
  BY <1>1, <1>3
<1>9. SettledAsSigned
  BY <1>1, <1>3, <1>6, <1>7, <1>8 DEF SettledAsSigned
<1>. QED  BY <1>1, <1>9 DEF AccountingSafe

(* Stale and repeated plans, shared accounts, any sizes, limits, fees and  *)
(* roundings: nobody gets less or pays more than was signed for them.      *)
THEOREM LedgerSettlesAsSigned == AccountingSpec => []SettledAsSigned
<1>1. AccountingInit => AccountingSafe
  BY AccountingAssumption, AccountingSafeInit
<1>2. AccountingSafe /\ [AccountingNext]_accountingVars => AccountingSafe'
  BY AccountingAssumption, AccountingSafeNext
<1>3. AccountingSafe => SettledAsSigned
  BY DEF AccountingSafe
<1>. QED  BY <1>1, <1>2, <1>3, PTL DEF AccountingSpec
-----------------------------------------------------------------------------
(* The reserve. *)

ReserveSpec == ReserveInit /\ [][ReserveNext]_reserveVars

Places == {"pending", "mined", "dead", "final"}

ClaimTyped(c) ==
  /\ c = [status |-> c.status, txid |-> c.txid, selectedInput |-> c.selectedInput,
          inTransit |-> c.inTransit, change |-> c.change, fee |-> c.fee]
  /\ c.status \in {"payable", "signed", "broadcast", "mined", "unresolved"}
  /\ c.selectedInput \in Nat /\ c.inTransit \in Nat /\ c.change \in Nat

ReserveTypes ==
  /\ DOMAIN claims \subseteq WithdrawalIds
  /\ claims = [w \in DOMAIN claims |-> claims[w]]
  /\ \A w \in DOMAIN claims : ClaimTyped(claims[w])
  /\ native \in [Txids -> [pays : WithdrawalIds, cost : Nat, place : Places] \cup {None}]
  /\ controlled \in Int /\ supply \in Int

\* What is known of a transaction holds for good, and no other one is signed
\* under its name.
ChainKept ==
  /\ \A t \in Txids : native[t] # None => t \in committed
  /\ \A t \in Txids, reached \in {"dead", "final"} :
       <<t, reached>> \in known => native[t] # None /\ native[t].place = reached

\* A withdrawal's transactions are dead, but for the one its claim names or, once
\* it was confirmed, a final one.
OnePayment(w) ==
  IF w \in DOMAIN claims
  THEN IF claims[w].status = "payable"
       THEN claims[w] = PayableClaim /\ CanPay(w) = {}
       ELSE /\ claims[w].txid \in Txids /\ native[claims[w].txid] # None
            /\ native[claims[w].txid].pays = w /\ CanPay(w) \subseteq {claims[w].txid}
            /\ native[claims[w].txid].cost >= Payable
            /\ claims[w].selectedInput = native[claims[w].txid].cost + claims[w].change
            /\ claims[w].inTransit = IF claims[w].status = "unresolved" THEN 0 ELSE Payable
  ELSE \/ CanPay(w) = {}
       \/ \E t \in Txids : CanPay(w) = {t} /\ native[t].place = "final"

(* What the transaction that can still pay a withdrawal costs, what is owed *)
(* for it at worst, what the ledger has set aside, and what was returned.   *)
LiveCost(w) == IF CanPay(w) = {} THEN 0 ELSE native[CHOOSE t \in CanPay(w) : TRUE].cost
OwedFor == [w \in WithdrawalIds |->
  LiveCost(w) + (IF w \in DOMAIN claims /\ CanPay(w) = {} THEN Payable ELSE 0)]
SetAside == [w \in WithdrawalIds |->
  IF w \in DOMAIN claims THEN claims[w].selectedInput ELSE LiveCost(w)]
Refunded == [w \in WithdrawalIds |->
  IF w \notin DOMAIN claims /\ CanPay(w) = {} THEN Payable ELSE 0]

Books ==
  /\ controlled = StartingAssets - SumOver(SetAside, WithdrawalIds)
  /\ StartingAssets - SumOver(OwedFor, WithdrawalIds) >= supply + OtherRequirements
  /\ supply = StartingSupply + SumOver(Refunded, WithdrawalIds)

ReserveInv ==
  /\ ReserveTypes
  /\ ChainKept
  /\ \A w \in WithdrawalIds : OnePayment(w)
  /\ Books

\* What a withdrawal costs, is owed and had set aside are numbers.
LEMMA SumsTyped ==
  ASSUME ReserveAssumption, ReserveTypes
  PROVE  /\ \A w \in WithdrawalIds : LiveCost(w) \in Nat
         /\ \A w \in WithdrawalIds : OwedFor[w] \in Int /\ SetAside[w] \in Int /\ Refunded[w] \in Int
<1>1. ASSUME NEW w \in WithdrawalIds PROVE LiveCost(w) \in Nat
  <2>1. CASE CanPay(w) = {}
    BY <2>1 DEF LiveCost
  <2>2. CASE CanPay(w) # {}
    <3>1. (CHOOSE t \in CanPay(w) : TRUE) \in CanPay(w)
      BY <2>2
    <3>2. \A t \in CanPay(w) : native[t].cost \in Nat
      BY DEF CanPay, ReserveTypes
    <3>. QED  BY <2>2, <3>1, <3>2 DEF LiveCost
  <2>. QED  BY <2>1, <2>2
<1>2. Payable \in Nat
  BY DEF ReserveAssumption
<1>. QED  BY <1>1, <1>2 DEF OwedFor, SetAside, Refunded, ReserveTypes, ClaimTyped

\* The one transaction that can pay w is t.
LEMMA LiveCostOf ==
  ASSUME NEW w, NEW t, CanPay(w) = {t}
  PROVE  LiveCost(w) = native[t].cost
BY DEF LiveCost

\* A step about one withdrawal moves only its entry of each sum.
LEMMA BooksMove ==
  ASSUME ReserveAssumption, ReserveTypes, ReserveTypes', NEW w \in WithdrawalIds,
         \A x \in WithdrawalIds \ {w} :
           OwedFor'[x] = OwedFor[x] /\ SetAside'[x] = SetAside[x] /\ Refunded'[x] = Refunded[x],
         Books,
         controlled' = controlled + SetAside[w] - SetAside'[w],
         supply' = supply + Refunded'[w] - Refunded[w],
         OwedFor'[w] - OwedFor[w] <= supply - supply'
  PROVE  Books'
<1>1. \A x \in WithdrawalIds : /\ OwedFor[x] \in Int /\ SetAside[x] \in Int /\ Refunded[x] \in Int
  BY SumsTyped
<1>2. \A x \in WithdrawalIds : /\ OwedFor'[x] \in Int /\ SetAside'[x] \in Int /\ Refunded'[x] \in Int
  <2>1. ASSUME NEW x \in WithdrawalIds PROVE LiveCost(x)' \in Nat
    <3>1. CASE CanPay(x)' = {}
      BY <3>1 DEF LiveCost
    <3>2. CASE CanPay(x)' # {}
      <4>1. (CHOOSE t \in CanPay(x)' : TRUE) \in CanPay(x)'
        BY <3>2
      <4>2. \A t \in CanPay(x)' : native'[t].cost \in Nat
        BY DEF CanPay, ReserveTypes
      <4>. QED  BY <3>2, <4>1, <4>2 DEF LiveCost
    <3>. QED  BY <3>1, <3>2
  <2>2. Payable \in Nat
    BY DEF ReserveAssumption
  <2>. QED  BY <2>1, <2>2 DEF OwedFor, SetAside, Refunded, ReserveTypes, ClaimTyped
<1>3. IsFiniteSet(WithdrawalIds)
  BY DEF ReserveAssumption
<1>4. SumOver(OwedFor', WithdrawalIds) = SumOver(OwedFor, WithdrawalIds) + OwedFor'[w] - OwedFor[w]
  BY <1>1, <1>2, <1>3, SumChange
<1>5. SumOver(SetAside', WithdrawalIds) = SumOver(SetAside, WithdrawalIds) + SetAside'[w] - SetAside[w]
  BY <1>1, <1>2, <1>3, SumChange
<1>6. SumOver(Refunded', WithdrawalIds) = SumOver(Refunded, WithdrawalIds) + Refunded'[w] - Refunded[w]
  BY <1>1, <1>2, <1>3, SumChange
<1>7. /\ SumOver(OwedFor, WithdrawalIds) \in Int /\ SumOver(SetAside, WithdrawalIds) \in Int
      /\ SumOver(Refunded, WithdrawalIds) \in Int
  BY <1>1, <1>3, SumType
<1>8. /\ controlled \in Int /\ supply \in Int /\ StartingAssets \in Int /\ StartingSupply \in Int
      /\ OtherRequirements \in Int /\ controlled' \in Int /\ supply' \in Int
  BY DEF ReserveTypes, ReserveAssumption
<1>. QED  BY <1>1, <1>2, <1>4, <1>5, <1>6, <1>7, <1>8 DEF Books
\* The claims that a step about one withdrawal leaves alone.
LEMMA OthersStay ==
  ASSUME NEW w, UNCHANGED native,
         \A x \in WithdrawalIds \ {w} :
           /\ x \in DOMAIN claims' <=> x \in DOMAIN claims
           /\ x \in DOMAIN claims => claims'[x] = claims[x]
  PROVE  /\ \A x \in WithdrawalIds : CanPay(x)' = CanPay(x) /\ LiveCost(x)' = LiveCost(x)
         /\ \A x \in WithdrawalIds \ {w} : OnePayment(x)' <=> OnePayment(x)
         /\ \A x \in WithdrawalIds \ {w} :
              OwedFor'[x] = OwedFor[x] /\ SetAside'[x] = SetAside[x] /\ Refunded'[x] = Refunded[x]
<1>1. \A x \in WithdrawalIds : CanPay(x)' = CanPay(x)
  BY DEF CanPay
<1>2. ASSUME NEW x \in WithdrawalIds PROVE LiveCost(x)' = LiveCost(x)
  <2>1. CanPay(x)' = CanPay(x) /\ native' = native
    BY <1>1
  <2>2. (CHOOSE t \in CanPay(x)' : TRUE) = (CHOOSE t \in CanPay(x) : TRUE)
    BY <2>1
  <2>. QED  BY <2>1, <2>2 DEF LiveCost
<1>3. ASSUME NEW x \in WithdrawalIds \ {w} PROVE OnePayment(x)' <=> OnePayment(x)
  <2>1. CanPay(x)' = CanPay(x) /\ native' = native
    BY <1>1
  <2>2. CASE x \in DOMAIN claims
    BY <2>1, <2>2 DEF OnePayment
  <2>3. CASE x \notin DOMAIN claims
    BY <2>1, <2>3 DEF OnePayment
  <2>. QED  BY <2>2, <2>3
<1>4. ASSUME NEW x \in WithdrawalIds \ {w}
      PROVE  OwedFor'[x] = OwedFor[x] /\ SetAside'[x] = SetAside[x] /\ Refunded'[x] = Refunded[x]
  <2>1. OwedFor'[x] = OwedFor[x]
    BY <1>1, <1>2 DEF OwedFor
  <2>2. SetAside'[x] = SetAside[x]
    BY <1>2 DEF SetAside
  <2>3. Refunded'[x] = Refunded[x]
    BY <1>1 DEF Refunded
  <2>. QED  BY <2>1, <2>2, <2>3
<1>. QED  BY <1>1, <1>2, <1>3, <1>4

\* A claim marked and moved in transit is otherwise the claim it was.
LEMMA RemarkedClaim ==
  ASSUME NEW c, NEW mark, NEW transit,
         c = [status |-> c.status, txid |-> c.txid, selectedInput |-> c.selectedInput,
              inTransit |-> c.inTransit, change |-> c.change, fee |-> c.fee]
  PROVE  [[c EXCEPT !.status = mark] EXCEPT !.inTransit = transit]
           = [status |-> mark, txid |-> c.txid, selectedInput |-> c.selectedInput,
              inTransit |-> transit, change |-> c.change, fee |-> c.fee]
<1>1. PICK st, tx, si, it, ch, fe :
        st = c.status /\ tx = c.txid /\ si = c.selectedInput /\ it = c.inTransit /\ ch = c.change /\ fe = c.fee
  OBVIOUS
<1>2. c = [status |-> st, txid |-> tx, selectedInput |-> si, inTransit |-> it, change |-> ch, fee |-> fe]
  BY <1>1, Zenon
<1>3. [[c EXCEPT !.status = mark] EXCEPT !.inTransit = transit]
        = [status |-> mark, txid |-> tx, selectedInput |-> si,
           inTransit |-> transit, change |-> ch, fee |-> fe]
  <2>. DEFINE marked == [c EXCEPT !.status = mark]
  <2>1. marked = [status |-> mark, txid |-> tx, selectedInput |-> si,
                  inTransit |-> it, change |-> ch, fee |-> fe]
    BY <1>2
  <2>. HIDE DEF marked
  <2>2. [marked EXCEPT !.inTransit = transit]
          = [status |-> mark, txid |-> tx, selectedInput |-> si,
             inTransit |-> transit, change |-> ch, fee |-> fe]
    BY <2>1
  <2>. QED  BY <2>2 DEF marked
<1>. QED  BY <1>1, <1>3, Zenon

(* Only the mark of a claim changes.                                       *)
LEMMA MarkedKeeps ==
  ASSUME ReserveAssumption, ReserveInv, NEW w \in DOMAIN claims, claims[w].status # "payable",
         NEW status \in {"broadcast", "mined", "unresolved"},
         Marked(w, status, IF status = "unresolved" THEN 0 ELSE Payable)
  PROVE  ReserveInv'
<1>. DEFINE transit == IF status = "unresolved" THEN 0 ELSE Payable
<1>1. /\ claims' = [claims EXCEPT ![w].status = status, ![w].inTransit = transit]
      /\ UNCHANGED <<controlled, supply, committed, native, known>>
  BY DEF Marked
<1>2. ReserveTypes /\ ChainKept /\ Books /\ Payable \in Nat /\ transit \in Nat
      /\ \A x \in WithdrawalIds : OnePayment(x)
  BY DEF ReserveInv, ReserveAssumption
<1>3. w \in WithdrawalIds
  BY <1>2 DEF ReserveTypes
<1>4. /\ claims' = [x \in DOMAIN claims |->
           IF x = w THEN [status |-> status, txid |-> claims[w].txid, selectedInput |-> claims[w].selectedInput,
                          inTransit |-> transit, change |-> claims[w].change, fee |-> claims[w].fee]
           ELSE claims[x]]
  <2>. HIDE DEF transit
  <2>1. claims = [x \in DOMAIN claims |-> claims[x]]
        /\ claims[w] = [status |-> claims[w].status, txid |-> claims[w].txid,
                        selectedInput |-> claims[w].selectedInput, inTransit |-> claims[w].inTransit,
                        change |-> claims[w].change, fee |-> claims[w].fee]
    BY <1>2 DEF ReserveTypes, ClaimTyped
  <2>2. claims' = [x \in DOMAIN claims |->
           IF x = w THEN [[claims[w] EXCEPT !.status = status] EXCEPT !.inTransit = transit] ELSE claims[x]]
    BY <1>1, <2>1
  <2>3. [[claims[w] EXCEPT !.status = status] EXCEPT !.inTransit = transit]
          = [status |-> status, txid |-> claims[w].txid, selectedInput |-> claims[w].selectedInput,
             inTransit |-> transit, change |-> claims[w].change, fee |-> claims[w].fee]
    <3>1. \A c : (c = [status |-> c.status, txid |-> c.txid, selectedInput |-> c.selectedInput,
                       inTransit |-> c.inTransit, change |-> c.change, fee |-> c.fee])
              => [[c EXCEPT !.status = status] EXCEPT !.inTransit = transit]
                   = [status |-> status, txid |-> c.txid, selectedInput |-> c.selectedInput,
                      inTransit |-> transit, change |-> c.change, fee |-> c.fee]
      BY RemarkedClaim
    <3>. QED  BY <2>1, <3>1
  <2>. QED  BY <2>2, <2>3
<1>. HIDE DEF transit
<1>5. /\ DOMAIN claims' = DOMAIN claims
      /\ claims'[w].status = status /\ claims'[w].txid = claims[w].txid
      /\ claims'[w].selectedInput = claims[w].selectedInput
      /\ claims'[w].inTransit = transit /\ claims'[w].change = claims[w].change
      /\ \A x \in DOMAIN claims \ {w} : claims'[x] = claims[x]
  BY <1>4
<1>6. ReserveTypes'
  <2>1. /\ DOMAIN claims' \subseteq WithdrawalIds /\ claims' = [x \in DOMAIN claims' |-> claims'[x]]
        /\ native' \in [Txids -> [pays : WithdrawalIds, cost : Nat, place : Places] \cup {None}]
        /\ controlled' \in Int /\ supply' \in Int
    <3>1. DOMAIN claims' \subseteq WithdrawalIds
      BY <1>2, <1>5 DEF ReserveTypes
    <3>2. claims' = [x \in DOMAIN claims' |-> claims'[x]]
      BY <1>4
    <3>. QED  BY <1>1, <1>2, <3>1, <3>2 DEF ReserveTypes
  <2>2. ASSUME NEW x \in DOMAIN claims' PROVE ClaimTyped(claims'[x])
    <3>1. ClaimTyped(claims[x])
      BY <1>2, <1>5 DEF ReserveTypes
    <3>2. CASE x = w
      BY <1>2, <1>4, <1>5, <3>1, <3>2 DEF ClaimTyped
    <3>3. CASE x # w
      BY <1>5, <3>1, <3>3
    <3>. QED  BY <3>2, <3>3
  <2>. QED  BY <2>1, <2>2 DEF ReserveTypes
<1>7. ChainKept'
  BY <1>1, <1>2 DEF ChainKept
<1>8. /\ \A x \in WithdrawalIds : CanPay(x)' = CanPay(x) /\ LiveCost(x)' = LiveCost(x)
      /\ \A x \in WithdrawalIds \ {w} : OnePayment(x)' <=> OnePayment(x)
      /\ \A x \in WithdrawalIds \ {w} :
           OwedFor'[x] = OwedFor[x] /\ SetAside'[x] = SetAside[x] /\ Refunded'[x] = Refunded[x]
  BY <1>1, <1>5, OthersStay
<1>9. OnePayment(w)'
  <2>1. OnePayment(w) /\ CanPay(w)' = CanPay(w) /\ native' = native
    BY <1>1, <1>2, <1>3, <1>8
  <2>. QED  BY <2>1, <1>5 DEF OnePayment, transit
<1>10. OwedFor'[w] = OwedFor[w] /\ SetAside'[w] = SetAside[w] /\ Refunded'[w] = Refunded[w]
  BY <1>3, <1>5, <1>8 DEF OwedFor, SetAside, Refunded
<1>11. OwedFor[w] \in Int /\ SetAside[w] \in Int /\ Refunded[w] \in Int /\ controlled \in Int /\ supply \in Int
  BY <1>2, <1>3, SumsTyped DEF ReserveTypes
<1>12. Books'
  <2>1. /\ controlled' = controlled + SetAside[w] - SetAside'[w]
        /\ supply' = supply + Refunded'[w] - Refunded[w]
        /\ OwedFor'[w] - OwedFor[w] <= supply - supply'
    BY <1>1, <1>10, <1>11
  <2>. QED  BY <1>2, <1>3, <1>6, <1>8, <2>1, BooksMove
<1>. QED  BY <1>2, <1>6, <1>7, <1>8, <1>9, <1>12 DEF ReserveInv
\* A step of the ledger about one withdrawal, which nobody signs for.
LEMMA LedgerStep ==
  ASSUME ReserveAssumption, ReserveInv, ReserveTypes', NEW w \in WithdrawalIds,
         UNCHANGED <<committed, native, known>>,
         \A x \in WithdrawalIds \ {w} :
           /\ x \in DOMAIN claims' <=> x \in DOMAIN claims
           /\ x \in DOMAIN claims => claims'[x] = claims[x],
         OnePayment(w)',
         controlled' = controlled + SetAside[w] - SetAside'[w],
         supply' = supply + Refunded'[w] - Refunded[w],
         OwedFor'[w] - OwedFor[w] <= supply - supply'
  PROVE  ReserveInv'
<1>1. ReserveTypes /\ ChainKept /\ Books /\ \A x \in WithdrawalIds : OnePayment(x)
  BY DEF ReserveInv
<1>2. ChainKept'
  BY <1>1 DEF ChainKept
<1>3. /\ \A x \in WithdrawalIds \ {w} : OnePayment(x)' <=> OnePayment(x)
      /\ \A x \in WithdrawalIds \ {w} :
           OwedFor'[x] = OwedFor[x] /\ SetAside'[x] = SetAside[x] /\ Refunded'[x] = Refunded[x]
  BY OthersStay
<1>4. \A x \in WithdrawalIds : OnePayment(x)'
  BY <1>1, <1>3
<1>5. Books'
  BY <1>1, <1>3, BooksMove
<1>. QED  BY <1>2, <1>4, <1>5 DEF ReserveInv

\* Nothing can pay a claim nobody signed for, and it is not paid when it goes.
LEMMA RefundKeeps ==
  ASSUME ReserveAssumption, ReserveInv, NEW w \in DOMAIN claims, RefundBeforeSignature(w)
  PROVE  ReserveInv'
<1>1. /\ claims[w].status = "payable" /\ claims' = [x \in DOMAIN claims \ {w} |-> claims[x]]
      /\ supply' = supply + Payable /\ UNCHANGED <<controlled, committed, native, known>>
  BY DEF RefundBeforeSignature
<1>2. /\ ReserveTypes /\ w \in WithdrawalIds /\ Payable \in Nat
      /\ OnePayment(w)
  BY DEF ReserveInv, ReserveTypes, ReserveAssumption
<1>3. claims[w] = PayableClaim /\ CanPay(w) = {}
  BY <1>1, <1>2 DEF OnePayment
<1>4. /\ DOMAIN claims' = DOMAIN claims \ {w}
      /\ \A x \in DOMAIN claims' : claims'[x] = claims[x]
  BY <1>1
<1>5. ReserveTypes'
  BY <1>1, <1>2, <1>4 DEF ReserveTypes
<1>6. CanPay(w)' = {}
  BY <1>1, <1>3 DEF CanPay
<1>7. OnePayment(w)'
  BY <1>4, <1>6 DEF OnePayment
<1>8. OwedFor[w] = Payable /\ SetAside[w] = 0 /\ Refunded[w] = 0
  BY <1>2, <1>3 DEF OwedFor, SetAside, Refunded, LiveCost, PayableClaim
<1>9. OwedFor'[w] = 0 /\ SetAside'[w] = 0 /\ Refunded'[w] = Payable
  BY <1>2, <1>4, <1>6 DEF OwedFor, SetAside, Refunded, LiveCost
<1>10. controlled \in Int /\ supply \in Int
  BY <1>2 DEF ReserveTypes
<1>11. \A x \in WithdrawalIds \ {w} :
         /\ x \in DOMAIN claims' <=> x \in DOMAIN claims
         /\ x \in DOMAIN claims => claims'[x] = claims[x]
  BY <1>4
<1>12. /\ controlled' = controlled + SetAside[w] - SetAside'[w]
       /\ supply' = supply + Refunded'[w] - Refunded[w]
       /\ OwedFor'[w] - OwedFor[w] <= supply - supply'
  BY <1>1, <1>2, <1>8, <1>9, <1>10
<1>. QED  BY <1>1, <1>2, <1>5, <1>7, <1>11, <1>12, LedgerStep

\* What is known to be final paid the claim, and only that comes off the assets.
LEMMA ConfirmKeeps ==
  ASSUME ReserveAssumption, ReserveInv, NEW w \in DOMAIN claims, ConfirmWithdrawal(w)
  PROVE  ReserveInv'
<1>. DEFINE t == claims[w].txid
<1>1. /\ claims[w].status = "mined" /\ <<t, "final">> \in known
      /\ claims' = [x \in DOMAIN claims \ {w} |-> claims[x]]
      /\ controlled' = controlled + claims[w].change
      /\ UNCHANGED <<supply, committed, native, known>>
  BY DEF ConfirmWithdrawal
<1>2. /\ ReserveTypes /\ ChainKept /\ w \in WithdrawalIds /\ Payable \in Nat
      /\ OnePayment(w) /\ ClaimTyped(claims[w])
  BY DEF ReserveInv, ReserveTypes, ReserveAssumption
<1>3. /\ t \in Txids /\ native[t] # None /\ native[t].pays = w /\ CanPay(w) \subseteq {t}
      /\ claims[w].selectedInput = native[t].cost + claims[w].change
  BY <1>1, <1>2 DEF OnePayment
<1>4. native[t].place = "final"
  BY <1>1, <1>2, <1>3 DEF ChainKept
<1>5. CanPay(w) = {t}
  BY <1>3, <1>4 DEF CanPay
<1>. HIDE DEF t
<1>6. /\ DOMAIN claims' = DOMAIN claims \ {w}
      /\ \A x \in DOMAIN claims' : claims'[x] = claims[x]
  BY <1>1
<1>7. native[t].cost \in Nat /\ claims[w].change \in Nat /\ controlled \in Int /\ supply \in Int
  BY <1>2, <1>3 DEF ReserveTypes, ClaimTyped
<1>8. ReserveTypes'
  <2>1. controlled' \in Int
    BY <1>1, <1>7
  <2>. QED  BY <2>1, <1>1, <1>2, <1>6 DEF ReserveTypes
<1>9. CanPay(w)' = {t} /\ native'[t] = native[t]
  BY <1>1, <1>5 DEF CanPay
<1>10. OnePayment(w)'
  BY <1>3, <1>4, <1>6, <1>9 DEF OnePayment
<1>11. LiveCost(w) = native[t].cost
  BY <1>5, LiveCostOf
<1>12. LiveCost(w)' = native[t].cost
  BY <1>9 DEF LiveCost
<1>13. /\ OwedFor[w] = native[t].cost /\ SetAside[w] = native[t].cost + claims[w].change /\ Refunded[w] = 0
  BY <1>2, <1>3, <1>5, <1>7, <1>11 DEF OwedFor, SetAside, Refunded
<1>14. OwedFor'[w] = native[t].cost /\ SetAside'[w] = native[t].cost /\ Refunded'[w] = 0
  <2>1. w \in WithdrawalIds /\ w \notin DOMAIN claims' /\ CanPay(w)' # {} /\ native[t].cost \in Nat
    BY <1>2, <1>6, <1>7, <1>9
  <2>2. OwedFor'[w] = LiveCost(w)' + 0
    BY <2>1 DEF OwedFor
  <2>3. SetAside'[w] = LiveCost(w)' /\ Refunded'[w] = 0
    BY <2>1 DEF SetAside, Refunded
  <2>. QED  BY <1>12, <2>1, <2>2, <2>3
<1>15. \A x \in WithdrawalIds \ {w} :
         /\ x \in DOMAIN claims' <=> x \in DOMAIN claims
         /\ x \in DOMAIN claims => claims'[x] = claims[x]
  BY <1>6
<1>16. /\ controlled' = controlled + SetAside[w] - SetAside'[w]
       /\ supply' = supply + Refunded'[w] - Refunded[w]
       /\ OwedFor'[w] - OwedFor[w] <= supply - supply'
  BY <1>1, <1>7, <1>13, <1>14
<1>. QED  BY <1>1, <1>2, <1>8, <1>10, <1>15, <1>16, LedgerStep

\* The transaction that is known to be dead was the only one that could pay.
LEMMA RestorationKeeps ==
  ASSUME ReserveAssumption, ReserveInv, NEW w \in DOMAIN claims, NEW t \in Txids, ApplyRestoration(w, t)
  PROVE  ReserveInv'
<1>1. /\ claims[w].status = "unresolved" /\ claims[w].txid = t /\ <<t, "dead">> \in known
      /\ claims' = [claims EXCEPT ![w] = PayableClaim]
      /\ controlled' = controlled + claims[w].selectedInput
      /\ UNCHANGED <<supply, committed, native, known>>
  BY DEF ApplyRestoration, Matches
<1>2. /\ ReserveTypes /\ ChainKept /\ w \in WithdrawalIds /\ Payable \in Nat
      /\ OnePayment(w) /\ ClaimTyped(claims[w])
  BY DEF ReserveInv, ReserveTypes, ReserveAssumption
<1>3. CanPay(w) \subseteq {t}
  BY <1>1, <1>2 DEF OnePayment
<1>4. native[t].place = "dead"
  BY <1>1, <1>2 DEF ChainKept
<1>5. CanPay(w) = {}
  BY <1>3, <1>4 DEF CanPay
<1>6. /\ DOMAIN claims' = DOMAIN claims /\ claims'[w] = PayableClaim
      /\ \A x \in DOMAIN claims' \ {w} : claims'[x] = claims[x]
  BY <1>1, <1>2 DEF ReserveTypes
<1>7. claims[w].selectedInput \in Nat /\ controlled \in Int /\ supply \in Int
  BY <1>2 DEF ReserveTypes, ClaimTyped
<1>8. ReserveTypes'
  <2>1. controlled' \in Int
    BY <1>1, <1>7
  <2>2. ClaimTyped(PayableClaim)
    BY DEF ClaimTyped, PayableClaim
  <2>3. \A x \in DOMAIN claims' : ClaimTyped(claims'[x])
    BY <1>2, <1>6, <2>2 DEF ReserveTypes
  <2>4. claims' = [x \in DOMAIN claims' |-> claims'[x]]
    BY <1>1, <1>6
  <2>. QED  BY <2>1, <2>3, <2>4, <1>1, <1>2, <1>6 DEF ReserveTypes
<1>9. CanPay(w)' = {}
  BY <1>1, <1>5 DEF CanPay
<1>10. OnePayment(w)'
  BY <1>6, <1>9 DEF OnePayment, PayableClaim
<1>11. OwedFor[w] = Payable /\ SetAside[w] = claims[w].selectedInput /\ Refunded[w] = 0
  BY <1>2, <1>5 DEF OwedFor, SetAside, Refunded, LiveCost
<1>12. OwedFor'[w] = Payable /\ SetAside'[w] = 0 /\ Refunded'[w] = 0
  BY <1>2, <1>6, <1>9 DEF OwedFor, SetAside, Refunded, LiveCost, PayableClaim
<1>13. \A x \in WithdrawalIds \ {w} :
         /\ x \in DOMAIN claims' <=> x \in DOMAIN claims
         /\ x \in DOMAIN claims => claims'[x] = claims[x]
  BY <1>6
<1>14. /\ controlled' = controlled + SetAside[w] - SetAside'[w]
       /\ supply' = supply + Refunded'[w] - Refunded[w]
       /\ OwedFor'[w] - OwedFor[w] <= supply - supply'
  BY <1>1, <1>2, <1>7, <1>11, <1>12
<1>. QED  BY <1>1, <1>2, <1>8, <1>10, <1>13, <1>14, LedgerStep
\* A covered ledger covers what is owed at worst: what a claim has set aside and
\* what it has not in transit are never less than that.
LEMMA CoveredSuffices ==
  ASSUME ReserveAssumption, supply \in Int, NEW book, NEW assets, NEW owed, NEW aside,
         DOMAIN book \subseteq WithdrawalIds,
         \A w \in WithdrawalIds : owed[w] \in Int /\ aside[w] \in Int,
         \A w \in DOMAIN book :
           book[w].inTransit \in Int /\ owed[w] <= aside[w] + Payable - book[w].inTransit,
         \A w \in WithdrawalIds \ DOMAIN book : owed[w] <= aside[w],
         assets = StartingAssets - SumOver(aside, WithdrawalIds),
         Covered(book, assets)
  PROVE  StartingAssets - SumOver(owed, WithdrawalIds) >= supply + OtherRequirements
<1>. DEFINE transits == [w \in DOMAIN book |-> book[w].inTransit]
            left == [w \in DOMAIN book |-> Payable - book[w].inTransit]
            whole == [w \in DOMAIN book |-> Payable]
            gap == [w \in WithdrawalIds |-> IF w \in DOMAIN book THEN Payable - book[w].inTransit ELSE 0]
            most == [w \in WithdrawalIds |-> aside[w] + gap[w]]
<1>1. /\ IsFiniteSet(WithdrawalIds) /\ IsFiniteSet(DOMAIN book) /\ Payable \in Int
      /\ StartingAssets \in Int /\ OtherRequirements \in Int
  <2>1. IsFiniteSet(WithdrawalIds)
    BY DEF ReserveAssumption
  <2>2. IsFiniteSet(DOMAIN book)
    BY <2>1, FS_Subset
  <2>. QED  BY <2>1, <2>2 DEF ReserveAssumption
<1>2. /\ \A w \in DOMAIN book : transits[w] \in Int /\ left[w] \in Int /\ whole[w] \in Int
      /\ \A w \in DOMAIN book : whole[w] = transits[w] + left[w]
  BY <1>1
<1>3. \A w \in WithdrawalIds : gap[w] \in Int /\ most[w] \in Int
  BY <1>1
<1>4. \A w \in WithdrawalIds : owed[w] <= most[w]
  BY <1>1
<1>5. /\ \A w \in DOMAIN book : gap[w] = left[w]
      /\ \A w \in WithdrawalIds \ DOMAIN book : gap[w] = 0
  OBVIOUS
<1>6. \A w \in WithdrawalIds : most[w] = aside[w] + gap[w]
  OBVIOUS
<1>7. \A w \in DOMAIN book : whole[w] = Payable
  OBVIOUS
<1>8. /\ assets + SumOver(transits, DOMAIN book)
           >= supply + Payable * Cardinality(DOMAIN book) + OtherRequirements
  BY DEF Covered
<1>. HIDE DEF transits, left, whole, gap, most
<1>9. SumOver(whole, DOMAIN book) = SumOver(transits, DOMAIN book) + SumOver(left, DOMAIN book)
  BY <1>1, <1>2, SumPlus
<1>10. SumOver(whole, DOMAIN book) = Payable * Cardinality(DOMAIN book)
  BY <1>1, <1>7, SumConstant
<1>11. SumOver(left, DOMAIN book) = SumOver(gap, WithdrawalIds)
  BY <1>1, <1>2, <1>5, SumWithin
<1>12. SumOver(most, WithdrawalIds) = SumOver(aside, WithdrawalIds) + SumOver(gap, WithdrawalIds)
  BY <1>1, <1>3, <1>6, SumPlus
<1>13. SumOver(owed, WithdrawalIds) <= SumOver(most, WithdrawalIds)
  BY <1>1, <1>3, <1>4, SumMonotone
<1>14. /\ SumOver(owed, WithdrawalIds) \in Int /\ SumOver(aside, WithdrawalIds) \in Int
       /\ SumOver(most, WithdrawalIds) \in Int /\ SumOver(gap, WithdrawalIds) \in Int
  BY <1>1, <1>3, SumType
<1>15. /\ SumOver(transits, DOMAIN book) \in Int /\ SumOver(left, DOMAIN book) \in Int
       /\ SumOver(whole, DOMAIN book) \in Int
  BY <1>1, <1>2, SumType
<1>. QED  BY <1>1, <1>8, <1>9, <1>10, <1>11, <1>12, <1>13, <1>14, <1>15

\* Only the transaction a claim names still moves; when it dies, the claim is
\* owed again, and that is never more than what the transaction cost.
LEMMA NativeKeeps ==
  ASSUME ReserveAssumption, ReserveInv, NEW t \in Txids, NativeStep(t)
  PROVE  ReserveInv'
<1>1. PICK reached \in NativeMoves[native[t].place] :
        /\ native' = [native EXCEPT ![t].place = reached]
        /\ known' = known \cup {<<t, reached>>}
  BY DEF NativeStep
<1>2. native[t] # None /\ UNCHANGED <<claims, controlled, supply, committed>>
  BY DEF NativeStep
<1>3. /\ ReserveTypes /\ ChainKept /\ Books /\ Payable \in Nat
      /\ \A x \in WithdrawalIds : OnePayment(x)
  BY DEF ReserveInv, ReserveAssumption
<1>0. native[t] \in [pays : WithdrawalIds, cost : Nat, place : Places]
  BY <1>2, <1>3 DEF ReserveTypes
<1>w. PICK w \in WithdrawalIds : w = native[t].pays
  BY <1>0
<1>c. PICK cost \in Nat : cost = native[t].cost
  BY <1>0
<1>4. /\ native[t] \in [pays : WithdrawalIds, cost : Nat, place : Places]
      /\ w \in WithdrawalIds /\ cost \in Nat /\ native[t].place \in Places
  BY <1>0
<1>5. native[t].place \in {"pending", "mined"} /\ reached \in Places /\ reached # native[t].place
  BY <1>1, <1>4 DEF Places, NativeMoves
<1>6. native'[t] = [pays |-> w, cost |-> cost, place |-> reached]
  <2>1. PICK n : n = native[t]
    OBVIOUS
  <2>2. n \in [pays : WithdrawalIds, cost : Nat, place : Places]
    BY <1>4, <2>1
  <2>3. [n EXCEPT !.place = reached] = [pays |-> n.pays, cost |-> n.cost, place |-> reached]
    BY <2>2
  <2>4. native'[t] = [n EXCEPT !.place = reached]
    BY <1>1, <1>3, <2>1 DEF ReserveTypes
  <2>. QED  BY <2>1, <2>3, <2>4, <1>w, <1>c
<1>7. \A u \in Txids \ {t} : native'[u] = native[u]
  BY <1>1, <1>3 DEF ReserveTypes
<1>8. native'[t] # None /\ native'[t].pays = w /\ native'[t].cost = cost /\ native'[t].place = reached
  <2>1. native'[t] \in [pays : WithdrawalIds, cost : Nat, place : {"pending", "mined", "dead", "final"}]
    BY <1>4, <1>5, <1>6 DEF Places
  <2>2. native'[t] # None
    BY <2>1 DEF ReserveAssumption
  <2>. QED  BY <1>6, <2>2
<1>9. ReserveTypes'
  <2>1. native' \in [Txids -> [pays : WithdrawalIds, cost : Nat, place : Places] \cup {None}]
    <3>1. native'[t] \in [pays : WithdrawalIds, cost : Nat, place : Places]
      BY <1>4, <1>5, <1>6
    <3>2. native' = [u \in Txids |-> native'[u]]
      BY <1>1, <1>3 DEF ReserveTypes
    <3>3. \A u \in Txids : native'[u] \in [pays : WithdrawalIds, cost : Nat, place : Places] \cup {None}
      BY <1>3, <1>7, <3>1 DEF ReserveTypes
    <3>. QED  BY <3>2, <3>3
  <2>. QED  BY <1>2, <1>3, <2>1 DEF ReserveTypes
<1>10. ChainKept'
  <2>1. \A u \in Txids : native'[u] # None => u \in committed'
    BY <1>2, <1>3, <1>7 DEF ChainKept
  <2>2. ASSUME NEW u \in Txids, NEW p \in {"dead", "final"}, <<u, p>> \in known'
        PROVE  native'[u] # None /\ native'[u].place = p
    <3>1. CASE <<u, p>> \in known
      <4>1. native[u] # None /\ native[u].place = p
        BY <1>3, <3>1 DEF ChainKept
      <4>2. u # t
        BY <1>5, <4>1
      <4>. QED  BY <1>7, <4>1, <4>2
    <3>2. CASE <<u, p>> \notin known
      BY <1>1, <1>8, <2>2, <3>2
    <3>. QED  BY <3>1, <3>2
  <2>. QED  BY <2>1, <2>2 DEF ChainKept
<1>11. ASSUME NEW x \in WithdrawalIds \ {w}
       PROVE  CanPay(x)' = CanPay(x) /\ t \notin CanPay(x)
  <2>1. t \notin CanPay(x) /\ t \notin CanPay(x)'
    BY <1>8, <1>w DEF CanPay
  <2>2. \A u \in Txids \ {t} : u \in CanPay(x)' <=> u \in CanPay(x)
    BY <1>7 DEF CanPay
  <2>3. CanPay(x) \subseteq Txids /\ CanPay(x)' \subseteq Txids
    BY DEF CanPay
  <2>4. \A u : u \in CanPay(x)' <=> u \in CanPay(x)
    BY <2>1, <2>2, <2>3
  <2>. HIDE DEF CanPay
  <2>. QED  BY <2>1, <2>4
<1>12. ASSUME NEW x \in WithdrawalIds \ {w} PROVE OnePayment(x)' /\ LiveCost(x)' = LiveCost(x)
  <2>1. OnePayment(x) /\ CanPay(x)' = CanPay(x) /\ claims' = claims
    BY <1>2, <1>3, <1>11
  <2>2. \A u \in Txids : native[u] # None /\ native[u].pays = x => native'[u] = native[u]
    BY <1>7, <1>w
  <2>3. OnePayment(x)'
    <3>1. CASE x \in DOMAIN claims
      BY <2>1, <2>2, <3>1 DEF OnePayment
    <3>2. CASE x \notin DOMAIN claims
      <4>1. \A u \in Txids : CanPay(x) = {u} => native'[u] = native[u]
        BY <1>7, <1>11
      <4>. QED  BY <2>1, <3>2, <4>1 DEF OnePayment
    <3>. QED  BY <3>1, <3>2
  <2>5. LiveCost(x)' = LiveCost(x)
    <3>1. CASE CanPay(x) = {}
      BY <2>1, <3>1 DEF LiveCost
    <3>2. CASE CanPay(x) # {}
      <4>1. PICK u : u = (CHOOSE v \in CanPay(x) : TRUE)
        OBVIOUS
      <4>2. u \in CanPay(x)
        BY <3>2, <4>1
      <4>3. u \in Txids \ {t}
        BY <1>11, <4>2 DEF CanPay
      <4>4. u = (CHOOSE v \in CanPay(x)' : TRUE)
        BY <2>1, <4>1
      <4>5. LiveCost(x) = native[u].cost
        BY <3>2, <4>1 DEF LiveCost
      <4>6. LiveCost(x)' = native'[u].cost
        BY <2>1, <3>2, <4>4 DEF LiveCost
      <4>. QED  BY <1>7, <4>3, <4>5, <4>6
    <3>. QED  BY <3>1, <3>2
  <2>. QED  BY <2>3, <2>5
<1>13. t \in CanPay(w)
  BY <1>2, <1>5, <1>w DEF CanPay
<1>14. /\ w \in DOMAIN claims /\ claims[w].status # "payable" /\ claims[w].txid = t /\ CanPay(w) = {t}
       /\ cost >= Payable /\ claims[w].selectedInput = cost + claims[w].change
       /\ claims[w].inTransit = IF claims[w].status = "unresolved" THEN 0 ELSE Payable
  <2>1. OnePayment(w)
    BY <1>3, <1>4
  <2>2. w \in DOMAIN claims
    BY <1>5, <1>13, <2>1 DEF OnePayment
  <2>3. claims[w].status # "payable"
    BY <1>13, <2>1, <2>2 DEF OnePayment
  <2>. QED  BY <1>13, <1>c, <2>1, <2>2, <2>3 DEF OnePayment
<1>15. CanPay(w)' = IF reached = "dead" THEN {} ELSE {t}
  <2>1. \A u \in Txids \ {t} : u \notin CanPay(w)'
    <3>1. \A u \in Txids \ {t} : u \notin CanPay(w)
      BY <1>14
    <3>. QED  BY <1>7, <3>1 DEF CanPay
  <2>2. t \in CanPay(w)' <=> reached # "dead"
    BY <1>8 DEF CanPay
  <2>3. CanPay(w)' \subseteq Txids
    BY DEF CanPay
  <2>. QED  BY <2>1, <2>2, <2>3
<1>16. OnePayment(w)'
  <2>1. CanPay(w)' \subseteq {t}
    BY <1>15
  <2>2. claims' = claims
    BY <1>2
  <2>. QED  BY <1>8, <1>14, <2>1, <2>2 DEF OnePayment
<1>17. /\ \A x \in WithdrawalIds \ {w} :
            OwedFor'[x] = OwedFor[x] /\ SetAside'[x] = SetAside[x] /\ Refunded'[x] = Refunded[x]
  BY <1>2, <1>11, <1>12 DEF OwedFor, SetAside, Refunded
<1>18. OwedFor[w] = cost /\ Refunded[w] = 0 /\ SetAside[w] = claims[w].selectedInput
  <2>1. LiveCost(w) = cost
    BY <1>14, <1>c, LiveCostOf
  <2>2. OwedFor[w] = cost
    <3>1. OwedFor[w] = LiveCost(w) + (IF w \in DOMAIN claims /\ CanPay(w) = {} THEN Payable ELSE 0)
      BY <1>4 DEF OwedFor
    <3>2. CanPay(w) # {} /\ cost \in Nat
      BY <1>14
    <3>. QED  BY <2>1, <3>1, <3>2
  <2>. QED  BY <1>4, <1>14, <2>2 DEF SetAside, Refunded
<1>19. OwedFor'[w] <= cost /\ Refunded'[w] = 0 /\ SetAside'[w] = claims[w].selectedInput
  <2>1. Refunded'[w] = 0 /\ SetAside'[w] = claims[w].selectedInput
    BY <1>2, <1>4, <1>14 DEF SetAside, Refunded
  <2>2. CASE reached = "dead"
    <3>1. CanPay(w)' = {} /\ LiveCost(w)' = 0
      BY <1>15, <2>2 DEF LiveCost
    <3>2. OwedFor'[w] = Payable
      BY <1>2, <1>3, <1>4, <1>14, <3>1 DEF OwedFor
    <3>. QED  BY <1>3, <1>4, <1>14, <2>1, <3>2
  <2>3. CASE reached # "dead"
    <3>1. CanPay(w)' = {t}
      BY <1>15, <2>3
    <3>2. LiveCost(w)' = cost
      BY <1>8, <3>1 DEF LiveCost
    <3>3. OwedFor'[w] = cost
      BY <1>4, <3>1, <3>2 DEF OwedFor
    <3>. QED  BY <1>4, <2>1, <3>3
  <2>. QED  BY <2>2, <2>3
<1>20. /\ controlled' = controlled + SetAside[w] - SetAside'[w]
       /\ supply' = supply + Refunded'[w] - Refunded[w]
       /\ OwedFor'[w] - OwedFor[w] <= supply - supply'
  <2>1. /\ controlled \in Int /\ supply \in Int /\ claims[w].selectedInput \in Nat
        /\ OwedFor'[w] \in Int
    <3>1. controlled \in Int /\ supply \in Int /\ claims[w].selectedInput \in Nat
      BY <1>3, <1>14 DEF ReserveTypes, ClaimTyped
    <3>2. OwedFor'[w] \in {cost, Payable}
      <4>1. CASE reached = "dead"
        BY <1>2, <1>3, <1>4, <1>14, <1>15, <4>1 DEF OwedFor, LiveCost
      <4>2. CASE reached # "dead"
        <5>1. CanPay(w)' = {t}
          BY <1>15, <4>2
        <5>2. LiveCost(w)' = cost
          BY <1>8, <5>1 DEF LiveCost
        <5>. QED  BY <1>4, <5>1, <5>2 DEF OwedFor
      <4>. QED  BY <4>1, <4>2
    <3>. QED  BY <1>3, <1>4, <3>1, <3>2
  <2>. QED  BY <1>2, <1>4, <1>18, <1>19, <2>1
<1>21. Books'
  BY <1>3, <1>4, <1>9, <1>17, <1>20, BooksMove
<1>22. \A x \in WithdrawalIds : OnePayment(x)'
  BY <1>12, <1>16
<1>. QED  BY <1>9, <1>10, <1>21, <1>22 DEF ReserveInv
\* The coverage asked of a signature covers what is owed once it is out.
LEMMA SignKeeps ==
  ASSUME ReserveAssumption, ReserveInv, NEW w \in DOMAIN claims, NEW t \in Txids, SignWithdrawal(w, t)
  PROVE  ReserveInv'
<1>1. /\ ~IncidentHalt /\ t \notin committed /\ claims[w].status = "payable"
      /\ committed' = committed \cup {t} /\ UNCHANGED <<supply, known>>
  BY DEF SignWithdrawal
<1>2. PICK change \in Changes, fee \in NetworkFees, principal \in {Payable, Payable + 1} :
        LET signed == [status |-> "signed", txid |-> t, selectedInput |-> Payable + change + fee,
                       inTransit |-> principal, change |-> change, fee |-> fee]
            book == [claims EXCEPT ![w] = signed]
            assets == controlled - signed.selectedInput
        IN  /\ WellFormed(signed)
            /\ Covered(book, assets)
            /\ claims' = book /\ controlled' = assets
            /\ native' = [native EXCEPT ![t] = [pays |-> w, cost |-> Payable + fee, place |-> "pending"]]
  BY DEF SignWithdrawal
<1>3. PICK signed :
        signed = [status |-> "signed", txid |-> t, selectedInput |-> Payable + change + fee,
                  inTransit |-> principal, change |-> change, fee |-> fee]
  OBVIOUS
<1>4. /\ WellFormed(signed) /\ Covered(claims', controlled')
      /\ claims' = [claims EXCEPT ![w] = signed]
      /\ controlled' = controlled - (Payable + change + fee)
      /\ native' = [native EXCEPT ![t] = [pays |-> w, cost |-> Payable + fee, place |-> "pending"]]
  BY <1>2, <1>3
<1>5. /\ ReserveTypes /\ ChainKept /\ Books /\ w \in WithdrawalIds
      /\ \A x \in WithdrawalIds : OnePayment(x)
      /\ Payable \in Nat /\ change \in Nat /\ fee \in Nat /\ Payable + fee \in Nat
      /\ controlled \in Int /\ supply \in Int /\ StartingAssets \in Int
  BY DEF ReserveInv, ReserveTypes, ReserveAssumption
<1>6. principal = Payable
  BY <1>3, <1>4 DEF WellFormed
<1>7. /\ claims[w] = PayableClaim /\ CanPay(w) = {} /\ native[t] = None
  <2>1. OnePayment(w)
    BY <1>5
  <2>2. native[t] = None
    BY <1>1, <1>5 DEF ChainKept
  <2>. QED  BY <1>1, <2>1, <2>2 DEF OnePayment
<1>8. /\ DOMAIN claims' = DOMAIN claims /\ claims'[w] = signed
      /\ \A x \in DOMAIN claims' \ {w} : claims'[x] = claims[x]
      /\ claims' = [x \in DOMAIN claims' |-> claims'[x]]
  BY <1>4, <1>5 DEF ReserveTypes
<1>9. /\ native' = [u \in Txids |-> native'[u]]
      /\ native'[t] = [pays |-> w, cost |-> Payable + fee, place |-> "pending"]
      /\ \A u \in Txids \ {t} : native'[u] = native[u]
  BY <1>4, <1>5 DEF ReserveTypes
<1>10. native'[t] \in [pays : WithdrawalIds, cost : Nat, place : Places]
  BY <1>5, <1>9 DEF Places
<1>11. /\ native'[t] # None /\ native'[t].pays = w /\ native'[t].cost = Payable + fee
       /\ native'[t].place = "pending"
  <2>1. native'[t] # None
    BY <1>10 DEF ReserveAssumption, Places
  <2>. QED  BY <1>9, <2>1
<1>12. ReserveTypes'
  <2>1. native' \in [Txids -> [pays : WithdrawalIds, cost : Nat, place : Places] \cup {None}]
    <3>1. \A u \in Txids : native'[u] \in [pays : WithdrawalIds, cost : Nat, place : Places] \cup {None}
      BY <1>5, <1>9, <1>10 DEF ReserveTypes
    <3>. QED  BY <1>9, <3>1
  <2>2. ClaimTyped(signed)
    BY <1>3, <1>5, <1>6 DEF ClaimTyped
  <2>3. \A x \in DOMAIN claims' : ClaimTyped(claims'[x])
    BY <1>5, <1>8, <2>2 DEF ReserveTypes
  <2>4. controlled' \in Int /\ supply' \in Int
    BY <1>1, <1>4, <1>5
  <2>. QED  BY <1>5, <1>8, <2>1, <2>3, <2>4 DEF ReserveTypes
<1>13. ChainKept'
  <2>1. \A u \in Txids : native'[u] # None => u \in committed'
    BY <1>1, <1>5, <1>9 DEF ChainKept
  <2>2. ASSUME NEW u \in Txids, NEW p \in {"dead", "final"}, <<u, p>> \in known'
        PROVE  native'[u] # None /\ native'[u].place = p
    <3>1. native[u] # None /\ native[u].place = p
      BY <1>1, <1>5, <2>2 DEF ChainKept
    <3>. QED  BY <1>7, <1>9, <3>1
  <2>. QED  BY <2>1, <2>2 DEF ChainKept
<1>14. ASSUME NEW x \in WithdrawalIds \ {w}
       PROVE  CanPay(x)' = CanPay(x) /\ t \notin CanPay(x)
  <2>1. t \notin CanPay(x) /\ t \notin CanPay(x)'
    BY <1>7, <1>11 DEF CanPay
  <2>2. \A u \in Txids \ {t} : u \in CanPay(x)' <=> u \in CanPay(x)
    BY <1>9 DEF CanPay
  <2>3. CanPay(x) \subseteq Txids /\ CanPay(x)' \subseteq Txids
    BY DEF CanPay
  <2>. QED  BY <2>1, <2>2, <2>3
<1>15. ASSUME NEW x \in WithdrawalIds \ {w} PROVE OnePayment(x)' /\ LiveCost(x)' = LiveCost(x)
  <2>1. OnePayment(x) /\ CanPay(x)' = CanPay(x)
    BY <1>5, <1>14
  <2>2. \A u \in Txids : native[u] # None => native'[u] = native[u]
    BY <1>7, <1>9
  <2>3. OnePayment(x)'
    <3>1. CASE x \in DOMAIN claims
      <4>1. x \in DOMAIN claims' /\ claims'[x] = claims[x]
        BY <1>8, <3>1
      <4>. QED  BY <2>1, <2>2, <3>1, <4>1 DEF OnePayment
    <3>2. CASE x \notin DOMAIN claims
      <4>1. \A u \in Txids : CanPay(x) = {u} => native'[u] = native[u]
        BY <1>9, <1>14
      <4>. QED  BY <1>8, <2>1, <3>2, <4>1 DEF OnePayment
    <3>. QED  BY <3>1, <3>2
  <2>5. LiveCost(x)' = LiveCost(x)
    <3>1. CASE CanPay(x) = {}
      BY <2>1, <3>1 DEF LiveCost
    <3>2. CASE CanPay(x) # {}
      <4>1. PICK u : u = (CHOOSE v \in CanPay(x) : TRUE)
        OBVIOUS
      <4>2. u \in CanPay(x)
        BY <3>2, <4>1
      <4>3. u \in Txids \ {t}
        BY <1>14, <4>2 DEF CanPay
      <4>4. u = (CHOOSE v \in CanPay(x)' : TRUE)
        BY <2>1, <4>1
      <4>5. LiveCost(x) = native[u].cost
        BY <3>2, <4>1 DEF LiveCost
      <4>6. LiveCost(x)' = native'[u].cost
        BY <2>1, <3>2, <4>4 DEF LiveCost
      <4>. QED  BY <1>9, <4>3, <4>5, <4>6
    <3>. QED  BY <3>1, <3>2
  <2>. QED  BY <2>3, <2>5
<1>16. CanPay(w)' = {t}
  <2>1. \A u \in Txids \ {t} : u \notin CanPay(w)'
    BY <1>7, <1>9 DEF CanPay
  <2>2. t \in CanPay(w)'
    BY <1>11 DEF CanPay
  <2>3. CanPay(w)' \subseteq Txids
    BY DEF CanPay
  <2>. QED  BY <2>1, <2>2, <2>3
<1>17. /\ claims'[w].status = "signed" /\ claims'[w].txid = t /\ claims'[w].inTransit = Payable
       /\ claims'[w].selectedInput = (Payable + fee) + change /\ claims'[w].change = change
       /\ w \in DOMAIN claims'
  BY <1>3, <1>5, <1>6, <1>8
<1>18. OnePayment(w)'
  BY <1>5, <1>11, <1>16, <1>17 DEF OnePayment
<1>19. \A x \in WithdrawalIds : OnePayment(x)'
  BY <1>15, <1>18
<1>20. Books'
  <2>1. \A x \in WithdrawalIds : OwedFor[x] \in Int /\ SetAside[x] \in Int /\ Refunded[x] \in Int
    BY <1>5, SumsTyped
  <2>2. \A x \in WithdrawalIds \ {w} :
          OwedFor'[x] = OwedFor[x] /\ SetAside'[x] = SetAside[x] /\ Refunded'[x] = Refunded[x]
    BY <1>8, <1>14, <1>15 DEF OwedFor, SetAside, Refunded
  <2>3. /\ OwedFor'[w] = Payable + fee /\ SetAside'[w] = (Payable + fee) + change /\ Refunded'[w] = 0
    <3>1. LiveCost(w)' = Payable + fee
      BY <1>11, <1>16 DEF LiveCost
    <3>2. OwedFor'[w] = Payable + fee
      BY <1>5, <1>16, <3>1 DEF OwedFor
    <3>. QED  BY <1>5, <1>17, <3>2 DEF SetAside, Refunded
  <2>4. SetAside[w] = 0 /\ Refunded[w] = 0
    BY <1>5, <1>7 DEF SetAside, Refunded, PayableClaim
  <2>5. \A x \in WithdrawalIds : OwedFor'[x] \in Int /\ SetAside'[x] \in Int /\ Refunded'[x] \in Int
    BY <1>5, <2>1, <2>2, <2>3
  <2>6. IsFiniteSet(WithdrawalIds)
    BY DEF ReserveAssumption
  <2>7. SumOver(SetAside', WithdrawalIds) = SumOver(SetAside, WithdrawalIds) + SetAside'[w] - SetAside[w]
    BY <1>5, <2>1, <2>2, <2>5, <2>6, SumChange
  <2>8. SumOver(Refunded', WithdrawalIds) = SumOver(Refunded, WithdrawalIds)
    <3>1. \A x \in WithdrawalIds : Refunded[x] \in Int /\ Refunded'[x] = Refunded[x]
      BY <2>1, <2>2, <2>3, <2>4
    <3>. QED  BY <2>6, <3>1, SumEqual
  <2>9. SumOver(SetAside, WithdrawalIds) \in Int
    BY <2>1, <2>6, SumType
  <2>10. controlled' = StartingAssets - SumOver(SetAside', WithdrawalIds)
    BY <1>4, <1>5, <2>3, <2>4, <2>7, <2>9 DEF Books
  <2>11. \A x \in DOMAIN claims' :
           claims'[x].inTransit \in Int /\ OwedFor'[x] <= SetAside'[x] + Payable - claims'[x].inTransit
    <3>1. ASSUME NEW x \in DOMAIN claims', claims'[x].status = "payable"
          PROVE  claims'[x].inTransit \in Int /\ OwedFor'[x] <= SetAside'[x] + Payable - claims'[x].inTransit
      <4>1. x \in WithdrawalIds /\ claims'[x] = PayableClaim /\ CanPay(x)' = {}
        BY <1>12, <1>19, <3>1 DEF ReserveTypes, OnePayment
      <4>2. OwedFor'[x] = Payable
        BY <1>5, <3>1, <4>1 DEF OwedFor, LiveCost
      <4>3. SetAside'[x] = 0 /\ claims'[x].inTransit = 0
        BY <3>1, <4>1 DEF SetAside, PayableClaim
      <4>. QED  BY <1>5, <4>2, <4>3
    <3>2. ASSUME NEW x \in DOMAIN claims', claims'[x].status # "payable"
          PROVE  claims'[x].inTransit \in Int /\ OwedFor'[x] <= SetAside'[x] + Payable - claims'[x].inTransit
      <4>1. x \in WithdrawalIds /\ OnePayment(x)' /\ ClaimTyped(claims'[x])
        BY <1>12, <1>19, <3>2 DEF ReserveTypes
      <4>2. claims'[x].status # "unresolved"
        BY <1>1, <1>8, <1>17 DEF IncidentHalt
      <4>3. PICK u \in Txids : /\ u = claims'[x].txid /\ native'[u] # None /\ CanPay(x)' \subseteq {u}
                               /\ native'[u].cost >= Payable
                               /\ claims'[x].selectedInput = native'[u].cost + claims'[x].change
                               /\ claims'[x].inTransit = Payable
        BY <3>2, <4>1, <4>2 DEF OnePayment
      <4>4. native'[u].cost \in Nat /\ claims'[x].change \in Nat
        BY <1>12, <4>1, <4>3 DEF ReserveTypes, ClaimTyped
      <4>5. SetAside'[x] = claims'[x].selectedInput
        BY <3>2, <4>1 DEF SetAside
      <4>6. OwedFor'[x] <= native'[u].cost
        <5>1. CASE CanPay(x)' = {}
          <6>1. OwedFor'[x] = Payable
            BY <1>5, <3>2, <4>1, <5>1 DEF OwedFor, LiveCost
          <6>. QED  BY <1>5, <4>3, <4>4, <6>1
        <5>2. CASE CanPay(x)' = {u}
          <6>1. LiveCost(x)' = native'[u].cost
            BY <5>2 DEF LiveCost
          <6>2. OwedFor'[x] = native'[u].cost
            BY <4>1, <4>4, <5>2, <6>1 DEF OwedFor
          <6>. QED  BY <4>4, <6>2
        <5>. QED  BY <4>3, <5>1, <5>2
      <4>7. OwedFor'[x] \in Int
        BY <2>5, <4>1
      <4>. QED  BY <1>5, <4>3, <4>4, <4>5, <4>6, <4>7
    <3>. QED  BY <3>1, <3>2
  <2>12. \A x \in WithdrawalIds \ DOMAIN claims' : OwedFor'[x] <= SetAside'[x]
    <3>1. ASSUME NEW x \in WithdrawalIds \ DOMAIN claims' PROVE OwedFor'[x] <= SetAside'[x]
      <4>1. OwedFor'[x] = LiveCost(x)' + 0 /\ SetAside'[x] = LiveCost(x)'
        BY <3>1 DEF OwedFor, SetAside
      <4>2. SetAside'[x] \in Int
        BY <2>5
      <4>. QED  BY <4>1, <4>2
    <3>. QED  BY <3>1
  <2>13. StartingAssets - SumOver(OwedFor', WithdrawalIds) >= supply + OtherRequirements
    <3>1. PICK book, assets, owed, aside :
            book = claims' /\ assets = controlled' /\ owed = OwedFor' /\ aside = SetAside'
      OBVIOUS
    <3>2. DOMAIN book \subseteq WithdrawalIds
      BY <1>12, <3>1 DEF ReserveTypes
    <3>3. \A x \in WithdrawalIds : owed[x] \in Int /\ aside[x] \in Int
      BY <2>5, <3>1
    <3>4. \A x \in DOMAIN book :
            book[x].inTransit \in Int /\ owed[x] <= aside[x] + Payable - book[x].inTransit
      BY <2>11, <3>1
    <3>5. \A x \in WithdrawalIds \ DOMAIN book : owed[x] <= aside[x]
      BY <2>12, <3>1
    <3>6. assets = StartingAssets - SumOver(aside, WithdrawalIds)
      BY <2>10, <3>1
    <3>7. Covered(book, assets)
      BY <1>4, <3>1
    <3>8. supply \in Int
      BY <1>5
    <3>9. StartingAssets - SumOver(owed, WithdrawalIds) >= supply + OtherRequirements
      BY <3>2, <3>3, <3>4, <3>5, <3>6, <3>7, <3>8, CoveredSuffices
    <3>. QED  BY <3>1, <3>9
  <2>. QED  BY <1>1, <1>5, <2>8, <2>10, <2>13 DEF Books
<1>. QED  BY <1>12, <1>13, <1>19, <1>20 DEF ReserveInv

\* The reserve starts covered.
LEMMA ReserveInvInit == ASSUME ReserveAssumption, ReserveInit PROVE ReserveInv
<1>1. /\ claims = [w \in WithdrawalIds |-> PayableClaim] /\ controlled = StartingAssets
      /\ supply = StartingSupply /\ committed = {} /\ native = [t \in Txids |-> None] /\ known = {}
  BY DEF ReserveInit
<1>2. /\ Payable \in Nat /\ StartingAssets \in Nat /\ StartingSupply \in Nat /\ OtherRequirements \in Nat
      /\ IsFiniteSet(WithdrawalIds)
      /\ StartingAssets >= StartingSupply + OtherRequirements + Payable * Cardinality(WithdrawalIds)
  BY DEF ReserveAssumption
<1>3. ReserveTypes
  <2>1. ClaimTyped(PayableClaim)
    BY DEF ClaimTyped, PayableClaim
  <2>2. \A w \in DOMAIN claims : ClaimTyped(claims[w])
    BY <1>1, <2>1
  <2>3. native \in [Txids -> [pays : WithdrawalIds, cost : Nat, place : Places] \cup {None}]
    BY <1>1
  <2>4. DOMAIN claims \subseteq WithdrawalIds /\ claims = [w \in DOMAIN claims |-> claims[w]]
    BY <1>1
  <2>. QED  BY <1>1, <1>2, <2>2, <2>3, <2>4 DEF ReserveTypes
<1>4. ChainKept
  BY <1>1 DEF ChainKept
<1>5. \A w \in WithdrawalIds : CanPay(w) = {} /\ LiveCost(w) = 0
  BY <1>1 DEF CanPay, LiveCost
<1>6. \A w \in WithdrawalIds : w \in DOMAIN claims /\ claims[w] = PayableClaim
  BY <1>1
<1>7. \A w \in WithdrawalIds : OnePayment(w)
  BY <1>5, <1>6 DEF OnePayment, PayableClaim
<1>8. \A w \in WithdrawalIds : OwedFor[w] = Payable /\ SetAside[w] = 0 /\ Refunded[w] = 0
  BY <1>2, <1>5, <1>6 DEF OwedFor, SetAside, Refunded, PayableClaim
<1>9. /\ SumOver(OwedFor, WithdrawalIds) = Payable * Cardinality(WithdrawalIds)
      /\ SumOver(SetAside, WithdrawalIds) = 0 * Cardinality(WithdrawalIds)
      /\ SumOver(Refunded, WithdrawalIds) = 0 * Cardinality(WithdrawalIds)
  BY <1>2, <1>8, SumConstant
<1>10. Cardinality(WithdrawalIds) \in Nat
  BY <1>2, FS_CardinalityType
<1>11. /\ SumOver(SetAside, WithdrawalIds) = 0 /\ SumOver(Refunded, WithdrawalIds) = 0
       /\ Payable * Cardinality(WithdrawalIds) \in Int
  BY <1>2, <1>9, <1>10
<1>12. Books
  BY <1>1, <1>2, <1>9, <1>11 DEF Books
<1>. QED  BY <1>3, <1>4, <1>7, <1>12 DEF ReserveInv

\* No step of the chain or of the issuer uncovers the reserve.
LEMMA ReserveInvNext ==
  ASSUME ReserveAssumption, ReserveInv, [ReserveNext]_reserveVars
  PROVE  ReserveInv'
<1>1. CASE \E t \in Txids : NativeStep(t)
  BY <1>1, NativeKeeps
<1>2. ASSUME NEW w \in DOMAIN claims, RefundBeforeSignature(w) PROVE ReserveInv'
  BY <1>2, RefundKeeps
<1>3. ASSUME NEW w \in DOMAIN claims,
             \/ BroadcastWithdrawal(w) \/ MarkMined(w) \/ MarkUnresolved(w)
             \/ \E t \in Txids, status \in {"broadcast", "mined"} : ApplyObservation(w, t, status)
      PROVE  ReserveInv'
  <2>1. claims[w].status # "payable" => claims[w].inTransit = IF claims[w].status = "unresolved" THEN 0 ELSE Payable
    BY DEF ReserveInv, ReserveTypes, OnePayment
  <2>2. /\ claims[w].status # "payable"
        /\ \E status \in {"broadcast", "mined", "unresolved"} :
             Marked(w, status, IF status = "unresolved" THEN 0 ELSE Payable)
    <3>1. CASE BroadcastWithdrawal(w)
      <4>1. claims[w].status = "signed" /\ Marked(w, "broadcast", claims[w].inTransit)
        BY <3>1 DEF BroadcastWithdrawal
      <4>2. Marked(w, "broadcast", Payable)
        BY <2>1, <4>1
      <4>. QED  BY <4>1, <4>2
    <3>2. CASE MarkMined(w)
      <4>1. claims[w].status = "broadcast" /\ Marked(w, "mined", claims[w].inTransit)
        BY <3>2 DEF MarkMined
      <4>2. Marked(w, "mined", Payable)
        BY <2>1, <4>1
      <4>. QED  BY <4>1, <4>2
    <3>3. CASE MarkUnresolved(w)
      BY <3>3 DEF MarkUnresolved
    <3>4. CASE \E t \in Txids, status \in {"broadcast", "mined"} : ApplyObservation(w, t, status)
      BY <3>4 DEF ApplyObservation
    <3>. QED  BY <1>3, <3>1, <3>2, <3>3, <3>4
  <2>. QED  BY <2>2, MarkedKeeps
<1>4. ASSUME NEW w \in DOMAIN claims, ConfirmWithdrawal(w) PROVE ReserveInv'
  BY <1>4, ConfirmKeeps
<1>5. ASSUME NEW w \in DOMAIN claims, NEW t \in Txids, SignWithdrawal(w, t) PROVE ReserveInv'
  BY <1>5, SignKeeps
<1>6. ASSUME NEW w \in DOMAIN claims, NEW t \in Txids, ApplyRestoration(w, t) PROVE ReserveInv'
  BY <1>6, RestorationKeeps
<1>7. CASE UNCHANGED reserveVars
  <2>1. UNCHANGED <<claims, controlled, supply, committed, native, known>>
    BY <1>7 DEF reserveVars
  <2>2. ReserveTypes' /\ ChainKept'
    BY <2>1 DEF ReserveInv, ReserveTypes, ChainKept
  <2>3. ASSUME NEW w \in WithdrawalIds PROVE CanPay(w)' = CanPay(w) /\ LiveCost(w)' = LiveCost(w)
    <3>1. CanPay(w)' = CanPay(w)
      BY <2>1 DEF CanPay
    <3>2. (CHOOSE t \in CanPay(w)' : TRUE) = (CHOOSE t \in CanPay(w) : TRUE)
      BY <3>1
    <3>. QED  BY <2>1, <3>1, <3>2 DEF LiveCost
  <2>4. \A w \in WithdrawalIds : OnePayment(w)'
    BY <2>1, <2>3 DEF ReserveInv, OnePayment
  <2>5. OwedFor' = OwedFor /\ SetAside' = SetAside /\ Refunded' = Refunded
    BY <2>1, <2>3 DEF OwedFor, SetAside, Refunded
  <2>6. Books'
    BY <2>1, <2>5 DEF ReserveInv, Books
  <2>. QED  BY <2>2, <2>4, <2>6 DEF ReserveInv
<1>. QED  BY <1>1, <1>2, <1>3, <1>4, <1>5, <1>6, <1>7 DEF ReserveNext

\* What the chain has spent and what it has still to pay are within what is owed
\* at worst.
LEMMA ReserveInvHoldings ==
  ASSUME ReserveAssumption, ReserveInv
  PROVE  Holdings >= supply + OtherRequirements + Payable * Cardinality(Unpaid)
<1>. DEFINE cost == [t \in Spent |-> native[t].cost]
            pays == [t \in Spent |-> native[t].pays]
            spentOn == [w \in WithdrawalIds |-> IF \E t \in Spent : native[t].pays = w THEN LiveCost(w) ELSE 0]
            each == [w \in Unpaid |-> Payable]
            unpaidOf == [w \in WithdrawalIds |-> IF w \in Unpaid THEN Payable ELSE 0]
            both == [w \in WithdrawalIds |-> spentOn[w] + unpaidOf[w]]
<1>1. /\ ReserveTypes /\ Books /\ Payable \in Nat /\ StartingAssets \in Int /\ OtherRequirements \in Int
      /\ \A w \in WithdrawalIds : OnePayment(w)
      /\ supply \in Int
  BY DEF ReserveInv, ReserveAssumption, ReserveTypes
<1>2. Unpaid \in SUBSET WithdrawalIds /\ Spent \subseteq Txids
  BY <1>1 DEF ReserveTypes, Unpaid, Spent
<1>3. IsFiniteSet(WithdrawalIds) /\ IsFiniteSet(Spent) /\ IsFiniteSet(Unpaid)
  <2>1. IsFiniteSet(WithdrawalIds) /\ IsFiniteSet(Txids)
    BY DEF ReserveAssumption
  <2>. QED  BY <1>2, <2>1, FS_Subset
<1>4. /\ \A w \in WithdrawalIds : LiveCost(w) \in Nat
      /\ \A w \in WithdrawalIds : OwedFor[w] \in Int
  BY <1>1, SumsTyped
<1>5. \A t \in Spent : /\ native[t].pays \in WithdrawalIds /\ native[t].cost \in Nat
                       /\ t \in CanPay(native[t].pays)
  BY <1>1 DEF ReserveTypes, Spent, CanPay
<1>6. \A w \in WithdrawalIds : \A t, u : t \in CanPay(w) /\ u \in CanPay(w) => t = u
  <2>1. ASSUME NEW w \in WithdrawalIds PROVE \A t, u : t \in CanPay(w) /\ u \in CanPay(w) => t = u
    <3>1. CanPay(w) = {} \/ \E x : CanPay(w) \subseteq {x}
      BY <1>1 DEF OnePayment
    <3>. QED  BY <3>1
  <2>. QED  BY <2>1
<1>7. \A t \in Spent : LiveCost(native[t].pays) = native[t].cost
  <2>1. ASSUME NEW t \in Spent PROVE LiveCost(native[t].pays) = native[t].cost
    <3>1. CanPay(native[t].pays) = {t}
      BY <1>5, <1>6
    <3>. QED  BY <3>1, LiveCostOf
  <2>. QED  BY <2>1
<1>8. SumOver(cost, Spent) = SumOver(spentOn, WithdrawalIds)
  <2>1. pays \in [Spent -> WithdrawalIds]
    BY <1>5
  <2>2. \A x, y \in Spent : pays[x] = pays[y] => x = y
    BY <1>5, <1>6
  <2>3. \A x \in Spent : cost[x] \in Int /\ cost[x] = spentOn[pays[x]]
    BY <1>5, <1>7
  <2>4. \A y \in WithdrawalIds : (\A x \in Spent : pays[x] # y) => spentOn[y] = 0
    OBVIOUS
  <2>. HIDE DEF pays, cost, spentOn
  <2>. QED  BY <1>3, <2>1, <2>2, <2>3, <2>4, SumReindexed
<1>9. /\ \A w \in WithdrawalIds : spentOn[w] \in Int /\ unpaidOf[w] \in Int /\ both[w] \in Int
      /\ \A w \in WithdrawalIds : both[w] = spentOn[w] + unpaidOf[w]
  BY <1>1, <1>4
<1>10. SumOver(unpaidOf, WithdrawalIds) = Payable * Cardinality(Unpaid)
  <2>1. /\ \A w \in Unpaid : each[w] \in Int /\ unpaidOf[w] = each[w]
        /\ \A w \in WithdrawalIds \ Unpaid : unpaidOf[w] = 0
    BY <1>1, <1>2
  <2>2. \A w \in Unpaid : each[w] = Payable
    OBVIOUS
  <2>. HIDE DEF each, unpaidOf
  <2>3. SumOver(each, Unpaid) = SumOver(unpaidOf, WithdrawalIds)
    BY <1>2, <1>3, <2>1, SumWithin
  <2>4. SumOver(each, Unpaid) = Payable * Cardinality(Unpaid)
    BY <1>1, <1>3, <2>2, SumConstant
  <2>. QED  BY <2>3, <2>4
<1>11. \A w \in WithdrawalIds : both[w] <= OwedFor[w]
  <2>1. ASSUME NEW w \in WithdrawalIds PROVE both[w] <= OwedFor[w]
    <3>1. CASE \E t \in Spent : native[t].pays = w
      <4>1. w \notin Unpaid /\ CanPay(w) # {}
        BY <1>5, <3>1 DEF Unpaid
      <4>2. both[w] = LiveCost(w) + 0
        BY <3>1, <4>1
      <4>3. OwedFor[w] = LiveCost(w) + 0
        BY <4>1 DEF OwedFor
      <4>. QED  BY <1>4, <4>2, <4>3
    <3>2. CASE ~ \E t \in Spent : native[t].pays = w
      <4>1. CASE w \in DOMAIN claims /\ CanPay(w) # {}
        <5>1. claims[w].status # "payable"
          BY <1>1, <4>1 DEF OnePayment
        <5>2. PICK t \in Txids : CanPay(w) \subseteq {t} /\ native[t].cost >= Payable
          BY <1>1, <4>1, <5>1 DEF OnePayment
        <5>3. CanPay(w) = {t}
          BY <4>1, <5>2
        <5>4. LiveCost(w) >= Payable
          BY <5>2, <5>3, LiveCostOf
        <5>5. OwedFor[w] = LiveCost(w) + 0
          BY <4>1 DEF OwedFor
        <5>6. both[w] <= Payable
          BY <1>1, <3>2
        <5>7. both[w] \in Int
          BY <1>9
        <5>. QED  BY <1>1, <1>4, <5>4, <5>5, <5>6, <5>7
      <4>2. CASE w \in DOMAIN claims /\ CanPay(w) = {}
        <5>1. OwedFor[w] = 0 + Payable
          BY <4>2 DEF OwedFor, LiveCost
        <5>2. both[w] <= Payable
          BY <1>1, <3>2
        <5>. QED  BY <1>1, <5>1, <5>2
      <4>3. CASE w \notin DOMAIN claims
        <5>1. OwedFor[w] = LiveCost(w) + 0
          BY <4>3 DEF OwedFor
        <5>2. w \notin Unpaid
          BY <4>3 DEF Unpaid
        <5>3. both[w] = 0 + 0
          BY <3>2, <5>2
        <5>. QED  BY <1>4, <5>1, <5>3
      <4>. QED  BY <4>1, <4>2, <4>3
    <3>. QED  BY <3>1, <3>2
  <2>. QED  BY <2>1
<1>12. SumOver(both, WithdrawalIds) <= SumOver(OwedFor, WithdrawalIds)
  <2>. HIDE DEF both
  <2>. QED  BY <1>3, <1>4, <1>9, <1>11, SumMonotone
<1>13. SumOver(both, WithdrawalIds) = SumOver(spentOn, WithdrawalIds) + SumOver(unpaidOf, WithdrawalIds)
  <2>. HIDE DEF both, spentOn, unpaidOf
  <2>. QED  BY <1>3, <1>9, SumPlus
<1>14. Holdings = StartingAssets - SumOver(cost, Spent)
  BY DEF Holdings
<1>15. /\ SumOver(spentOn, WithdrawalIds) \in Int /\ SumOver(unpaidOf, WithdrawalIds) \in Int
       /\ SumOver(both, WithdrawalIds) \in Int /\ SumOver(OwedFor, WithdrawalIds) \in Int
  <2>. HIDE DEF both, spentOn, unpaidOf
  <2>. QED  BY <1>3, <1>4, <1>9, SumType
<1>. HIDE DEF cost, both, spentOn, unpaidOf
<1>16. StartingAssets - SumOver(OwedFor, WithdrawalIds) >= supply + OtherRequirements
  BY <1>1 DEF Books
<1>17. StartingAssets - SumOver(cost, Spent) >= supply + OtherRequirements + SumOver(unpaidOf, WithdrawalIds)
  BY <1>1, <1>8, <1>12, <1>13, <1>15, <1>16
<1>. QED  BY <1>10, <1>14, <1>17

\* A covered reserve backs the tokens and every unpaid claim.
LEMMA ReserveInvBacked == ASSUME ReserveAssumption, ReserveInv PROVE WithdrawalsBacked
<1>. DEFINE confirmed == {w \in WithdrawalIds \ DOMAIN claims : CanPay(w) # {}}
            back == (WithdrawalIds \ DOMAIN claims) \ confirmed
            each == [w \in back |-> Payable]
<1>1. /\ ReserveTypes /\ Books /\ Payable \in Nat /\ IsFiniteSet(WithdrawalIds)
      /\ \A w \in WithdrawalIds : OnePayment(w)
  BY DEF ReserveInv, ReserveAssumption
<1>2. ASSUME NEW w \in WithdrawalIds
      PROVE  /\ Cardinality(CanPay(w)) <= 1
             /\ w \in DOMAIN claims /\ claims[w].status = "payable" => CanPay(w) = {}
  <2>1. CanPay(w) = {} \/ \E x : CanPay(w) \subseteq {x}
    BY <1>1 DEF OnePayment
  <2>2. CanPay(w) = {} \/ \E x : CanPay(w) = {x}
    BY <2>1
  <2>3. Cardinality(CanPay(w)) <= 1
    <3>1. CASE CanPay(w) = {}
      <4>1. Cardinality(CanPay(w)) = 0
        BY <3>1, FS_EmptySet
      <4>. QED  BY <4>1
    <3>2. CASE \E x : CanPay(w) = {x}
      <4>1. Cardinality(CanPay(w)) = 1
        BY <3>2, FS_Singleton
      <4>. QED  BY <4>1
    <3>. QED  BY <2>2, <3>1, <3>2
  <2>4. w \in DOMAIN claims /\ claims[w].status = "payable" => CanPay(w) = {}
    BY <1>1 DEF OnePayment
  <2>. QED  BY <2>3, <2>4
<1>3. \A w \in confirmed : \A t \in CanPay(w) : native[t].place = "final"
  BY <1>1 DEF OnePayment
<1>4. supply = StartingSupply + Payable * Cardinality(back)
  <2>1. back \in SUBSET WithdrawalIds /\ IsFiniteSet(back)
    BY <1>1, FS_Subset
  <2>2. /\ \A w \in back : each[w] \in Int /\ Refunded[w] = each[w]
        /\ \A w \in WithdrawalIds \ back : Refunded[w] = 0
    BY <1>1 DEF Refunded
  <2>3. \A w \in back : each[w] = Payable
    OBVIOUS
  <2>. HIDE DEF each, back
  <2>4. SumOver(each, back) = SumOver(Refunded, WithdrawalIds)
    BY <1>1, <2>1, <2>2, SumWithin
  <2>5. SumOver(each, back) = Payable * Cardinality(back)
    BY <1>1, <2>1, <2>3, SumConstant
  <2>. QED  BY <1>1, <2>4, <2>5 DEF Books
<1>5. Holdings >= supply + OtherRequirements + Payable * Cardinality(Unpaid)
  BY ReserveInvHoldings
<1>. QED  BY <1>2, <1>3, <1>4, <1>5 DEF WithdrawalsBacked

\* The reserve's ledger (reserve-accounting.ts): what the reserve holds on the
\* chain covers the tokens, the other requirements and every claim the chain has
\* not paid, no withdrawal can be paid twice, and none after it was refunded,
\* whatever the chain drops, conflicts or reorganises.
THEOREM ReserveStaysBacked == ReserveSpec => []WithdrawalsBacked
<1>1. ReserveInit => ReserveInv
  BY ReserveAssumption, ReserveInvInit
<1>2. ReserveInv /\ [ReserveNext]_reserveVars => ReserveInv'
  BY ReserveAssumption, ReserveInvNext
<1>3. ReserveInv => WithdrawalsBacked
  BY ReserveAssumption, ReserveInvBacked
<1>. QED  BY <1>1, <1>2, <1>3, PTL DEF ReserveSpec
-----------------------------------------------------------------------------
(* The limiters. *)

RateSpec == RateInit /\ [][RateNext]_rateVars

\* What the watched client's bucket would hold now.
Level == IF Watched \in DOMAIN buckets THEN Refilled(buckets[Watched]) ELSE Capacity

BucketInv ==
  /\ limiterNow \in Seconds /\ admitted \in [Seconds -> Nat]
  /\ \A u \in Seconds : u > limiterNow => admitted[u] = 0
  /\ Watched \in DOMAIN buckets =>
       buckets[Watched].tokens \in 0..Capacity /\ buckets[Watched].lastRefillAt \in 0..limiterNow
  /\ \A s \in 0..limiterNow :
       Between(admitted, s, limiterNow) + Level <= Capacity + RefillPerSecond * (limiterNow - s)
  /\ \A s, t \in 0..limiterNow :
       s <= t => Between(admitted, s, t) <= Capacity + RefillPerSecond * (t - s)

\* The watched client's last window began at a.
LastWindow(a) ==
  /\ Between(changed, a, limiterNow) <= WindowRequests
  /\ \A u \in Seconds : u >= a + Window => changed[u] = 0
  /\ \A s \in 0..a : s < a /\ a - s < Window => Between(changed, s, a - 1) <= WindowRequests
  /\ IF Watched \in DOMAIN windows
     THEN /\ windows[Watched].startedAt = a
          /\ Between(changed, a, limiterNow) <= windows[Watched].count
     ELSE a + Window <= limiterNow

WindowInv ==
  /\ limiterNow \in Seconds /\ changed \in [Seconds -> Nat]
  /\ \A u \in Seconds : u > limiterNow => changed[u] = 0
  /\ Watched \in DOMAIN windows => windows[Watched] \in [startedAt : Nat, count : Nat]
  /\ \/ Watched \notin DOMAIN windows /\ \A u \in Seconds : changed[u] = 0
     \/ \E a \in 0..limiterNow : LastWindow(a)
  /\ \A s, t \in 0..limiterNow :
       s <= t /\ t - s < Window => Between(changed, s, t) <= 2 * WindowRequests

RateInv == crowdedOut = FALSE => BucketInv /\ WindowInv

\* What was admitted between two seconds is a number.
LEMMA BetweenNat ==
  ASSUME RateAssumption, NEW log \in [Seconds -> Nat], NEW s \in Seconds, NEW t \in Seconds
  PROVE  Between(log, s, t) \in Nat
<1>1. s..t \subseteq Seconds /\ s \in Int /\ t \in Int
  BY DEF Seconds, RateAssumption
<1>2. IsFiniteSet(s..t)
  BY <1>1, FS_Interval
<1>3. \A u \in s..t : log[u] \in Nat
  BY <1>1
<1>. QED  BY <1>2, <1>3, SumNatural DEF Between

\* A span that ends a second later holds what that second admitted besides.
LEMMA BetweenGrows ==
  ASSUME RateAssumption, NEW log \in [Seconds -> Nat], NEW s \in Seconds, NEW n \in Seconds,
         n + 1 \in Seconds, s <= n + 1
  PROVE  s <= n => Between(log, s, n + 1) = Between(log, s, n) + log[n + 1]
<1>. SUFFICES ASSUME s <= n PROVE Between(log, s, n + 1) = Between(log, s, n) + log[n + 1]
  OBVIOUS
<1>1. s..n \subseteq Seconds /\ s \in Int /\ n \in Int /\ s..(n + 1) = (s..n) \cup {n + 1}
      /\ n + 1 \notin s..n
  BY DEF Seconds, RateAssumption
<1>2. IsFiniteSet(s..n)
  BY <1>1, FS_Interval
<1>3. IsFiniteSet({n + 1}) /\ (s..n) \cap {n + 1} = {}
  <2>1. IsFiniteSet({n + 1})
    BY FS_Singleton
  <2>2. (s..n) \cap {n + 1} = {}
    BY <1>1
  <2>. QED  BY <2>1, <2>2
<1>4. \A u \in (s..n) \cup {n + 1} : log[u] \in Int
  BY <1>1
<1>5. SumOver(log, (s..n) \cup {n + 1}) = SumOver(log, s..n) + SumOver(log, {n + 1})
  BY <1>2, <1>3, <1>4, SumUnion
<1>6. SumOver(log, {n + 1}) = log[n + 1]
  <2>1. n + 1 \in {n + 1} /\ log[n + 1] \in Int /\ \A y \in {n + 1} \ {n + 1} : log[y] = 0
    BY <1>4
  <2>. QED  BY <1>3, <2>1, SumOfOne
<1>. QED  BY <1>1, <1>5, <1>6 DEF Between

\* A span of one second holds what that second admitted.
LEMMA BetweenOne ==
  ASSUME RateAssumption, NEW log \in [Seconds -> Nat], NEW s \in Seconds
  PROVE  Between(log, s, s) = log[s]
<1>1. s..s = {s}
  BY DEF Seconds, RateAssumption
<1>2. IsFiniteSet({s})
  BY FS_Singleton
<1>3. s \in {s} /\ log[s] \in Int /\ \A y \in {s} \ {s} : log[y] = 0
  OBVIOUS
<1>4. SumOver(log, {s}) = log[s]
  BY <1>2, <1>3, SumOfOne
<1>. QED  BY <1>1, <1>4 DEF Between

\* A span splits in two at any second within it.
LEMMA BetweenSplit ==
  ASSUME RateAssumption, NEW log \in [Seconds -> Nat], NEW s \in Seconds, NEW m \in Seconds,
         NEW t \in Seconds, s < m, m <= t
  PROVE  Between(log, s, t) = Between(log, s, m - 1) + Between(log, m, t)
<1>1. /\ s \in Int /\ m \in Int /\ t \in Int /\ m - 1 \in Int
      /\ s..t = (s..(m - 1)) \cup (m..t) /\ (s..(m - 1)) \cap (m..t) = {} /\ s..t \subseteq Seconds
  BY DEF Seconds, RateAssumption
<1>2. IsFiniteSet(s..(m - 1)) /\ IsFiniteSet(m..t)
  BY <1>1, FS_Interval
<1>3. \A u \in (s..(m - 1)) \cup (m..t) : log[u] \in Int
  BY <1>1
<1>4. SumOver(log, (s..(m - 1)) \cup (m..t)) = SumOver(log, s..(m - 1)) + SumOver(log, m..t)
  BY <1>1, <1>2, <1>3, SumUnion
<1>. QED  BY <1>1, <1>4 DEF Between

\* A part of a span admits no more than the whole.
LEMMA BetweenPart ==
  ASSUME RateAssumption, NEW log \in [Seconds -> Nat], NEW s \in Seconds, NEW t \in Seconds,
         NEW m \in Seconds, s <= m, NEW n \in Seconds, n <= t
  PROVE  Between(log, m, n) <= Between(log, s, t)
<1>1. s..t \subseteq Seconds /\ s \in Int /\ t \in Int /\ (m..n) \in SUBSET (s..t)
  BY DEF Seconds, RateAssumption
<1>2. IsFiniteSet(s..t)
  BY <1>1, FS_Interval
<1>3. \A u \in s..t : log[u] \in Nat
  BY <1>1
<1>. QED  BY <1>1, <1>2, <1>3, SumOfPart DEF Between

\* A log with one more at n.
OneMore(log, more, n) ==
  /\ log \in [Seconds -> Nat] /\ more \in [Seconds -> Nat] /\ n \in Seconds
  /\ more[n] = log[n] + 1 /\ \A u \in Seconds \ {n} : more[u] = log[u]

\* It counts one more in every stretch that ends at n, and as many before.
LEMMA BetweenCounts ==
  ASSUME RateAssumption, NEW log, NEW more, NEW n, OneMore(log, more, n)
  PROVE  /\ \A s \in Seconds : s <= n => Between(more, s, n) = Between(log, s, n) + 1
         /\ \A s, t \in Seconds : t < n => Between(more, s, t) = Between(log, s, t)
<1>0. log \in [Seconds -> Nat] /\ n \in Seconds /\ more \in [Seconds -> Nat]
  BY DEF OneMore
<1>1. more \in [Seconds -> Nat] /\ more[n] = log[n] + 1 /\ \A u \in Seconds \ {n} : more[u] = log[u]
  BY DEF OneMore
<1>2. ASSUME NEW s \in Seconds, s <= n PROVE Between(more, s, n) = Between(log, s, n) + 1
  <2>1. s..n \subseteq Seconds /\ s \in Int /\ n \in Int /\ n \in s..n
    BY <1>0, <1>2 DEF Seconds, RateAssumption
  <2>2. IsFiniteSet(s..n)
    BY <2>1, FS_Interval
  <2>3. \A u \in s..n : log[u] \in Int /\ more[u] \in Int
    BY <1>0, <1>1, <2>1
  <2>4. \A u \in (s..n) \ {n} : log[u] = more[u]
    BY <1>0, <1>1, <2>1
  <2>5. SumOver(more, s..n) = SumOver(log, s..n) + 1
    <3>1. PICK span, f, g : span = s..n /\ f = log /\ g = more
      OBVIOUS
    <3>2. IsFiniteSet(span) /\ n \in span
      BY <2>1, <2>2, <3>1
    <3>3. \A u \in span : f[u] \in Int /\ g[u] \in Int
      BY <2>3, <3>1
    <3>4. \A u \in span \ {n} : f[u] = g[u]
      BY <2>4, <3>1
    <3>5. g[n] = f[n] + 1
      BY <1>1, <3>1
    <3>6. SumOver(g, span) = SumOver(f, span) + 1
      BY <3>2, <3>3, <3>4, <3>5, SumOneMore
    <3>. QED  BY <3>1, <3>6
  <2>. QED  BY <2>5 DEF Between
<1>3. ASSUME NEW s \in Seconds, NEW t \in Seconds, t < n PROVE Between(more, s, t) = Between(log, s, t)
  <2>1. s..t \subseteq Seconds \ {n} /\ s \in Int /\ t \in Int
    BY <1>0, <1>3 DEF Seconds, RateAssumption
  <2>2. IsFiniteSet(s..t)
    BY <2>1, FS_Interval
  <2>3. \A u \in s..t : more[u] = log[u] /\ more[u] \in Int /\ log[u] \in Int
    BY <1>0, <1>1, <2>1
  <2>. QED  BY <2>2, <2>3, SumEqual DEF Between
<1>. QED  BY <1>2, <1>3

\* Refilling never overfills, a second adds no more than its refill, and a client
\* idle for IdleSeconds has a full bucket.
LEMMA FilledLevel ==
  ASSUME RateAssumption, NEW k \in 0..Capacity, NEW d \in Nat
  PROVE  /\ Min({Capacity, k + d * RefillPerSecond}) \in 0..Capacity
         /\ Min({Capacity, k + (d + 1) * RefillPerSecond})
              <= Min({Capacity, k + d * RefillPerSecond}) + RefillPerSecond
         /\ d = 0 => Min({Capacity, k + d * RefillPerSecond}) = k
         /\ d >= IdleSeconds => Min({Capacity, k + d * RefillPerSecond}) = Capacity
<1>1. Capacity \in Nat \ {0} /\ RefillPerSecond \in Nat \ {0}
  BY DEF RateAssumption
<1>2. ASSUME NEW a \in Int, NEW b \in Int PROVE Min({a, b}) = IF a <= b THEN a ELSE b
  BY <1>2 DEF Min
<1>3. PICK p \in Nat : p = d * RefillPerSecond
  BY <1>1
<1>4. (d + 1) * RefillPerSecond = p + RefillPerSecond
  BY <1>1, <1>3
<1>5. d = 0 => p = 0
  BY <1>1, <1>3
<1>6. d >= IdleSeconds => p >= Capacity
  <2>. DEFINE q == Capacity \div RefillPerSecond
  <2>1. q \in Nat /\ Capacity < RefillPerSecond * q + RefillPerSecond
    BY <1>1, Quotients
  <2>2. IdleSeconds = q + 1
    BY DEF IdleSeconds
  <2>. HIDE DEF q
  <2>3. ASSUME d >= q + 1 PROVE (q + 1) * RefillPerSecond <= RefillPerSecond * d
    BY <1>1, <2>1, <2>3, RateWithin
  <2>4. (q + 1) * RefillPerSecond = RefillPerSecond * q + RefillPerSecond
    BY <1>1, <2>1
  <2>5. RefillPerSecond * d = p
    BY <1>1, <1>3
  <2>6. RefillPerSecond * q \in Nat
    BY <1>1, <2>1
  <2>. QED  BY <1>1, <2>1, <2>2, <2>3, <2>4, <2>5, <2>6
<1>7. /\ Min({Capacity, k + p}) = IF Capacity <= k + p THEN Capacity ELSE k + p
      /\ Min({Capacity, k + (p + RefillPerSecond)})
           = IF Capacity <= k + (p + RefillPerSecond) THEN Capacity ELSE k + (p + RefillPerSecond)
  BY <1>1, <1>2
<1>8. /\ Min({Capacity, k + p}) \in 0..Capacity
      /\ Min({Capacity, k + (p + RefillPerSecond)}) <= Min({Capacity, k + p}) + RefillPerSecond
      /\ p = 0 => Min({Capacity, k + p}) = k
      /\ p >= Capacity => Min({Capacity, k + p}) = Capacity
  BY <1>1, <1>7
<1>. QED  BY <1>3, <1>4, <1>5, <1>6, <1>8

\* A bucket starts full and nothing was admitted.
LEMMA BucketInit == ASSUME RateAssumption, RateInit PROVE BucketInv
<1>1. /\ buckets = [c \in {} |-> None] /\ limiterNow = 0 /\ admitted = [t \in Seconds |-> 0]
  BY DEF RateInit
<1>2. 0 \in Seconds /\ Capacity \in Nat /\ RefillPerSecond \in Nat
  BY DEF Seconds, RateAssumption
<1>3. Watched \notin DOMAIN buckets /\ Level = Capacity
  BY <1>1 DEF Level
<1>4. Between(admitted, 0, 0) = 0
  <2>1. admitted \in [Seconds -> Nat] /\ admitted[0] = 0
    BY <1>1, <1>2
  <2>. QED  BY <1>2, <2>1, BetweenOne
<1>5. \A s \in 0..limiterNow : s = 0
  BY <1>1
<1>6. RefillPerSecond * 0 = 0
  BY <1>2
<1>. QED  BY <1>1, <1>2, <1>3, <1>4, <1>5, <1>6 DEF BucketInv

\* A second refills the bucket by no more than what it adds to the budget.
LEMMA BucketSecond == ASSUME RateAssumption, BucketInv, RateSecond PROVE BucketInv'
<1>1. /\ limiterNow < MaxLimiterTime /\ limiterNow' = limiterNow + 1
      /\ buckets' = buckets /\ admitted' = admitted
  BY DEF RateSecond
<1>2. /\ limiterNow \in Seconds /\ limiterNow \in Nat /\ admitted \in [Seconds -> Nat]
      /\ Capacity \in Nat /\ RefillPerSecond \in Nat /\ MaxLimiterTime \in Nat
      /\ \A u \in Seconds : u > limiterNow => admitted[u] = 0
  <2>1. /\ limiterNow \in Seconds /\ admitted \in [Seconds -> Nat]
        /\ \A u \in Seconds : u > limiterNow => admitted[u] = 0
    BY DEF BucketInv
  <2>2. limiterNow \in Nat /\ Capacity \in Nat /\ RefillPerSecond \in Nat /\ MaxLimiterTime \in Nat
    BY <2>1 DEF Seconds, RateAssumption
  <2>. QED  BY <2>1, <2>2
<1>3. limiterNow + 1 \in Seconds /\ 0..(limiterNow + 1) \subseteq Seconds
  BY <1>1, <1>2 DEF Seconds
<1>4. Level \in 0..Capacity /\ Level' \in 0..Capacity /\ Level' <= Level + RefillPerSecond
  <2>1. CASE Watched \notin DOMAIN buckets
    BY <1>1, <1>2, <2>1 DEF Level
  <2>2. CASE Watched \in DOMAIN buckets
    <3>1. PICK k \in 0..Capacity, d \in Nat :
            k = buckets[Watched].tokens /\ d = limiterNow - buckets[Watched].lastRefillAt
            /\ limiterNow' - buckets[Watched].lastRefillAt = d + 1
      BY <1>1, <1>2, <2>2 DEF BucketInv
    <3>2. Level = Min({Capacity, k + d * RefillPerSecond})
      BY <2>2, <3>1 DEF Level, Refilled
    <3>3. Level' = Min({Capacity, k + (d + 1) * RefillPerSecond})
      BY <1>1, <2>2, <3>1 DEF Level, Refilled
    <3>4. /\ Min({Capacity, k + d * RefillPerSecond}) \in 0..Capacity
          /\ Min({Capacity, k + (d + 1) * RefillPerSecond})
               <= Min({Capacity, k + d * RefillPerSecond}) + RefillPerSecond
      BY <3>1, FilledLevel
    <3>5. Min({Capacity, k + (d + 1) * RefillPerSecond}) \in 0..Capacity
      <4>1. d + 1 \in Nat
        OBVIOUS
      <4>. QED  BY <4>1, FilledLevel
    <3>. QED  BY <3>2, <3>3, <3>4, <3>5
  <2>. QED  BY <2>1, <2>2
<1>5. ASSUME NEW s \in 0..limiterNow'
      PROVE  /\ Between(admitted, s, limiterNow + 1) \in Nat
             /\ Between(admitted, s, limiterNow + 1) + Level'
                  <= Capacity + RefillPerSecond * (limiterNow + 1 - s)
  <2>1. s \in Seconds /\ s \in Nat /\ s <= limiterNow + 1
    BY <1>1, <1>2, <1>3
  <2>2. Between(admitted, s, limiterNow + 1) \in Nat
    BY <1>2, <1>3, <2>1, BetweenNat
  <2>3. CASE s <= limiterNow
    <3>1. Between(admitted, s, limiterNow + 1) = Between(admitted, s, limiterNow) + admitted[limiterNow + 1]
      BY <1>2, <1>3, <2>1, <2>3, BetweenGrows
    <3>2. admitted[limiterNow + 1] = 0
      BY <1>2, <1>3
    <3>3. Between(admitted, s, limiterNow) + Level <= Capacity + RefillPerSecond * (limiterNow - s)
      BY <2>1, <2>3 DEF BucketInv
    <3>4. Between(admitted, s, limiterNow) \in Nat
      BY <1>2, <2>1, BetweenNat
    <3>5. RefillPerSecond * (limiterNow + 1 - s) = RefillPerSecond * (limiterNow - s) + RefillPerSecond
          /\ RefillPerSecond * (limiterNow - s) \in Int
      BY <1>2, <2>1
    <3>. QED  BY <1>2, <1>4, <2>2, <3>1, <3>2, <3>3, <3>4, <3>5
  <2>4. CASE s = limiterNow + 1
    <3>1. Between(admitted, s, limiterNow + 1) = 0
      <4>1. Between(admitted, s, s) = admitted[s]
        BY <1>2, <2>1, BetweenOne
      <4>2. admitted[s] = 0
        BY <1>2, <1>3, <2>4
      <4>. QED  BY <2>4, <4>1, <4>2
    <3>2. RefillPerSecond * (limiterNow + 1 - s) = 0
      BY <1>2, <2>4
    <3>. QED  BY <1>2, <1>4, <2>2, <3>1, <3>2
  <2>. QED  BY <1>2, <2>1, <2>3, <2>4
<1>6. ASSUME NEW s \in 0..limiterNow', NEW t \in 0..limiterNow', s <= t
      PROVE  Between(admitted, s, t) <= Capacity + RefillPerSecond * (t - s)
  <2>1. CASE t = limiterNow + 1
    <3>1. /\ Between(admitted, s, limiterNow + 1) \in Nat
          /\ Between(admitted, s, limiterNow + 1) + Level' <= Capacity + RefillPerSecond * (limiterNow + 1 - s)
      BY <1>5
    <3>2. RefillPerSecond * (limiterNow + 1 - s) \in Int
      BY <1>1, <1>2
    <3>. QED  BY <1>2, <1>4, <2>1, <3>1, <3>2
  <2>2. CASE t # limiterNow + 1
    BY <1>1, <1>2, <1>6, <2>2 DEF BucketInv
  <2>. QED  BY <2>1, <2>2
<1>7. Watched \in DOMAIN buckets' =>
        buckets'[Watched].tokens \in 0..Capacity /\ buckets'[Watched].lastRefillAt \in 0..limiterNow'
  BY <1>1, <1>2 DEF BucketInv
<1>8. \A u \in Seconds : u > limiterNow' => admitted'[u] = 0
  BY <1>1, <1>2 DEF Seconds
<1>9. \A s \in 0..limiterNow' :
        Between(admitted', s, limiterNow') + Level' <= Capacity + RefillPerSecond * (limiterNow' - s)
  <2>1. ASSUME NEW s \in 0..limiterNow'
        PROVE  Between(admitted', s, limiterNow') + Level' <= Capacity + RefillPerSecond * (limiterNow' - s)
    <3>1. Between(admitted, s, limiterNow + 1) + Level'
            <= Capacity + RefillPerSecond * (limiterNow + 1 - s)
      BY <1>5
    <3>2. Between(admitted', s, limiterNow') = Between(admitted, s, limiterNow + 1)
      BY <1>1
    <3>3. limiterNow' - s = limiterNow + 1 - s
      BY <1>1, <1>2
    <3>. QED  BY <3>1, <3>2, <3>3
  <2>. QED  BY <2>1
<1>10. \A s, t \in 0..limiterNow' :
         s <= t => Between(admitted', s, t) <= Capacity + RefillPerSecond * (t - s)
  BY <1>1, <1>6
<1>. QED  BY <1>1, <1>2, <1>3, <1>7, <1>8, <1>9, <1>10 DEF BucketInv
\* A bucket that was forgotten for being idle would be full.
LEMMA ForgottenWasFull ==
  ASSUME RateAssumption, BucketInv, Watched \in DOMAIN buckets,
         ~BucketRuns(Watched)
  PROVE  Level = Capacity
<1>1. PICK k \in 0..Capacity, d \in Nat :
        k = buckets[Watched].tokens /\ d = limiterNow - buckets[Watched].lastRefillAt
  <2>1. /\ limiterNow \in Nat /\ buckets[Watched].tokens \in 0..Capacity
        /\ buckets[Watched].lastRefillAt \in 0..limiterNow
    BY DEF BucketInv, Seconds, RateAssumption
  <2>2. limiterNow - buckets[Watched].lastRefillAt \in Nat
    BY <2>1
  <2>. QED  BY <2>1, <2>2
<1>2. Level = Min({Capacity, k + d * RefillPerSecond})
  BY <1>1 DEF Level, Refilled
<1>3. IdleSeconds \in Nat
  <2>1. Capacity \in Nat /\ RefillPerSecond \in Nat \ {0}
    BY DEF RateAssumption
  <2>2. Capacity \div RefillPerSecond \in Nat
    BY <2>1, Quotients
  <2>. QED  BY <2>2 DEF IdleSeconds
<1>4. d >= IdleSeconds
  BY <1>1, <1>3 DEF BucketRuns, BucketInv, Seconds, RateAssumption
<1>. QED  BY <1>1, <1>2, <1>4, FilledLevel

\* The level of the watched bucket lies between empty and full.
LEMMA LevelTyped == ASSUME RateAssumption, BucketInv PROVE Level \in 0..Capacity
<1>1. CASE Watched \in DOMAIN buckets
  <2>1. PICK k \in 0..Capacity, d \in Nat :
          k = buckets[Watched].tokens /\ d = limiterNow - buckets[Watched].lastRefillAt
    BY <1>1 DEF BucketInv, Seconds, RateAssumption
  <2>2. Level = Min({Capacity, k + d * RefillPerSecond})
    BY <1>1, <2>1 DEF Level, Refilled
  <2>. QED  BY <2>1, <2>2, FilledLevel
<1>2. CASE Watched \notin DOMAIN buckets
  BY <1>2 DEF Level, RateAssumption
<1>. QED  BY <1>1, <1>2

\* A request takes from the bucket what it adds to the log.
LEMMA BucketRequest ==
  ASSUME RateAssumption, BucketInv, NEW c \in Clients, NEW mutation \in BOOLEAN, Request(c, mutation),
         crowdedOut' = FALSE
  PROVE  BucketInv'
<1>1. PICK kept \in KeptBuckets :
        /\ buckets' = TakeToken(c, kept)
        /\ ~(Watched \in DOMAIN buckets \ kept /\ BucketRuns(Watched))
        /\ admitted' = IF Admits(c, kept) THEN Count(admitted, c) ELSE admitted
        /\ limiterNow' = limiterNow
  BY DEF Request
<1>2. /\ limiterNow \in Seconds /\ limiterNow \in Nat /\ admitted \in [Seconds -> Nat]
      /\ Capacity \in Nat \ {0} /\ RefillPerSecond \in Nat /\ MaxLimiterTime \in Nat
      /\ \A u \in Seconds : u > limiterNow => admitted[u] = 0
      /\ Level \in 0..Capacity /\ 0..limiterNow \subseteq Seconds
  BY LevelTyped DEF BucketInv, Seconds, RateAssumption
<1>3. kept \subseteq DOMAIN buckets
  BY DEF KeptBuckets
<1>4. Watched \notin kept => Level = Capacity
  BY <1>1, ForgottenWasFull DEF Level
<1>5. DOMAIN buckets' = kept \cup {c}
  BY <1>1 DEF TakeToken
<1>6. CASE c # Watched
  <2>1. admitted' = admitted
    BY <1>1, <1>6 DEF Count
  <2>2. CASE Watched \in kept
    <3>1. Watched \in DOMAIN buckets' /\ buckets'[Watched] = buckets[Watched]
      BY <1>1, <1>6, <2>2 DEF TakeToken
    <3>2. Level' = Level
      BY <1>1, <1>3, <2>2, <3>1 DEF Level, Refilled
    <3>. QED  BY <1>1, <1>3, <2>1, <2>2, <3>1, <3>2 DEF BucketInv
  <2>3. CASE Watched \notin kept
    <3>1. Watched \notin DOMAIN buckets'
      BY <1>5, <1>6, <2>3
    <3>2. Level' = Level
      BY <1>4, <2>3, <3>1 DEF Level
    <3>. QED  BY <1>1, <2>1, <3>1, <3>2 DEF BucketInv
  <2>. QED  BY <2>2, <2>3
<1>7. CASE c = Watched
  <2>1. Admits(c, kept) <=> Level > 0
    <3>1. CASE Watched \in kept
      <4>1. Level = Refilled(buckets[Watched])
        BY <1>3, <3>1 DEF Level
      <4>. QED  BY <1>7, <3>1, <4>1 DEF Admits
    <3>2. CASE Watched \notin kept
      BY <1>2, <1>4, <1>7, <3>2 DEF Admits
    <3>. QED  BY <3>1, <3>2
  <2>2. /\ Watched \in DOMAIN buckets' /\ buckets'[Watched].lastRefillAt = limiterNow
        /\ buckets'[Watched].tokens = IF Level = 0 THEN 0 ELSE Level - 1
    <3>1. CASE Watched \in kept
      <4>1. Level = Refilled(buckets[Watched])
        BY <1>3, <3>1 DEF Level
      <4>2. buckets'[Watched] = [tokens |-> IF Level = 0 THEN 0 ELSE Level - 1, lastRefillAt |-> limiterNow]
        BY <1>1, <1>7, <3>1, <4>1 DEF TakeToken
      <4>. QED  BY <1>5, <1>7, <4>2
    <3>2. CASE Watched \notin kept
      <4>1. Level = Capacity
        BY <1>4, <3>2
      <4>2. buckets'[Watched] = [tokens |-> IF Level = 0 THEN 0 ELSE Level - 1, lastRefillAt |-> limiterNow]
        BY <1>1, <1>7, <3>2, <4>1 DEF TakeToken
      <4>. QED  BY <1>5, <1>7, <4>2
    <3>. QED  BY <3>1, <3>2
  <2>3. PICK k \in 0..Capacity : k = buckets'[Watched].tokens /\ k = IF Level = 0 THEN 0 ELSE Level - 1
    BY <1>2, <2>2
  <2>4. Level' = k
    <3>1. Level' = Min({Capacity, k + 0 * RefillPerSecond})
      <4>1. limiterNow' - buckets'[Watched].lastRefillAt = 0
        BY <1>1, <1>2, <2>2
      <4>. QED  BY <2>2, <2>3, <4>1 DEF Level, Refilled
    <3>. QED  BY <3>1, FilledLevel
  <2>5. CASE Level = 0
    <3>1. admitted' = admitted /\ Level' = Level
      BY <1>1, <2>1, <2>3, <2>4, <2>5
    <3>2. buckets'[Watched].tokens \in 0..Capacity /\ buckets'[Watched].lastRefillAt \in 0..limiterNow
      BY <1>2, <2>2, <2>3
    <3>. QED  BY <1>1, <2>2, <3>1, <3>2 DEF BucketInv
  <2>6. CASE Level # 0
    <3>1. admitted' = [admitted EXCEPT ![limiterNow] = @ + 1] /\ Level' = Level - 1
      BY <1>1, <1>2, <1>7, <2>1, <2>3, <2>4, <2>6 DEF Count
    <3>2. /\ admitted' \in [Seconds -> Nat] /\ \A u \in Seconds \ {limiterNow} : admitted'[u] = admitted[u]
          /\ \A s \in Seconds : s <= limiterNow =>
               Between(admitted', s, limiterNow) = Between(admitted, s, limiterNow) + 1
          /\ \A s, t \in Seconds : t < limiterNow => Between(admitted', s, t) = Between(admitted, s, t)
      <4>1. PICK log, more, n : log = admitted /\ more = admitted' /\ n = limiterNow
        OBVIOUS
      <4>2. log \in [Seconds -> Nat] /\ n \in Seconds /\ more = [log EXCEPT ![n] = @ + 1]
        BY <1>2, <3>1, <4>1
      <4>5. more \in [Seconds -> Nat] /\ more[n] = log[n] + 1 /\ \A u \in Seconds \ {n} : more[u] = log[u]
        BY <4>2
      <4>3. /\ \A s \in Seconds : s <= n => Between(more, s, n) = Between(log, s, n) + 1
            /\ \A s, t \in Seconds : t < n => Between(more, s, t) = Between(log, s, t)
        <5>1. OneMore(log, more, n)
          BY <4>2, <4>5 DEF OneMore
        <5>. QED  BY <5>1, BetweenCounts
      <4>. QED  BY <4>1, <4>3, <4>5
    <3>3. \A u \in Seconds : u > limiterNow' => admitted'[u] = 0
      BY <1>1, <1>2, <3>2 DEF Seconds
    <3>4. ASSUME NEW s \in 0..limiterNow
          PROVE  /\ Between(admitted', s, limiterNow) + Level' <= Capacity + RefillPerSecond * (limiterNow - s)
                 /\ Between(admitted', s, limiterNow) \in Nat
      <4>1. Between(admitted, s, limiterNow) + Level <= Capacity + RefillPerSecond * (limiterNow - s)
        BY DEF BucketInv
      <4>2. Between(admitted, s, limiterNow) \in Nat
        BY <1>2, BetweenNat
      <4>3. Between(admitted', s, limiterNow) = Between(admitted, s, limiterNow) + 1
        BY <1>2, <3>2
      <4>. QED  BY <1>2, <3>1, <4>1, <4>2, <4>3
    <3>5. ASSUME NEW s \in 0..limiterNow, NEW t \in 0..limiterNow, s <= t
          PROVE  Between(admitted', s, t) <= Capacity + RefillPerSecond * (t - s)
      <4>1. CASE t = limiterNow
        <5>1. /\ Between(admitted', s, t) + Level' <= Capacity + RefillPerSecond * (t - s)
              /\ Between(admitted', s, t) \in Nat
          BY <3>4, <4>1
        <5>2. RefillPerSecond * (t - s) \in Int
          BY <1>2
        <5>. QED  BY <1>2, <2>6, <3>1, <5>1, <5>2
      <4>2. CASE t # limiterNow
        <5>1. Between(admitted', s, t) = Between(admitted, s, t)
          BY <1>2, <3>2, <4>2
        <5>. QED  BY <3>5, <5>1 DEF BucketInv
      <4>. QED  BY <4>1, <4>2
    <3>6. buckets'[Watched].tokens \in 0..Capacity /\ buckets'[Watched].lastRefillAt \in 0..limiterNow
      BY <1>2, <2>2, <2>3
    <3>. QED  BY <1>1, <1>2, <2>2, <3>2, <3>3, <3>4, <3>5, <3>6 DEF BucketInv
  <2>. QED  BY <2>5, <2>6
<1>. QED  BY <1>6, <1>7

\* A span with nothing admitted counts nothing.
LEMMA BetweenZero ==
  ASSUME RateAssumption, NEW log \in [Seconds -> Nat], \A u \in Seconds : log[u] = 0,
         NEW s \in Seconds, NEW t \in Seconds
  PROVE  Between(log, s, t) = 0
<1>1. s..t \subseteq Seconds /\ s \in Int /\ t \in Int
  BY DEF Seconds, RateAssumption
<1>2. IsFiniteSet(s..t) /\ Cardinality(s..t) \in Nat
  BY <1>1, FS_Interval, FS_CardinalityType
<1>3. \A u \in s..t : log[u] = 0
  BY <1>1
<1>4. SumOver(log, s..t) = 0 * Cardinality(s..t)
  <2>1. PICK span, f : span = s..t /\ f = log
    OBVIOUS
  <2>2. IsFiniteSet(span) /\ \A u \in span : f[u] = 0
    BY <1>2, <1>3, <2>1
  <2>3. SumOver(f, span) = 0 * Cardinality(span)
    BY <2>2, SumConstant
  <2>. QED  BY <2>1, <2>3
<1>. QED  BY <1>2, <1>4 DEF Between

\* A span shorter than a window meets the last window and at most one before it.
LEMMA TwoWindows ==
  ASSUME RateAssumption, NEW log \in [Seconds -> Nat], NEW n \in Seconds, NEW a \in 0..n,
         Between(log, a, n) <= WindowRequests,
         \A s \in 0..a : s < a /\ a - s < Window => Between(log, s, a - 1) <= WindowRequests,
         NEW s \in 0..n, n - s < Window
  PROVE  Between(log, s, n) <= 2 * WindowRequests
<1>1. /\ a \in Seconds /\ s \in Seconds /\ a \in Nat /\ s \in Nat /\ n \in Nat
      /\ WindowRequests \in Nat /\ Window \in Nat
  BY DEF Seconds, RateAssumption
<1>2. Between(log, s, n) \in Nat /\ Between(log, a, n) \in Nat
  BY <1>1, BetweenNat
<1>3. CASE a <= s
  <2>1. Between(log, s, n) <= Between(log, a, n)
    BY <1>1, <1>3, BetweenPart
  <2>. QED  BY <1>1, <1>2, <2>1
<1>4. CASE s < a
  <2>1. Between(log, s, n) = Between(log, s, a - 1) + Between(log, a, n)
    BY <1>1, <1>4, BetweenSplit
  <2>2. Between(log, s, a - 1) <= WindowRequests
    BY <1>1, <1>4
  <2>3. Between(log, s, a - 1) \in Nat
    <3>1. a - 1 \in Seconds
      BY <1>1, <1>4 DEF Seconds, RateAssumption
    <3>. QED  BY <1>1, <3>1, BetweenNat
  <2>. QED  BY <1>1, <1>2, <2>1, <2>2, <2>3
<1>. QED  BY <1>1, <1>3, <1>4

\* No window has begun and nothing was admitted.
LEMMA WindowInit == ASSUME RateAssumption, RateInit PROVE WindowInv
<1>1. /\ windows = [c \in {} |-> None] /\ limiterNow = 0 /\ changed = [t \in Seconds |-> 0]
  BY DEF RateInit
<1>2. 0 \in Seconds /\ changed \in [Seconds -> Nat] /\ \A u \in Seconds : changed[u] = 0
  BY <1>1 DEF Seconds, RateAssumption
<1>3. Watched \notin DOMAIN windows
  BY <1>1
<1>4. \A s, t \in 0..limiterNow : Between(changed, s, t) = 0
  BY <1>1, <1>2, BetweenZero
<1>5. 0 <= 2 * WindowRequests
  BY DEF RateAssumption
<1>. QED  BY <1>1, <1>2, <1>3, <1>4, <1>5 DEF WindowInv

\* Time passing begins no window.
LEMMA WindowSecond == ASSUME RateAssumption, WindowInv, RateSecond PROVE WindowInv'
<1>1. /\ limiterNow < MaxLimiterTime /\ limiterNow' = limiterNow + 1
      /\ windows' = windows /\ changed' = changed
  BY DEF RateSecond
<1>2. /\ limiterNow \in Seconds /\ limiterNow \in Nat /\ changed \in [Seconds -> Nat]
      /\ WindowRequests \in Nat /\ Window \in Nat /\ MaxLimiterTime \in Nat
      /\ \A u \in Seconds : u > limiterNow => changed[u] = 0
  BY DEF WindowInv, Seconds, RateAssumption
<1>3. limiterNow + 1 \in Seconds /\ 0..(limiterNow + 1) \subseteq Seconds /\ changed[limiterNow + 1] = 0
  BY <1>1, <1>2 DEF Seconds
<1>4. ASSUME NEW s \in 0..limiterNow
      PROVE  Between(changed, s, limiterNow + 1) = Between(changed, s, limiterNow)
  <2>1. s \in Seconds /\ s <= limiterNow
    BY <1>2, <1>3
  <2>2. Between(changed, s, limiterNow + 1) = Between(changed, s, limiterNow) + changed[limiterNow + 1]
    BY <1>2, <1>3, <2>1, BetweenGrows
  <2>3. Between(changed, s, limiterNow) \in Nat
    BY <1>2, <2>1, BetweenNat
  <2>. QED  BY <1>3, <2>2, <2>3
<1>5. \/ Watched \notin DOMAIN windows' /\ \A u \in Seconds : changed'[u] = 0
      \/ \E a \in 0..limiterNow' : LastWindow(a)'
  <2>1. CASE Watched \notin DOMAIN windows /\ \A u \in Seconds : changed[u] = 0
    BY <1>1, <2>1
  <2>2. ASSUME NEW a \in 0..limiterNow, LastWindow(a) PROVE LastWindow(a)' /\ a \in 0..limiterNow'
    <3>1. Between(changed', a, limiterNow') = Between(changed, a, limiterNow)
      BY <1>1, <1>4
    <3>2. Between(changed', a, limiterNow') <= WindowRequests
      BY <2>2, <3>1 DEF LastWindow
    <3>3. Watched \notin DOMAIN windows' => a + Window <= limiterNow'
      BY <1>1, <1>2, <2>2 DEF LastWindow
    <3>4. Watched \in DOMAIN windows' => /\ windows'[Watched].startedAt = a
                                         /\ Between(changed', a, limiterNow') <= windows'[Watched].count
      BY <1>1, <2>2, <3>1 DEF LastWindow
    <3>5. /\ \A u \in Seconds : u >= a + Window => changed'[u] = 0
          /\ \A s \in 0..a : s < a /\ a - s < Window => Between(changed', s, a - 1) <= WindowRequests
      BY <1>1, <2>2 DEF LastWindow
    <3>6. a \in 0..limiterNow'
      BY <1>1, <1>2
    <3>. QED  BY <3>2, <3>3, <3>4, <3>5, <3>6 DEF LastWindow
  <2>. QED  BY <2>1, <2>2 DEF WindowInv
<1>6. ASSUME NEW s \in 0..limiterNow', NEW t \in 0..limiterNow', s <= t, t - s < Window
      PROVE  Between(changed, s, t) <= 2 * WindowRequests
  <2>1. CASE t <= limiterNow
    BY <1>1, <1>2, <1>6, <2>1 DEF WindowInv
  <2>2. CASE t = limiterNow + 1 /\ s <= limiterNow
    <3>1. Between(changed, s, t) = Between(changed, s, limiterNow)
      BY <1>1, <1>2, <1>4, <2>2
    <3>2. Between(changed, s, limiterNow) <= 2 * WindowRequests
      BY <1>1, <1>2, <1>6, <2>2 DEF WindowInv
    <3>. QED  BY <3>1, <3>2
  <2>3. CASE t = limiterNow + 1 /\ s = limiterNow + 1
    <3>1. Between(changed, s, t) = changed[s]
      BY <1>2, <1>3, <2>3, BetweenOne
    <3>. QED  BY <1>2, <1>3, <2>3, <3>1
  <2>. QED  BY <1>1, <1>2, <1>6, <2>1, <2>2, <2>3
<1>7. \A s, t \in 0..limiterNow' :
        s <= t /\ t - s < Window => Between(changed', s, t) <= 2 * WindowRequests
  BY <1>1, <1>6
<1>8. \A u \in Seconds : u > limiterNow' => changed'[u] = 0
  BY <1>1, <1>2 DEF Seconds
<1>9. Watched \in DOMAIN windows' => windows'[Watched] \in [startedAt : Nat, count : Nat]
  BY <1>1 DEF WindowInv
<1>. QED  BY <1>1, <1>2, <1>3, <1>5, <1>7, <1>8, <1>9 DEF WindowInv
\* A request of the watched client that the window counts, or not, leaves the
\* last window at a.
LEMMA WindowCounts ==
  ASSUME RateAssumption, WindowInv, limiterNow' = limiterNow,
         NEW a \in 0..limiterNow, LastWindow(a)',
         \/ changed' = changed
         \/ changed' = [changed EXCEPT ![limiterNow] = @ + 1],
         Watched \in DOMAIN windows' => windows'[Watched] \in [startedAt : Nat, count : Nat]
  PROVE  WindowInv'
<1>1. /\ limiterNow \in Seconds /\ limiterNow \in Nat /\ changed \in [Seconds -> Nat]
      /\ \A u \in Seconds : u > limiterNow => changed[u] = 0
      /\ 0..limiterNow \subseteq Seconds
  BY DEF WindowInv, Seconds, RateAssumption
<1>2. /\ changed' \in [Seconds -> Nat]
      /\ \A u \in Seconds : u > limiterNow => changed'[u] = 0
  BY <1>1 DEF Seconds
<1>3. ASSUME NEW s \in 0..limiterNow, NEW t \in 0..limiterNow, t # limiterNow
      PROVE  Between(changed', s, t) = Between(changed, s, t)
  <2>1. CASE changed' = changed
    BY <2>1
  <2>2. CASE changed' = [changed EXCEPT ![limiterNow] = @ + 1]
    <3>1. PICK log, more, n : log = changed /\ more = changed' /\ n = limiterNow
      OBVIOUS
    <3>2. /\ log \in [Seconds -> Nat] /\ n \in Seconds /\ more \in [Seconds -> Nat]
          /\ more[n] = log[n] + 1 /\ \A u \in Seconds \ {n} : more[u] = log[u]
      BY <1>1, <1>2, <2>2, <3>1
    <3>3. \A x, y \in Seconds : y < n => Between(more, x, y) = Between(log, x, y)
      <4>1. OneMore(log, more, n)
        BY <3>2 DEF OneMore
      <4>. QED  BY <4>1, BetweenCounts
    <3>4. s \in Seconds /\ t \in Seconds /\ t < n
      BY <1>1, <1>3, <3>1
    <3>. QED  BY <3>1, <3>3, <3>4
  <2>. QED  BY <2>1, <2>2
<1>4. ASSUME NEW s \in 0..limiterNow, NEW t \in 0..limiterNow, s <= t, t - s < Window
      PROVE  Between(changed', s, t) <= 2 * WindowRequests
  <2>1. CASE t # limiterNow
    <3>1. Between(changed', s, t) = Between(changed, s, t)
      BY <1>3, <2>1
    <3>. QED  BY <1>4, <3>1 DEF WindowInv
  <2>2. CASE t = limiterNow
    <3>1. PICK log, n : log = changed' /\ n = limiterNow
      OBVIOUS
    <3>2. /\ log \in [Seconds -> Nat] /\ n \in Seconds /\ a \in 0..n /\ s \in 0..n /\ n - s < Window
      BY <1>1, <1>2, <1>4, <2>2, <3>1
    <3>3. Between(log, a, n) <= WindowRequests
      BY <3>1 DEF LastWindow
    <3>4. \A x \in 0..a : x < a /\ a - x < Window => Between(log, x, a - 1) <= WindowRequests
      BY <3>1 DEF LastWindow
    <3>5. Between(log, s, n) <= 2 * WindowRequests
      BY <3>2, <3>3, <3>4, TwoWindows
    <3>. QED  BY <2>2, <3>1, <3>5
  <2>. QED  BY <2>1, <2>2
<1>. QED  BY <1>1, <1>2, <1>4 DEF WindowInv

\* A window of the watched client that is dropped without crowding is over.
LEMMA WindowRequest ==
  ASSUME RateAssumption, WindowInv, NEW c \in Clients, NEW mutation \in BOOLEAN, Request(c, mutation),
         crowdedOut' = FALSE
  PROVE  WindowInv'
<1>1. PICK kept \in KeptBuckets :
       \E open \in IF mutation /\ Admits(c, kept) THEN KeptWindows(c) ELSE {DOMAIN windows} :
         /\ ~(Watched \in DOMAIN windows \ open /\ WindowRuns(Watched))
         /\ IF mutation /\ Admits(c, kept)
            THEN /\ CheckRate(c, open)
                 /\ changed' = IF windows'[c].count <= WindowRequests THEN Count(changed, c) ELSE changed
            ELSE UNCHANGED <<windows, changed>>
         /\ limiterNow' = limiterNow
  BY DEF Request
<1>2. /\ limiterNow \in Seconds /\ limiterNow \in Nat /\ changed \in [Seconds -> Nat]
      /\ \A u \in Seconds : u > limiterNow => changed[u] = 0
      /\ WindowRequests \in Nat /\ Window \in Nat \ {0} /\ MaxLimiterTime \in Nat
      /\ 0..limiterNow \subseteq Seconds
      /\ Watched \in DOMAIN windows => windows[Watched] \in [startedAt : Nat, count : Nat]
  BY DEF WindowInv, Seconds, RateAssumption
<1>3. CASE ~(mutation /\ Admits(c, kept))
  <2>1. windows' = windows /\ changed' = changed /\ limiterNow' = limiterNow
    BY <1>1, <1>3
  <2>. QED  BY <2>1 DEF WindowInv, LastWindow
<1>4. CASE mutation /\ Admits(c, kept)
  <2>1. PICK open \in KeptWindows(c) :
          /\ ~(Watched \in DOMAIN windows \ open /\ WindowRuns(Watched))
          /\ CheckRate(c, open)
          /\ changed' = IF windows'[c].count <= WindowRequests THEN Count(changed, c) ELSE changed
          /\ limiterNow' = limiterNow
    BY <1>1, <1>4
  <2>2. /\ open \subseteq DOMAIN windows
        /\ \A d \in open : limiterNow - windows[d].startedAt < Window
        /\ c \in DOMAIN windows /\ limiterNow - windows[c].startedAt < Window => c \in open
    BY DEF KeptWindows
  <2>3. /\ DOMAIN windows' = open \cup {c}
        /\ \A d \in open \ {c} : windows'[d] = windows[d]
        /\ c \in open => windows'[c] = [windows[c] EXCEPT !.count = Min({@, WindowRequests}) + 1]
        /\ c \notin open => windows'[c] = [startedAt |-> limiterNow, count |-> 1]
    BY <2>1 DEF CheckRate
  <2>4. CASE c # Watched
    <3>1. changed' = changed /\ limiterNow' = limiterNow
      BY <2>1, <2>4 DEF Count
    <3>2. CASE Watched \in open
      <4>1. Watched \in DOMAIN windows /\ Watched \in DOMAIN windows' /\ windows'[Watched] = windows[Watched]
        BY <2>2, <2>3, <2>4, <3>2
      <4>. QED  BY <3>1, <4>1 DEF WindowInv, LastWindow
    <3>3. CASE Watched \notin open
      <4>1. Watched \notin DOMAIN windows'
        BY <2>3, <2>4, <3>3
      <4>2. Watched \in DOMAIN windows => windows[Watched].startedAt + Window <= limiterNow
        BY <1>2, <2>1, <3>3 DEF WindowRuns
      <4>3. \A a \in 0..limiterNow : LastWindow(a) => LastWindow(a)'
        BY <3>1, <4>1, <4>2 DEF LastWindow
      <4>4. \/ Watched \notin DOMAIN windows' /\ \A u \in Seconds : changed'[u] = 0
            \/ \E a \in 0..limiterNow' : LastWindow(a)'
        BY <3>1, <4>1, <4>3 DEF WindowInv
      <4>. QED  BY <3>1, <4>1, <4>4 DEF WindowInv
    <3>. QED  BY <3>2, <3>3
  <2>5. CASE c = Watched /\ Watched \in open
    <3>1. Watched \in DOMAIN windows /\ Watched \in DOMAIN windows'
      BY <2>2, <2>3, <2>5
    <3>2. PICK a \in 0..limiterNow : LastWindow(a)
      BY <3>1 DEF WindowInv
    <3>3. windows[Watched].startedAt = a /\ Between(changed, a, limiterNow) <= windows[Watched].count
      BY <3>1, <3>2 DEF LastWindow
    <3>4. limiterNow - a < Window
      BY <2>2, <2>5, <3>3
    <3>5. PICK k \in Nat : k = windows[Watched].count
      BY <1>2, <3>1
    <3>6. windows'[Watched] = [startedAt |-> a, count |-> Min({k, WindowRequests}) + 1]
      <4>1. PICK w \in [startedAt : Nat, count : Nat] : w = windows[Watched]
        BY <1>2, <3>1
      <4>2. windows'[Watched] = [w EXCEPT !.count = Min({w.count, WindowRequests}) + 1]
        BY <2>3, <2>5, <4>1
      <4>3. \A m : [w EXCEPT !.count = m] = [startedAt |-> w.startedAt, count |-> m]
        BY <4>1
      <4>. QED  BY <3>3, <3>5, <4>1, <4>2, <4>3
    <3>7. Min({k, WindowRequests}) = IF k <= WindowRequests THEN k ELSE WindowRequests
      BY <1>2, <3>5 DEF Min
    <3>8. PICK m \in Nat : /\ m = windows'[Watched].count /\ windows'[Watched].startedAt = a
                           /\ m = (IF k <= WindowRequests THEN k ELSE WindowRequests) + 1
                           /\ windows'[Watched] \in [startedAt : Nat, count : Nat]
      BY <1>2, <3>5, <3>6, <3>7
    <3>9. Between(changed, a, limiterNow) \in Nat /\ Between(changed, a, limiterNow) <= WindowRequests
      <4>1. Between(changed, a, limiterNow) \in Nat
        BY <1>2, BetweenNat
      <4>. QED  BY <3>2, <4>1 DEF LastWindow
    <3>10. /\ \A u \in Seconds : u >= a + Window => changed[u] = 0
           /\ \A s \in 0..a : s < a /\ a - s < Window => Between(changed, s, a - 1) <= WindowRequests
      BY <3>2 DEF LastWindow
    <3>11. CASE m <= WindowRequests
      <4>1. changed' = [changed EXCEPT ![limiterNow] = @ + 1]
        BY <2>1, <2>5, <3>8, <3>11 DEF Count
      <4>2. PICK log, more, n : log = changed /\ more = changed' /\ n = limiterNow
        OBVIOUS
      <4>3. /\ log \in [Seconds -> Nat] /\ n \in Seconds /\ more \in [Seconds -> Nat]
            /\ more[n] = log[n] + 1 /\ \A u \in Seconds \ {n} : more[u] = log[u]
        BY <1>2, <4>1, <4>2
      <4>4. /\ \A s \in Seconds : s <= n => Between(more, s, n) = Between(log, s, n) + 1
            /\ \A s, t \in Seconds : t < n => Between(more, s, t) = Between(log, s, t)
        <5>1. OneMore(log, more, n)
          BY <4>3 DEF OneMore
        <5>. QED  BY <5>1, BetweenCounts
      <4>5. Between(changed', a, limiterNow) = Between(changed, a, limiterNow) + 1
        BY <1>2, <4>2, <4>4
      <4>6. Between(changed', a, limiterNow) <= m /\ m <= WindowRequests
        BY <1>2, <3>3, <3>5, <3>8, <3>9, <3>11, <4>5
      <4>6a. Between(changed', a, limiterNow) <= WindowRequests
        BY <1>2, <3>8, <3>9, <4>5, <4>6
      <4>7. \A u \in Seconds : u >= a + Window => changed'[u] = 0
        BY <1>2, <3>4, <3>10, <4>2, <4>3 DEF Seconds
      <4>8. ASSUME NEW s \in 0..a, s < a, a - s < Window PROVE Between(changed', s, a - 1) <= WindowRequests
        <5>1. s \in Seconds /\ a - 1 \in Seconds /\ a - 1 < limiterNow
          BY <1>2, <4>8 DEF Seconds
        <5>2. Between(changed', s, a - 1) = Between(changed, s, a - 1)
          BY <4>2, <4>4, <5>1
        <5>. QED  BY <3>10, <4>8, <5>2
      <4>9. LastWindow(a)'
        BY <2>1, <3>1, <3>8, <4>6, <4>6a, <4>7, <4>8 DEF LastWindow
      <4>. QED  BY <2>1, <3>8, <4>1, <4>9, WindowCounts
    <3>12. CASE ~(m <= WindowRequests)
      <4>1. changed' = changed
        BY <2>1, <2>5, <3>8, <3>12
      <4>2. Between(changed', a, limiterNow) <= m
        BY <1>2, <3>8, <3>9, <3>12, <4>1
      <4>3. LastWindow(a)'
        BY <2>1, <3>1, <3>8, <3>9, <3>10, <4>1, <4>2 DEF LastWindow
      <4>. QED  BY <2>1, <3>8, <4>1, <4>3, WindowCounts
    <3>. QED  BY <3>11, <3>12
  <2>6. CASE c = Watched /\ Watched \notin open
    <3>1. /\ Watched \in DOMAIN windows' /\ windows'[Watched].startedAt = limiterNow
          /\ windows'[Watched].count = 1 /\ windows'[Watched] \in [startedAt : Nat, count : Nat]
      BY <1>2, <2>3, <2>6
    <3>2. Watched \in DOMAIN windows => windows[Watched].startedAt + Window <= limiterNow
      BY <1>2, <2>1, <2>6 DEF WindowRuns
    <3>3. /\ changed[limiterNow] = 0
          /\ \A s \in 0..limiterNow : s < limiterNow /\ limiterNow - s < Window =>
               Between(changed, s, limiterNow - 1) <= WindowRequests
      <4>1. CASE \A u \in Seconds : changed[u] = 0
        <5>1. ASSUME NEW s \in 0..limiterNow, s < limiterNow PROVE Between(changed, s, limiterNow - 1) = 0
          <6>1. s \in Seconds /\ limiterNow - 1 \in Seconds
            BY <1>2, <5>1 DEF Seconds
          <6>. QED  BY <1>2, <4>1, <6>1, BetweenZero
        <5>. QED  BY <1>2, <4>1, <5>1
      <4>2. ASSUME NEW a \in 0..limiterNow, LastWindow(a)
            PROVE  /\ changed[limiterNow] = 0
                   /\ \A s \in 0..limiterNow : s < limiterNow /\ limiterNow - s < Window =>
                        Between(changed, s, limiterNow - 1) <= WindowRequests
        <5>1. a + Window <= limiterNow
          BY <3>2, <4>2 DEF LastWindow
        <5>2. changed[limiterNow] = 0
          BY <1>2, <4>2, <5>1 DEF LastWindow
        <5>3. ASSUME NEW s \in 0..limiterNow, s < limiterNow, limiterNow - s < Window
              PROVE  Between(changed, s, limiterNow - 1) <= WindowRequests
          <6>1. s \in Seconds /\ limiterNow - 1 \in Seconds /\ a \in Seconds /\ a <= s
            BY <1>2, <5>1, <5>3 DEF Seconds
          <6>2. Between(changed, s, limiterNow - 1) <= Between(changed, a, limiterNow)
            BY <1>2, <6>1, BetweenPart
          <6>3. Between(changed, a, limiterNow) <= WindowRequests
            BY <4>2 DEF LastWindow
          <6>4. Between(changed, s, limiterNow - 1) \in Nat /\ Between(changed, a, limiterNow) \in Nat
            BY <1>2, <6>1, BetweenNat
          <6>. QED  BY <1>2, <6>2, <6>3, <6>4
        <5>. QED  BY <5>2, <5>3
      <4>. QED  BY <4>1, <4>2 DEF WindowInv
    <3>4. \/ changed' = changed
          \/ changed' = [changed EXCEPT ![limiterNow] = @ + 1] /\ 1 <= WindowRequests
      BY <2>1, <2>6, <3>1 DEF Count
    <3>5. /\ changed' \in [Seconds -> Nat] /\ \A u \in Seconds \ {limiterNow} : changed'[u] = changed[u]
          /\ changed'[limiterNow] <= 1 /\ changed'[limiterNow] <= WindowRequests
      BY <1>2, <3>3, <3>4
    <3>6. Between(changed', limiterNow, limiterNow) <= WindowRequests
          /\ Between(changed', limiterNow, limiterNow) <= windows'[Watched].count
      <4>1. PICK log, n : log = changed' /\ n = limiterNow
        OBVIOUS
      <4>2. Between(log, n, n) = log[n]
        BY <1>2, <3>5, <4>1, BetweenOne
      <4>. QED  BY <3>1, <3>5, <4>1, <4>2
    <3>7. \A u \in Seconds : u >= limiterNow + Window => changed'[u] = 0
      BY <1>2, <3>5 DEF Seconds
    <3>8. ASSUME NEW s \in 0..limiterNow, s < limiterNow, limiterNow - s < Window
          PROVE  Between(changed', s, limiterNow - 1) <= WindowRequests
      <4>1. Between(changed', s, limiterNow - 1) = Between(changed, s, limiterNow - 1)
        <5>1. CASE changed' = changed
          BY <5>1
        <5>2. CASE changed' = [changed EXCEPT ![limiterNow] = @ + 1]
          <6>1. PICK log, more, n : log = changed /\ more = changed' /\ n = limiterNow
            OBVIOUS
          <6>2. /\ log \in [Seconds -> Nat] /\ n \in Seconds /\ more \in [Seconds -> Nat]
                /\ more[n] = log[n] + 1 /\ \A u \in Seconds \ {n} : more[u] = log[u]
            BY <1>2, <3>5, <5>2, <6>1
          <6>3. \A x, y \in Seconds : y < n => Between(more, x, y) = Between(log, x, y)
            <7>1. OneMore(log, more, n)
              BY <6>2 DEF OneMore
            <7>. QED  BY <7>1, BetweenCounts
          <6>4. s \in Seconds /\ n - 1 \in Seconds /\ n - 1 < n
            BY <1>2, <3>8, <6>1 DEF Seconds
          <6>. QED  BY <6>1, <6>3, <6>4
        <5>. QED  BY <3>4, <5>1, <5>2
      <4>. QED  BY <3>3, <3>8, <4>1
    <3>9. PICK a \in 0..limiterNow : a = limiterNow
      BY <1>2
    <3>10. LastWindow(a)'
      <4>1. /\ Between(changed', a, limiterNow') <= WindowRequests
            /\ Between(changed', a, limiterNow') <= windows'[Watched].count
        BY <2>1, <3>6, <3>9
      <4>2. \A u \in Seconds : u >= a + Window => changed'[u] = 0
        BY <3>7, <3>9
      <4>3. \A s \in 0..a : s < a /\ a - s < Window => Between(changed', s, a - 1) <= WindowRequests
        BY <3>8, <3>9
      <4>. QED  BY <3>1, <3>9, <4>1, <4>2, <4>3 DEF LastWindow
    <3>. QED  BY <2>1, <3>1, <3>4, <3>10, WindowCounts
  <2>. QED  BY <2>4, <2>5, <2>6
<1>. QED  BY <1>3, <1>4

\* The two limiters (rate-limit.ts, rate-limit-http.ts): over every span of time
\* a client that no crowd pushed out is let through within a full bucket and what
\* the span refills, and within two windows' worth of changes in the time of one.
THEOREM LimitersHold == RateSpec => []WithinBudget
<1>1. RateInit => RateInv
  BY RateAssumption, BucketInit, WindowInit DEF RateInv
<1>2. RateInv /\ [RateNext]_rateVars => RateInv'
  <2>. SUFFICES ASSUME RateInv, [RateNext]_rateVars, crowdedOut' = FALSE PROVE BucketInv' /\ WindowInv'
    BY DEF RateInv
  <2>1. CASE RateSecond
    <3>1. crowdedOut = FALSE
      BY <2>1 DEF RateSecond
    <3>. QED  BY <2>1, <3>1, RateAssumption, BucketSecond, WindowSecond DEF RateInv
  <2>2. ASSUME crowdedOut = FALSE, NEW c \in Clients, NEW mutation \in BOOLEAN, Request(c, mutation)
        PROVE  BucketInv' /\ WindowInv'
    BY <2>2, RateAssumption, BucketRequest, WindowRequest DEF RateInv
  <2>3. CASE UNCHANGED rateVars
    <3>1. UNCHANGED <<buckets, windows, limiterNow, admitted, changed, crowdedOut>>
      BY <2>3 DEF rateVars
    <3>2. BucketInv /\ WindowInv
      BY <3>1 DEF RateInv
    <3>3. Level' = Level
      BY <3>1 DEF Level, Refilled
    <3>4. BucketInv'
      BY <3>1, <3>2, <3>3 DEF BucketInv
    <3>5. WindowInv'
      BY <3>1, <3>2 DEF WindowInv, LastWindow
    <3>. QED  BY <3>4, <3>5
  <2>. QED  BY <2>1, <2>2, <2>3 DEF RateNext
<1>3. RateInv => WithinBudget
  <2>. SUFFICES ASSUME BucketInv, WindowInv, NEW s \in Seconds, NEW t \in Seconds, s <= t
                PROVE  /\ Between(admitted, s, t) <= Capacity + RefillPerSecond * (t - s)
                       /\ t - s < Window => Between(changed, s, t) <= 2 * WindowRequests
    BY DEF RateInv, WithinBudget
  <2>1. /\ limiterNow \in Nat /\ s \in Nat /\ t \in Nat /\ Capacity \in Nat /\ RefillPerSecond \in Nat
        /\ WindowRequests \in Nat /\ 0..limiterNow \subseteq Seconds
    BY RateAssumption DEF BucketInv, Seconds, RateAssumption
  <2>2. CASE t <= limiterNow
    <3>1. s \in 0..limiterNow /\ t \in 0..limiterNow
      BY <2>1, <2>2
    <3>2. Between(admitted, s, t) <= Capacity + RefillPerSecond * (t - s)
      BY <3>1 DEF BucketInv
    <3>3. t - s < Window => Between(changed, s, t) <= 2 * WindowRequests
      BY <3>1 DEF WindowInv
    <3>. QED  BY <3>2, <3>3
  <2>3. CASE t > limiterNow /\ s <= limiterNow
    <3>1. ASSUME NEW log \in [Seconds -> Nat], \A u \in Seconds : u > limiterNow => log[u] = 0
          PROVE  Between(log, s, t) = Between(log, s, limiterNow)
      <4>1. limiterNow + 1 \in Seconds /\ limiterNow \in Seconds
        BY <2>1, <2>3, RateAssumption DEF Seconds, RateAssumption
      <4>2. Between(log, s, t) = Between(log, s, limiterNow) + Between(log, limiterNow + 1, t)
        <5>1. s < limiterNow + 1 /\ limiterNow + 1 <= t /\ (limiterNow + 1) - 1 = limiterNow
          BY <2>1, <2>3
        <5>2. PICK m \in Seconds : m = limiterNow + 1
          BY <4>1
        <5>3. Between(log, s, t) = Between(log, s, m - 1) + Between(log, m, t)
          BY RateAssumption, <5>1, <5>2, BetweenSplit
        <5>. QED  BY <5>1, <5>2, <5>3
      <4>3. Between(log, limiterNow + 1, t) = 0
        <5>1. (limiterNow + 1)..t \subseteq Seconds /\ \A u \in (limiterNow + 1)..t : log[u] = 0
          BY <2>1, <3>1, RateAssumption DEF Seconds, RateAssumption
        <5>2. PICK span : span = (limiterNow + 1)..t
          OBVIOUS
        <5>3. IsFiniteSet(span) /\ Cardinality(span) \in Nat
          BY <2>1, <5>2, FS_Interval, FS_CardinalityType
        <5>4. \A u \in span : log[u] = 0
          BY <5>1, <5>2
        <5>5. SumOver(log, span) = 0 * Cardinality(span)
          BY <5>3, <5>4, SumConstant
        <5>. QED  BY <5>2, <5>3, <5>5 DEF Between
      <4>4. Between(log, s, limiterNow) \in Nat
        BY RateAssumption, <4>1, BetweenNat
      <4>. QED  BY <4>2, <4>3, <4>4
    <3>2. /\ Between(admitted, s, t) = Between(admitted, s, limiterNow)
          /\ Between(changed, s, t) = Between(changed, s, limiterNow)
      BY <3>1 DEF BucketInv, WindowInv
    <3>3. s \in 0..limiterNow /\ limiterNow \in 0..limiterNow
      BY <2>1, <2>3
    <3>4. Between(admitted, s, limiterNow) <= Capacity + RefillPerSecond * (limiterNow - s)
      BY <2>3, <3>3 DEF BucketInv
    <3>5. RefillPerSecond * (limiterNow - s) <= RefillPerSecond * (t - s)
      <4>1. (limiterNow - s) * RefillPerSecond <= RefillPerSecond * (t - s)
        <5>1. limiterNow - s \in Nat /\ t - s \in Nat /\ limiterNow - s <= t - s
          BY <2>1, <2>3
        <5>. QED  BY <2>1, <5>1, RateWithin
      <4>. QED  BY <2>1, <4>1
    <3>6. /\ RefillPerSecond * (limiterNow - s) \in Int /\ RefillPerSecond * (t - s) \in Int
          /\ Between(admitted, s, limiterNow) \in Nat
      <4>1. limiterNow \in Seconds /\ admitted \in [Seconds -> Nat]
        BY DEF BucketInv
      <4>. QED  BY <2>1, <4>1, RateAssumption, BetweenNat
    <3>7. t - s < Window => Between(changed, s, limiterNow) <= 2 * WindowRequests
      <4>1. t - s < Window => limiterNow - s < Window
        BY <2>1, <2>3, RateAssumption DEF RateAssumption
      <4>. QED  BY <2>3, <3>3, <4>1 DEF WindowInv
    <3>. QED  BY <2>1, <3>2, <3>4, <3>5, <3>6, <3>7
  <2>4. CASE t > limiterNow /\ s > limiterNow
    <3>1. ASSUME NEW log, \A u \in Seconds : u > limiterNow => log[u] = 0
          PROVE  Between(log, s, t) = 0
      <4>1. s..t \subseteq Seconds /\ \A u \in s..t : log[u] = 0
        BY <2>1, <2>4, <3>1, RateAssumption DEF Seconds, RateAssumption
      <4>2. PICK span : span = s..t
        OBVIOUS
      <4>3. IsFiniteSet(span) /\ Cardinality(span) \in Nat
        BY <2>1, <4>2, FS_Interval, FS_CardinalityType
      <4>4. \A u \in span : log[u] = 0
        BY <4>1, <4>2
      <4>5. SumOver(log, span) = 0 * Cardinality(span)
        BY <4>3, <4>4, SumConstant
      <4>. QED  BY <4>2, <4>3, <4>5 DEF Between
    <3>2. Between(admitted, s, t) = 0 /\ Between(changed, s, t) = 0
      BY <3>1 DEF BucketInv, WindowInv
    <3>3. RefillPerSecond * (t - s) \in Nat
      BY <2>1
    <3>. QED  BY <2>1, <3>2, <3>3
  <2>. QED  BY <2>1, <2>2, <2>3, <2>4
<1>. QED  BY <1>1, <1>2, <1>3, PTL DEF RateSpec
-----------------------------------------------------------------------------
(* The wallet bar. *)

BarSpec == BarInit /\ [][BarNext]_barVars

Signals == [kind : {"accountsChanged", "chainChanged", "disconnect"},
            value : EvmAccounts \cup {None, Mainnet, OtherChain}]
Answers == {"authorityChain", "authorityAccounts", "confirm"}

\* An event on its way will end a connection of this address.
Told(address) == \E i \in DOMAIN signals : Invalidates(signals[i], address)

AccountHolds(address) == evmWallet.account = address \/ Told(address)
ChainHolds(address) == evmWallet.chain = Mainnet \/ Told(address)

BarSteps == {"discover", "accounts", "chain", "switch", "rechain", "reaccounts", "over"} \cup Answers
Session == [step : BarSteps, address : EvmAccounts \cup {None}, generation : Nat]

BarTypes ==
  /\ signals \in Seq(Signals)
  /\ evmWallet \in [account : EvmAccounts \cup {None}, chain : {Mainnet, OtherChain}]
  /\ DOMAIN bar = {"generation", "session", "busy", "shown"} /\ bar.generation \in Nat
  /\ connections \in Seq(Session)
  /\ \A c \in DOMAIN connections : connections[c].generation <= bar.generation
  /\ \A c, d \in DOMAIN connections : connections[c].generation = connections[d].generation => c = d

\* The connection that is still wanted has the bar, and what it asked so far
\* holds or its end is announced; until it is over the bar shows no address.
Underway(c) ==
  /\ Step(c) \in Answers =>
       /\ bar.session = c /\ c \in watching
       /\ AccountHolds(connections[c].address)
  /\ Step(c) \in {"authorityAccounts", "confirm"} => ChainHolds(connections[c].address)
  /\ Step(c) # "over" => bar.shown = None

BarConnected ==
  /\ bar.session \in DOMAIN connections /\ bar.session \in watching
  /\ Current(bar.session) /\ Step(bar.session) = "over"
  /\ AccountHolds(bar.shown) /\ ChainHolds(bar.shown)
  /\ connections[bar.session].address = bar.shown

BarInv ==
  /\ BarTypes
  /\ \A c \in DOMAIN connections : Current(c) => Underway(c)
  /\ bar.shown # None => BarConnected

\* The wallet announces what it no longer shows.
LEMMA WalletAnnounces ==
  ASSUME BarTypes, NEW w \in [account : EvmAccounts \cup {None}, chain : {Mainnet, OtherChain}],
         evmWallet' = w, signals' = Announced(w)
  PROVE  /\ signals' \in Seq(Signals)
         /\ \A a : AccountHolds(a) => AccountHolds(a)'
         /\ \A a : ChainHolds(a) => ChainHolds(a)'
<1>1. signals \in Seq(Signals)
  BY DEF BarTypes
<1>2. PICK first : first = (IF w.account = evmWallet.account THEN <<>>
                           ELSE <<[kind |-> "accountsChanged", value |-> w.account]>>)
  OBVIOUS
<1>3. PICK second : second = (IF w.chain = evmWallet.chain THEN <<>>
                            ELSE <<[kind |-> "chainChanged", value |-> w.chain]>>)
  OBVIOUS
<1>4. first \in Seq(Signals)
  <2>1. [kind |-> "accountsChanged", value |-> w.account] \in Signals
    BY DEF Signals
  <2>. QED  BY <1>2, <2>1
<1>5. second \in Seq(Signals)
  <2>1. [kind |-> "chainChanged", value |-> w.chain] \in Signals
    BY DEF Signals
  <2>. QED  BY <1>3, <2>1
<1>6. signals' = signals \o first \o second
  BY <1>2, <1>3 DEF Announced
<1>7. PICK half : half = signals \o first
  OBVIOUS
<1>8. /\ half \in Seq(Signals) /\ Len(half) = Len(signals) + Len(first)
      /\ \A i \in 1..Len(signals) : half[i] = signals[i]
      /\ \A i \in 1..Len(first) : half[Len(signals) + i] = first[i]
  BY <1>1, <1>4, <1>7
<1>9. /\ signals' \in Seq(Signals) /\ Len(signals') = Len(half) + Len(second)
      /\ \A i \in 1..Len(half) : signals'[i] = half[i]
      /\ \A i \in 1..Len(second) : signals'[Len(half) + i] = second[i]
  BY <1>5, <1>6, <1>7, <1>8
<1>10. ASSUME NEW a, Told(a) PROVE Told(a)'
  <2>1. PICK i \in 1..Len(signals) : Invalidates(signals[i], a)
    BY <1>1, <1>10 DEF Told
  <2>2. i \in DOMAIN signals' /\ signals'[i] = signals[i]
    BY <1>1, <1>4, <1>5, <1>8, <1>9
  <2>. QED  BY <2>1, <2>2 DEF Told
<1>11. ASSUME NEW a, w.account # evmWallet.account, w.account # a PROVE Told(a)'
  <2>1. PICK e : e = [kind |-> "accountsChanged", value |-> w.account]
    OBVIOUS
  <2>2. Invalidates(e, a)
    BY <1>11, <2>1 DEF Invalidates
  <2>3. first = <<e>> /\ Len(first) = 1 /\ first[1] = e
    BY <1>2, <1>11, <2>1
  <2>4. Len(signals) + 1 \in DOMAIN signals' /\ signals'[Len(signals) + 1] = e
    BY <1>1, <1>5, <1>8, <1>9, <2>3
  <2>. QED  BY <2>2, <2>4 DEF Told
<1>12. ASSUME NEW a, w.chain # evmWallet.chain, w.chain # Mainnet PROVE Told(a)'
  <2>1. PICK e : e = [kind |-> "chainChanged", value |-> w.chain]
    OBVIOUS
  <2>2. Invalidates(e, a)
    BY <1>12, <2>1 DEF Invalidates
  <2>3. second = <<e>> /\ Len(second) = 1 /\ second[1] = e
    BY <1>3, <1>12, <2>1
  <2>4. Len(half) + 1 \in DOMAIN signals' /\ signals'[Len(half) + 1] = e
    BY <1>8, <1>9, <2>3
  <2>. QED  BY <2>2, <2>4 DEF Told
<1>. QED  BY <1>9, <1>10, <1>11, <1>12 DEF AccountHolds, ChainHolds

\* What a step of one connection leaves of the others.
LEMMA OneMoves ==
  ASSUME BarTypes, NEW c \in DOMAIN connections, NEW s \in BarSteps, To(c, s)
  PROVE  /\ connections' \in Seq(Session) /\ DOMAIN connections' = DOMAIN connections
         /\ connections'[c].step = s
         /\ connections'[c].address = connections[c].address
         /\ \A d \in DOMAIN connections :
              /\ connections'[d].generation = connections[d].generation
              /\ d # c => connections'[d] = connections[d]
<1>1. connections \in Seq(Session) /\ connections[c] \in Session
  BY DEF BarTypes
<1>2. PICK r : r = [connections[c] EXCEPT !.step = s]
  OBVIOUS
<1>3. r \in Session /\ r.step = s /\ r.address = connections[c].address /\ r.generation = connections[c].generation
  BY <1>1, <1>2 DEF Session
<1>4. connections' = [connections EXCEPT ![c] = r]
  BY <1>2 DEF To
<1>5. connections' \in Seq(Session) /\ DOMAIN connections' = DOMAIN connections
  BY <1>1, <1>3, <1>4
<1>6. connections'[c] = r /\ \A d \in DOMAIN connections : d # c => connections'[d] = connections[d]
  BY <1>1, <1>4
<1>7. \A d \in DOMAIN connections : connections'[d].generation = connections[d].generation
  BY <1>3, <1>6
<1>. QED  BY <1>3, <1>5, <1>6, <1>7

\* A connection that goes on, while the wallet keeps or announces what it showed.
LEMMA StepKeeps ==
  ASSUME BarInv, NEW c \in DOMAIN connections, Step(c) # "over",
         connections' \in Seq(Session), DOMAIN connections' = DOMAIN connections,
         \A d \in DOMAIN connections :
           /\ connections'[d].generation = connections[d].generation
           /\ d # c => connections'[d] = connections[d],
         UNCHANGED <<bar, watching>>,
         evmWallet' \in [account : EvmAccounts \cup {None}, chain : {Mainnet, OtherChain}],
         signals' \in Seq(Signals),
         \A a : AccountHolds(a) => AccountHolds(a)',
         \A a : ChainHolds(a) => ChainHolds(a)',
         Current(c) => Underway(c)'
  PROVE  BarInv'
<1>1. /\ connections' \in Seq(Session) /\ DOMAIN connections' = DOMAIN connections
      /\ \A d \in DOMAIN connections :
           /\ connections'[d].generation = connections[d].generation
           /\ d # c => connections'[d] = connections[d]
  OBVIOUS
<1>2. BarTypes'
  BY <1>1 DEF BarInv, BarTypes
<1>3. ASSUME NEW d \in DOMAIN connections', Current(d)' PROVE Underway(d)'
  <2>1. d \in DOMAIN connections /\ Current(d)
    BY <1>1, <1>3 DEF Current
  <2>2. CASE d = c
    BY <2>1, <2>2
  <2>3. CASE d # c
    BY <1>1, <2>1, <2>3 DEF BarInv, Underway, Step
  <2>. QED  BY <2>2, <2>3
<1>4. ASSUME bar'.shown # None PROVE BarConnected'
  BY <1>1, <1>4 DEF BarInv, BarConnected, Current, Step
<1>. QED  BY <1>2, <1>3, <1>4 DEF BarInv

\* A connection that gives up: the bar is its own, or a newer one's.
LEMMA GiveUpKeeps ==
  ASSUME BarInv, NEW c \in DOMAIN connections, Step(c) # "over", GiveUp(c),
         UNCHANGED <<evmWallet, signals>>
  PROVE  BarInv'
<1>1. /\ connections' \in Seq(Session) /\ DOMAIN connections' = DOMAIN connections
      /\ connections'[c].step = "over"
      /\ connections'[c].address = connections[c].address
      /\ \A d \in DOMAIN connections :
           /\ connections'[d].generation = connections[d].generation
           /\ d # c => connections'[d] = connections[d]
  <2>1. BarTypes /\ To(c, "over") /\ "over" \in BarSteps
    BY DEF BarInv, GiveUp, BarSteps
  <2>. QED  BY <2>1, OneMoves
<1>2. \A a : AccountHolds(a)' = AccountHolds(a) /\ ChainHolds(a)' = ChainHolds(a)
  BY DEF AccountHolds, ChainHolds, Told
<1>3. CASE Current(c)
  <2>1. bar' = [bar EXCEPT !.session = None, !.busy = FALSE, !.shown = None]
    BY <1>3 DEF GiveUp
  <2>2. /\ DOMAIN bar' = DOMAIN bar /\ bar'.generation = bar.generation /\ bar'.shown = None
    BY <2>1 DEF BarInv, BarTypes
  <2>3. BarTypes'
    BY <1>1, <2>2 DEF BarInv, BarTypes
  <2>4. ASSUME NEW d \in DOMAIN connections', Current(d)' PROVE Underway(d)'
    <3>1. d \in DOMAIN connections /\ connections'[d].generation = connections[d].generation
      BY <1>1, <2>4
    <3>3. connections[d].generation = connections[c].generation
      BY <1>3, <2>2, <2>4, <3>1 DEF Current
    <3>2. d = c
      BY <3>1, <3>3 DEF BarInv, BarTypes
    <3>. QED  BY <1>1, <3>2 DEF Underway, Step, Answers
  <2>. QED  BY <2>2, <2>3, <2>4 DEF BarInv
<1>4. CASE ~Current(c)
  <2>1. UNCHANGED <<bar, watching>>
    BY <1>4 DEF GiveUp
  <2>2. To(c, "over")
    BY DEF GiveUp
  <2>3. evmWallet' = evmWallet /\ signals' = signals
    OBVIOUS
  <2>4. /\ evmWallet' \in [account : EvmAccounts \cup {None}, chain : {Mainnet, OtherChain}]
        /\ signals' \in Seq(Signals) /\ "over" \in BarSteps
    BY <2>3 DEF BarInv, BarTypes, BarSteps
  <2>5. ~Current(c)
    BY <1>4
  <2>. QED  BY <1>1, <1>2, <2>1, <2>4, <2>5, StepKeeps
<1>. QED  BY <1>3, <1>4

\* The bar starts unconnected.
LEMMA BarStarts == ASSUME BarInit PROVE BarInv
<1>1. /\ signals = <<>> /\ connections = <<>>
      /\ bar = [generation |-> 0, session |-> None, busy |-> FALSE, shown |-> None]
      /\ evmWallet \in [account : EvmAccounts \cup {None}, chain : {Mainnet, OtherChain}]
  BY DEF BarInit
<1>2. DOMAIN connections = {} /\ bar.shown = None /\ bar.generation = 0
      /\ DOMAIN bar = {"generation", "session", "busy", "shown"}
  BY <1>1
<1>. QED  BY <1>1, <1>2 DEF BarInv, BarTypes

\* A forgotten connection is no longer current, and no address is shown.
LEMMA ForgottenKeeps ==
  ASSUME BarInv, bar'.generation = bar.generation + 1, bar'.shown = None, DOMAIN bar' = DOMAIN bar,
         signals' \in Seq(Signals), UNCHANGED <<evmWallet, connections>>
  PROVE  BarInv'
<1>1. /\ bar.generation \in Nat /\ connections \in Seq(Session)
      /\ \A c \in DOMAIN connections : connections[c] \in Session
      /\ \A c \in DOMAIN connections : connections[c].generation <= bar.generation
  BY DEF BarInv, BarTypes
<1>2. \A c \in DOMAIN connections :
        /\ connections[c].generation < bar'.generation /\ connections[c].generation \in Nat
  BY <1>1 DEF Session
<1>3. BarTypes'
  <2>1. bar'.generation \in Nat /\ \A c \in DOMAIN connections : connections[c].generation <= bar'.generation
    BY <1>1, <1>2
  <2>. QED  BY <2>1 DEF BarInv, BarTypes
<1>4. \A c \in DOMAIN connections' : ~Current(c)'
  BY <1>1, <1>2 DEF Current
<1>. QED  BY <1>3, <1>4 DEF BarInv

\* A question to the wallet and its answer.
LEMMA QuestionKeeps ==
  ASSUME BarInv, NEW c \in DOMAIN connections,
         \/ Discover(c) \/ RequestAccounts(c) \/ ReadChain(c) \/ SwitchToMainnet(c) \/ RereadChain(c)
         \/ RereadAccounts(c) \/ ReadAuthorityChain(c) \/ ReadAuthorityAccounts(c) \/ Confirm(c)
  PROVE  BarInv'
<1>1. BarTypes /\ (Current(c) => Underway(c))
  BY DEF BarInv
<1>2. Step(c) # "over"
  BY DEF Discover, RequestAccounts, ReadChain, SwitchToMainnet, RereadChain,
         RereadAccounts, ReadAuthorityChain, ReadAuthorityAccounts, Confirm
<1>3. /\ signals \in Seq(Signals) /\ connections[c] \in Session /\ connections \in Seq(Session)
      /\ evmWallet \in [account : EvmAccounts \cup {None}, chain : {Mainnet, OtherChain}]
  BY <1>1 DEF BarTypes
<1>4. ASSUME UNCHANGED <<evmWallet, signals>>
      PROVE  \A a : AccountHolds(a)' = AccountHolds(a) /\ ChainHolds(a)' = ChainHolds(a)
  BY <1>4 DEF AccountHolds, ChainHolds, Told
\* An answer that lets the connection go on.
<1>5. ASSUME NEW s \in BarSteps, Onward(c, s), UNCHANGED <<evmWallet, signals>>,
             Current(c) =>
               /\ s \in Answers => Step(c) \in Answers
               /\ s \in {"authorityAccounts", "confirm"} => ChainHolds(connections[c].address)
               /\ s = "over" => Step(c) = "over"
      PROVE  BarInv'
  <2>1. To(c, s) /\ UNCHANGED <<bar, watching>>
    BY <1>5 DEF Onward
  <2>2. /\ connections' \in Seq(Session) /\ DOMAIN connections' = DOMAIN connections
        /\ connections'[c].step = s
        /\ connections'[c].address = connections[c].address
        /\ \A d \in DOMAIN connections :
             /\ connections'[d].generation = connections[d].generation
             /\ d # c => connections'[d] = connections[d]
    BY <1>1, <2>1, OneMoves
  <2>3. Current(c) => Underway(c)'
    BY <1>1, <1>2, <1>4, <1>5, <2>1, <2>2 DEF Underway, Step
  <2>4. evmWallet' \in [account : EvmAccounts \cup {None}, chain : {Mainnet, OtherChain}]
    BY <1>3, <1>5
  <2>5. signals' \in Seq(Signals)
    BY <1>3, <1>5
  <2>. QED  BY <1>2, <1>4, <1>5, <2>1, <2>2, <2>3, <2>4, <2>5, StepKeeps
<1>6. ASSUME GiveUp(c), UNCHANGED <<evmWallet, signals>> PROVE BarInv'
  BY <1>2, <1>6, GiveUpKeeps
<1>7. CASE Discover(c)
  <2>1. UNCHANGED <<evmWallet, signals>>
    BY <1>7 DEF Discover
  <2>2. CASE GiveUp(c)
    BY <1>6, <2>1, <2>2
  <2>3. CASE ~GiveUp(c)
    <3>1. Onward(c, "accounts")
      BY <1>7, <2>3 DEF Discover, Onward
    <3>. QED  BY <1>5, <2>1, <3>1 DEF BarSteps, Answers
  <2>. QED  BY <2>2, <2>3
<1>8. CASE RequestAccounts(c)
  <2>1. UNCHANGED <<evmWallet, signals>>
    BY <1>8 DEF RequestAccounts
  <2>2. CASE GiveUp(c)
    BY <1>6, <2>1, <2>2
  <2>3. CASE ~GiveUp(c)
    <3>1. /\ connections' = [connections EXCEPT ![c].step = "chain", ![c].address = evmWallet.account]
          /\ UNCHANGED <<bar, watching>> /\ Step(c) = "accounts"
      BY <1>8, <2>3 DEF RequestAccounts
    <3>2. PICK r : r = [connections[c] EXCEPT !.step = "chain", !.address = evmWallet.account]
      OBVIOUS
    <3>3. r \in Session /\ r.step = "chain" /\ r.generation = connections[c].generation
      BY <1>3, <3>2 DEF Session, BarSteps
    <3>4. connections' = [connections EXCEPT ![c] = r]
      <4>1. /\ DOMAIN connections' = DOMAIN connections
            /\ \A d \in DOMAIN connections : d # c => connections'[d] = connections[d]
            /\ connections'[c] = r
        BY <3>1, <3>2
      <4>. QED  BY <3>1, <3>2, <4>1
    <3>5. /\ connections' \in Seq(Session) /\ DOMAIN connections' = DOMAIN connections
          /\ connections'[c] = r
          /\ \A d \in DOMAIN connections : d # c => connections'[d] = connections[d]
      BY <1>3, <3>3, <3>4
    <3>6. \A d \in DOMAIN connections :
            /\ connections'[d].generation = connections[d].generation
            /\ d # c => connections'[d] = connections[d]
      BY <3>3, <3>5
    <3>7. Current(c) => Underway(c)'
      BY <1>1, <1>2, <3>1, <3>3, <3>5 DEF Underway, Step, Answers
    <3>8. evmWallet' \in [account : EvmAccounts \cup {None}, chain : {Mainnet, OtherChain}]
      BY <1>3, <2>1
    <3>9. signals' \in Seq(Signals)
      BY <1>3, <2>1
    <3>. QED  BY <1>2, <1>4, <2>1, <3>1, <3>5, <3>6, <3>7, <3>8, <3>9, StepKeeps
  <2>. QED  BY <2>2, <2>3
<1>9. CASE ReadChain(c)
  <2>1. UNCHANGED <<evmWallet, signals>>
    BY <1>9 DEF ReadChain
  <2>2. CASE Onward(c, "rechain")
    BY <1>5, <2>1, <2>2 DEF BarSteps, Answers
  <2>3. CASE Onward(c, "switch")
    BY <1>5, <2>1, <2>3 DEF BarSteps, Answers
  <2>. QED  BY <1>9, <2>2, <2>3 DEF ReadChain
<1>10. CASE SwitchToMainnet(c)
  <2>1. CASE GiveUp(c) /\ UNCHANGED <<evmWallet, signals>>
    BY <1>6, <2>1
  <2>2. CASE ~(GiveUp(c) /\ UNCHANGED <<evmWallet, signals>>)
    <3>1. PICK w : w = [evmWallet EXCEPT !.chain = Mainnet]
      OBVIOUS
    <3>2. evmWallet' = w /\ signals' = Announced(w) /\ Onward(c, "rechain")
      BY <1>10, <2>2, <3>1 DEF SwitchToMainnet
    <3>3. w \in [account : EvmAccounts \cup {None}, chain : {Mainnet, OtherChain}]
      BY <1>3, <3>1
    <3>4. /\ signals' \in Seq(Signals)
          /\ \A a : AccountHolds(a) => AccountHolds(a)'
          /\ \A a : ChainHolds(a) => ChainHolds(a)'
      BY <1>1, <3>2, <3>3, WalletAnnounces
    <3>5. To(c, "rechain") /\ UNCHANGED <<bar, watching>> /\ "rechain" \in BarSteps
      BY <3>2 DEF Onward, BarSteps
    <3>6. /\ connections' \in Seq(Session) /\ DOMAIN connections' = DOMAIN connections
          /\ connections'[c].step = "rechain"
          /\ \A d \in DOMAIN connections :
               /\ connections'[d].generation = connections[d].generation
               /\ d # c => connections'[d] = connections[d]
      BY <1>1, <3>5, OneMoves
    <3>7. Current(c) => Underway(c)'
      BY <1>1, <1>2, <3>5, <3>6 DEF Underway, Step, Answers
    <3>8. evmWallet' \in [account : EvmAccounts \cup {None}, chain : {Mainnet, OtherChain}]
      BY <3>2, <3>3
    <3>. QED  BY <1>2, <3>4, <3>5, <3>6, <3>7, <3>8, StepKeeps
  <2>. QED  BY <2>1, <2>2
<1>11. CASE RereadChain(c)
  <2>1. UNCHANGED <<evmWallet, signals>>
    BY <1>11 DEF RereadChain
  <2>2. CASE Onward(c, "reaccounts")
    BY <1>5, <2>1, <2>2 DEF BarSteps, Answers
  <2>. QED  BY <1>6, <1>11, <2>1, <2>2 DEF RereadChain
<1>12. CASE RereadAccounts(c)
  <2>1. UNCHANGED <<evmWallet, signals>>
    BY <1>12 DEF RereadAccounts
  <2>2. CASE ~Current(c)
    <3>1. Onward(c, "over")
      BY <1>12, <2>2 DEF RereadAccounts
    <3>. QED  BY <1>5, <2>1, <2>2, <3>1 DEF BarSteps
  <2>3. CASE GiveUp(c)
    BY <1>6, <2>1, <2>3
  <2>4. CASE Current(c) /\ ~GiveUp(c)
    <3>1. /\ evmWallet.account = connections[c].address /\ To(c, "authorityChain")
          /\ watching' = watching \cup {c} /\ bar' = [bar EXCEPT !.session = c]
      BY <1>12, <2>4 DEF RereadAccounts, Subscribe
    <3>2. /\ DOMAIN bar' = DOMAIN bar /\ bar'.generation = bar.generation
          /\ bar'.session = c /\ bar'.shown = bar.shown /\ bar.generation \in Nat
      BY <1>1, <3>1 DEF BarTypes
    <3>3. "authorityChain" \in BarSteps
      BY DEF BarSteps, Answers
    <3>4. /\ connections' \in Seq(Session) /\ DOMAIN connections' = DOMAIN connections
          /\ connections'[c].step = "authorityChain"
          /\ connections'[c].address = connections[c].address
          /\ \A d \in DOMAIN connections :
               /\ connections'[d].generation = connections[d].generation
               /\ d # c => connections'[d] = connections[d]
      BY <1>1, <3>1, <3>3, OneMoves
    <3>5. BarTypes'
      BY <1>1, <2>1, <3>2, <3>4 DEF BarTypes
    <3>6. bar.shown = None
      BY <1>1, <1>2, <2>4 DEF Underway
    <3>7. Underway(c)'
      BY <1>4, <2>1, <3>1, <3>2, <3>4, <3>6 DEF Underway, Step, Answers, AccountHolds
    <3>8. ASSUME NEW d \in DOMAIN connections', Current(d)' PROVE Underway(d)'
      <4>1. d = c
        <5>1. Current(c)
          BY <2>4
        <5>2. d \in DOMAIN connections /\ connections[d].generation = connections[c].generation
          BY <3>2, <3>4, <3>8, <5>1 DEF Current
        <5>. QED  BY <1>1, <5>2 DEF BarTypes
      <4>. QED  BY <3>7, <4>1
    <3>. QED  BY <3>2, <3>5, <3>6, <3>8 DEF BarInv
  <2>. QED  BY <2>2, <2>3, <2>4
<1>13. CASE ReadAuthorityChain(c)
  <2>1. UNCHANGED <<evmWallet, signals>> /\ Step(c) = "authorityChain"
    BY <1>13 DEF ReadAuthorityChain
  <2>2. CASE evmWallet.chain = Mainnet
    <3>1. Onward(c, "authorityAccounts")
      BY <1>13, <2>2 DEF ReadAuthorityChain
    <3>2. ChainHolds(connections[c].address)
      BY <2>2 DEF ChainHolds
    <3>. QED  BY <1>5, <2>1, <3>1, <3>2 DEF BarSteps, Answers
  <2>3. CASE evmWallet.chain # Mainnet
    BY <1>6, <1>13, <2>1, <2>3 DEF ReadAuthorityChain
  <2>. QED  BY <2>2, <2>3
<1>14. CASE ReadAuthorityAccounts(c)
  <2>1. UNCHANGED <<evmWallet, signals>> /\ Step(c) = "authorityAccounts"
    BY <1>14 DEF ReadAuthorityAccounts
  <2>2. CASE Onward(c, "confirm")
    <3>1. Current(c) => ChainHolds(connections[c].address)
      BY <1>1, <2>1 DEF Underway
    <3>. QED  BY <1>5, <2>1, <2>2, <3>1 DEF BarSteps, Answers
  <2>. QED  BY <1>6, <1>14, <2>1, <2>2 DEF ReadAuthorityAccounts
<1>15. CASE Confirm(c)
  <2>1. UNCHANGED <<evmWallet, signals>> /\ Step(c) = "confirm" /\ To(c, "over") /\ "over" \in BarSteps
    BY <1>15 DEF Confirm, BarSteps
  <2>2. /\ connections' \in Seq(Session) /\ DOMAIN connections' = DOMAIN connections
        /\ connections'[c].step = "over"
        /\ connections'[c].address = connections[c].address
        /\ \A d \in DOMAIN connections :
             /\ connections'[d].generation = connections[d].generation
             /\ d # c => connections'[d] = connections[d]
    BY <1>1, <2>1, OneMoves
  <2>3. CASE Current(c) /\ c \in watching
    <3>1. bar' = [bar EXCEPT !.shown = connections[c].address, !.busy = FALSE] /\ UNCHANGED watching
      BY <1>15, <2>3 DEF Confirm
    <3>2. /\ DOMAIN bar' = DOMAIN bar /\ bar'.generation = bar.generation
          /\ bar'.session = bar.session /\ bar'.shown = connections[c].address
      BY <1>1, <3>1 DEF BarTypes
    <3>3. BarTypes'
      BY <1>1, <2>1, <2>2, <3>2 DEF BarTypes
    <3>4. /\ bar.session = c /\ AccountHolds(connections[c].address)
          /\ ChainHolds(connections[c].address)
      BY <1>1, <2>1, <2>3 DEF Underway, Answers
    <3>5. BarConnected'
      BY <1>4, <2>1, <2>2, <2>3, <3>1, <3>2, <3>4 DEF BarConnected, Current, Step
    <3>6. ASSUME NEW d \in DOMAIN connections', Current(d)' PROVE Underway(d)'
      <4>1. d = c
        <5>1. d \in DOMAIN connections /\ connections'[d].generation = connections[d].generation
          BY <2>2, <3>6
        <5>2. connections[d].generation = connections[c].generation
          BY <2>3, <3>2, <3>6, <5>1 DEF Current
        <5>. QED  BY <1>1, <5>1, <5>2 DEF BarTypes
      <4>. QED  BY <2>2, <4>1 DEF Underway, Step, Answers
    <3>. QED  BY <3>3, <3>5, <3>6 DEF BarInv
  <2>4. CASE ~(Current(c) /\ c \in watching)
    <3>1. ~Current(c)
      BY <1>1, <2>1, <2>4 DEF Underway, Answers
    <3>2. /\ bar' = IF bar.session = c THEN [bar EXCEPT !.session = None] ELSE bar
          /\ watching' = watching \ {c}
      BY <1>15, <2>4 DEF Confirm
    <3>3. /\ DOMAIN bar' = DOMAIN bar /\ bar'.generation = bar.generation /\ bar'.shown = bar.shown
          /\ bar.session # c => bar' = bar
      BY <1>1, <3>2 DEF BarTypes
    <3>4. BarTypes'
      BY <1>1, <2>1, <2>2, <3>3 DEF BarTypes
    <3>5. ASSUME NEW d \in DOMAIN connections', Current(d)' PROVE Underway(d)'
      <4>1. d \in DOMAIN connections /\ Current(d) /\ d # c /\ Underway(d) /\ connections'[d] = connections[d]
        BY <2>2, <3>1, <3>3, <3>5 DEF Current, BarInv
      <4>2. Step(d) \in Answers => bar' = bar /\ d \in watching'
        BY <3>2, <3>3, <4>1 DEF Underway
      <4>. QED  BY <1>4, <2>1, <3>3, <4>1, <4>2 DEF Underway, Step
    <3>6. ASSUME bar'.shown # None PROVE BarConnected'
      <4>1. BarConnected
        BY <3>3, <3>6 DEF BarInv
      <4>2. bar.session # c /\ bar' = bar /\ bar.session \in watching'
        BY <2>1, <3>2, <3>3, <4>1 DEF BarConnected
      <4>. QED  BY <1>4, <2>1, <2>2, <4>1, <4>2 DEF BarConnected, Current, Step
    <3>. QED  BY <3>4, <3>5, <3>6 DEF BarInv
  <2>. QED  BY <2>3, <2>4
<1>. QED  BY <1>7, <1>8, <1>9, <1>10, <1>11, <1>12, <1>13, <1>14, <1>15

\* Every step of the wallet, of its events and of the bar keeps it.
LEMMA BarKeeps == ASSUME BarInv, BarNext PROVE BarInv'
<1>1. BarTypes
  BY DEF BarInv
<1>2. ASSUME WalletMoves \/ WalletDisconnects PROVE BarInv'
  <2>1. /\ signals' \in Seq(Signals)
        /\ evmWallet' \in [account : EvmAccounts \cup {None}, chain : {Mainnet, OtherChain}]
        /\ \A a : AccountHolds(a) => AccountHolds(a)'
        /\ \A a : ChainHolds(a) => ChainHolds(a)'
    <3>1. CASE WalletMoves
      <4>1. PICK w \in [account : EvmAccounts \cup {None}, chain : {Mainnet, OtherChain}] :
              evmWallet' = w /\ signals' = Announced(w)
        BY <3>1 DEF WalletMoves
      <4>. QED  BY <1>1, <4>1, WalletAnnounces
    <3>2. CASE WalletDisconnects
      <4>1. PICK e : e = [kind |-> "disconnect", value |-> None]
        OBVIOUS
      <4>2. e \in Signals
        BY <4>1 DEF Signals
      <4>3. signals' = Append(signals, e) /\ evmWallet' = evmWallet /\ signals \in Seq(Signals)
        BY <1>1, <3>2, <4>1 DEF WalletDisconnects, BarTypes
      <4>4. /\ signals' \in Seq(Signals)
            /\ \A i \in DOMAIN signals : i \in DOMAIN signals' /\ signals'[i] = signals[i]
        BY <4>2, <4>3
      <4>5. \A a : Told(a) => Told(a)'
        BY <4>4 DEF Told
      <4>. QED  BY <1>1, <4>3, <4>4, <4>5 DEF BarTypes, AccountHolds, ChainHolds
    <3>. QED  BY <1>2, <3>1, <3>2
  <2>2. UNCHANGED <<watching, bar, connections>>
    BY <1>2 DEF WalletMoves, WalletDisconnects
  <2>3. BarTypes'
    BY <1>1, <2>1, <2>2 DEF BarTypes
  <2>4. ASSUME NEW c \in DOMAIN connections', Current(c)' PROVE Underway(c)'
    <3>1. c \in DOMAIN connections /\ Current(c)
      BY <2>2, <2>4 DEF Current
    <3>2. Underway(c)
      BY <3>1 DEF BarInv
    <3>. QED  BY <2>1, <2>2, <3>2 DEF Underway, Step
  <2>5. ASSUME bar'.shown # None PROVE BarConnected'
    <3>1. BarConnected
      BY <2>2, <2>5 DEF BarInv
    <3>. QED  BY <2>1, <2>2, <3>1 DEF BarConnected, Current, Step
  <2>. QED  BY <2>3, <2>4, <2>5 DEF BarInv
<1>3. ASSUME DeliverSignal PROVE BarInv'
  <2>1. /\ signals # <<>> /\ signals' = Tail(signals) /\ signals \in Seq(Signals)
        /\ UNCHANGED <<evmWallet, connections>>
    BY <1>1, <1>3 DEF DeliverSignal, BarTypes
  <2>2. PICK lost : lost = {c \in watching : Invalidates(Head(signals), connections[c].address)}
    OBVIOUS
  <2>3. /\ watching' = watching \ lost
        /\ bar' = IF \E c \in lost : Current(c) /\ bar.session = c
                  THEN [generation |-> bar.generation + 1, session |-> None,
                        busy |-> FALSE, shown |-> None]
                  ELSE bar
    BY <1>3, <2>2 DEF DeliverSignal
  <2>4. /\ signals' \in Seq(Signals) /\ Len(signals') = Len(signals) - 1
        /\ \A i \in 1..Len(signals') : signals'[i] = signals[i + 1]
        /\ signals[1] = Head(signals) /\ Len(signals) \in Nat /\ Len(signals) > 0
    BY <2>1
  <2>5. CASE \E c \in lost : Current(c) /\ bar.session = c
    <3>1. /\ bar'.generation = bar.generation + 1 /\ bar'.shown = None
          /\ DOMAIN bar' = {"generation", "session", "busy", "shown"}
      BY <2>3, <2>5
    <3>. QED  BY <1>1, <2>1, <2>4, <3>1, ForgottenKeeps DEF BarTypes
  <2>6. CASE ~\E c \in lost : Current(c) /\ bar.session = c
    <3>1. bar' = bar
      BY <2>3, <2>6
    <3>2. BarTypes'
      BY <1>1, <2>1, <2>4, <3>1 DEF BarTypes
    <3>3. ASSUME NEW a, Told(a), ~Invalidates(Head(signals), a) PROVE Told(a)'
      <4>1. PICK i \in 1..Len(signals) : Invalidates(signals[i], a)
        BY <2>1, <3>3 DEF Told
      <4>2. i # 1 /\ i - 1 \in 1..Len(signals') /\ signals'[i - 1] = signals[i]
        BY <2>4, <3>3, <4>1
      <4>3. i - 1 \in DOMAIN signals'
        BY <2>4, <4>2
      <4>. QED  BY <4>1, <4>2, <4>3 DEF Told
    <3>4. ASSUME NEW c \in DOMAIN connections', Current(c)' PROVE Underway(c)'
      <4>1. c \in DOMAIN connections /\ Current(c) /\ Underway(c)
        BY <2>1, <3>1, <3>4 DEF Current, BarInv
      <4>2. CASE Step(c) \in Answers
        <5>1. c \in watching /\ bar.session = c
          BY <4>1, <4>2 DEF Underway
        <5>2. c \notin lost
          BY <2>6, <4>1, <5>1
        <5>3. ~Invalidates(Head(signals), connections[c].address)
          BY <2>2, <5>1, <5>2
        <5>4. c \in watching'
          BY <2>3, <5>1, <5>2
        <5>. QED  BY <2>1, <3>1, <3>3, <4>1, <5>3, <5>4 DEF Underway, Step, AccountHolds, ChainHolds
      <4>3. CASE Step(c) \notin Answers
        BY <2>1, <3>1, <4>1, <4>3 DEF Underway, Step, Answers
      <4>. QED  BY <4>2, <4>3
    <3>5. ASSUME bar'.shown # None PROVE BarConnected'
      <4>1. BarConnected
        BY <3>1, <3>5 DEF BarInv
      <4>2. bar.session \notin lost /\ bar.session \in watching
        BY <2>6, <4>1 DEF BarConnected
      <4>3. ~Invalidates(Head(signals), bar.shown)
        BY <2>2, <4>1, <4>2 DEF BarConnected
      <4>. QED  BY <2>1, <2>3, <3>1, <3>3, <4>1, <4>2, <4>3 DEF BarConnected, Current, Step, AccountHolds, ChainHolds
    <3>. QED  BY <3>2, <3>4, <3>5 DEF BarInv
  <2>. QED  BY <2>5, <2>6
<1>4. ASSUME Connect PROVE BarInv'
  <2>1. /\ bar' = [generation |-> bar.generation + 1, session |-> None, busy |-> TRUE, shown |-> None]
        /\ UNCHANGED <<evmWallet, signals>>
    BY <1>4 DEF Connect, Invalidated
  <2>2. PICK r : r = [step |-> "discover", address |-> None, generation |-> bar.generation + 1]
    OBVIOUS
  <2>3. connections' = Append(connections, r) /\ connections \in Seq(Session)
    BY <1>1, <1>4, <2>2 DEF Connect, BarTypes, Session
  <2>4. r \in Session /\ r.generation = bar.generation + 1 /\ r.step = "discover"
    BY <1>1, <2>2 DEF BarTypes, Session, BarSteps
  <2>5. /\ connections' \in Seq(Session) /\ Len(connections) \in Nat
        /\ DOMAIN connections' = DOMAIN connections \cup {Len(connections) + 1}
        /\ DOMAIN connections = 1..Len(connections)
        /\ \A d \in DOMAIN connections : connections'[d] = connections[d]
        /\ connections'[Len(connections) + 1] = r
    BY <2>3, <2>4
  <2>6. /\ bar'.generation = bar.generation + 1 /\ bar'.shown = None /\ bar.generation \in Nat
        /\ DOMAIN bar' = {"generation", "session", "busy", "shown"}
    BY <1>1, <2>1 DEF BarTypes
  <2>7. \A d \in DOMAIN connections :
          connections[d].generation \in Nat /\ connections[d].generation <= bar.generation
    <3>1. \A d \in DOMAIN connections : connections[d] \in Session
      BY <2>3
    <3>. QED  BY <1>1, <3>1 DEF BarTypes, Session
  <2>8. BarTypes'
    <3>1. \A d \in DOMAIN connections' : connections'[d].generation <= bar'.generation
      BY <2>4, <2>5, <2>6, <2>7
    <3>2. \A c, d \in DOMAIN connections' : connections'[c].generation = connections'[d].generation => c = d
      BY <1>1, <2>4, <2>5, <2>6, <2>7 DEF BarTypes
    <3>. QED  BY <1>1, <2>1, <2>5, <2>6, <3>1, <3>2 DEF BarTypes
  <2>9. ASSUME NEW c \in DOMAIN connections', Current(c)' PROVE Underway(c)'
    <3>1. c = Len(connections) + 1
      BY <2>4, <2>5, <2>6, <2>7, <2>9 DEF Current
    <3>. QED  BY <2>4, <2>5, <2>6, <3>1 DEF Underway, Step, Answers
  <2>. QED  BY <2>6, <2>8, <2>9 DEF BarInv
<1>5. ASSUME Disconnect \/ Unmount PROVE BarInv'
  <2>1. /\ bar' = [generation |-> bar.generation + 1, session |-> None, busy |-> FALSE, shown |-> None]
        /\ UNCHANGED <<evmWallet, signals, connections>>
    BY <1>5 DEF Disconnect, Unmount, Invalidated
  <2>2. /\ bar'.generation = bar.generation + 1 /\ bar'.shown = None
        /\ DOMAIN bar' = DOMAIN bar /\ signals' \in Seq(Signals)
    BY <1>1, <2>1 DEF BarTypes
  <2>. QED  BY <2>1, <2>2, ForgottenKeeps
<1>6. ASSUME NEW c \in DOMAIN connections,
             \/ Discover(c) \/ RequestAccounts(c) \/ ReadChain(c) \/ SwitchToMainnet(c) \/ RereadChain(c)
             \/ RereadAccounts(c) \/ ReadAuthorityChain(c) \/ ReadAuthorityAccounts(c) \/ Confirm(c)
      PROVE  BarInv'
  BY <1>6, QuestionKeeps
<1>. QED  BY <1>2, <1>3, <1>4, <1>5, <1>6 DEF BarNext

\* The address the bar shows is the wallet's own on Ethereum Mainnet, or the
\* event that ends the connection is on its way to its listener: the listeners
\* are there before the wallet is asked the last time
\* (subscribeReviewedWalletSession before assertConnectedWalletAuthority).
THEOREM BarTellsTheTruth == BarSpec => []ConnectedOrTold
<1>1. BarInit => BarInv
  BY BarStarts
<1>2. BarInv /\ [BarNext]_barVars => BarInv'
  <2>1. ASSUME BarInv, UNCHANGED barVars PROVE BarInv'
    BY <2>1 DEF barVars, BarInv, BarTypes, Underway, BarConnected, Current, Step, AccountHolds, ChainHolds, Told
  <2>. QED  BY <2>1, BarKeeps
<1>3. BarInv => ConnectedOrTold
  <2>1. SUFFICES ASSUME BarInv, bar.shown # None, ~\E i \in DOMAIN signals : Invalidates(signals[i], bar.shown)
                 PROVE  evmWallet = [account |-> bar.shown, chain |-> Mainnet]
    BY DEF BarInv, BarConnected, ConnectedOrTold
  <2>2. evmWallet.account = bar.shown /\ evmWallet.chain = Mainnet
    BY <2>1 DEF BarInv, BarConnected, AccountHolds, ChainHolds, Told
  <2>3. evmWallet \in [account : EvmAccounts \cup {None}, chain : {Mainnet, OtherChain}]
    BY <2>1 DEF BarInv, BarTypes
  <2>. QED  BY <2>2, <2>3
<1>. QED  BY <1>1, <1>2, <1>3, PTL DEF BarSpec

-----------------------------------------------------------------------------
(* The trade form. *)

FormSpec == FormInit /\ [][FormNext]_formVars

Entered ==
  /\ DOMAIN form = {"side", "type", "tif", "price", "size", "slippage", "expiry", "slices"}
  /\ form.side \in {"buy", "sell"} /\ form.price \in Nat /\ form.slippage \in Slippages
  /\ market.last \in Nat /\ DOMAIN market = {"last", "book"} /\ market.book \in Nat

Funded ==
  shortcut # None =>
    \/ form.size <= SessionZec
    \/ RoundedUp(form.size * shortcut, FormDivisor) <= SessionQuote

\* A review open is of the market, variant and book on screen, as it was prepared there.
OpenReviewed ==
  formReview # None =>
    /\ formReview.place = place /\ formReview.book = market.book
    /\ formReview.slippage # None =>
         /\ formReview.order.tif = "IOC"
         /\ formReview.order.price = WorstPrice(market.last, formReview.order.side, formReview.slippage)
    /\ formReview.order.slices > 0 \/ place.simple => formReview.order.expiry = 0

FormInv == Entered /\ Funded /\ OpenReviewed /\ SentAsReviewed

\* A part of an amount is no more than the amount.
LEMMA PartOf ==
  ASSUME NEW n \in Nat, NEW p \in 0..100
  PROVE  (n * p) \div 100 \in Nat /\ (n * p) \div 100 <= n
<1>1. n * p \in Nat /\ n * p <= n * 100
  <2>1. PICK rest \in Nat : rest = 100 - p
    OBVIOUS
  <2>2. n * 100 = n * p + n * rest /\ n * rest \in Nat /\ n * p \in Nat
    BY <2>1
  <2>. QED  BY <2>2
<1>. QED  BY <1>1

\* What a price buys for an amount costs no more than the amount, rounded up.
LEMMA BoughtWithin ==
  ASSUME NEW x \in Nat, NEW price \in Nat \ {0}, NEW d \in Nat \ {0}
  PROVE  RoundedUp(((x * d) \div price) * price, d) <= x
<1>1. PICK n \in Nat : n = x * d
  OBVIOUS
<1>2. PICK size \in Nat : size = n \div price /\ price * size <= n
  BY Quotients
<1>3. PICK cost \in Nat : cost = size * price
  OBVIOUS
<1>4. cost <= x * d
  BY <1>1, <1>2, <1>3
<1>5. PICK m \in Nat : m = cost + d - 1
  OBVIOUS
<1>6. PICK q \in Nat : q = m \div d /\ d * q <= m
  BY Quotients
<1>7. q <= x
  <2>1. SUFFICES ASSUME q > x PROVE FALSE
    OBVIOUS
  <2>2. PICK k \in Nat : q = x + 1 + k
    <3>1. q - x - 1 \in Nat /\ q = x + 1 + (q - x - 1)
      BY <2>1
    <3>. QED  BY <3>1
  <2>3. d * q = x * d + d + d * k /\ d * k \in Nat
    BY <2>2
  <2>. QED  BY <1>4, <1>5, <1>6, <2>3
<1>. QED  BY <1>1, <1>2, <1>3, <1>5, <1>6, <1>7 DEF RoundedUp

\* The prices an order can have are amounts.
LEMMA PricesAreAmounts ==
  ASSUME Entered PROVE PriceOf(market.last) \in Nat
<1>1. /\ market.last \in Nat /\ form.slippage \in Nat /\ form.slippage < SlippageScale
      /\ SlippageScale \in Nat \ {0} /\ form.price \in Nat
  BY FormAssumption DEF Entered, FormAssumption
<1>2. PICK up \in Nat : up = market.last * (SlippageScale + form.slippage)
  BY <1>1
<1>3. PICK down \in Nat : down = market.last * (SlippageScale - form.slippage)
  <2>1. SlippageScale - form.slippage \in Nat
    BY <1>1
  <2>. QED  BY <1>1, <2>1
<1>4. (up + SlippageScale - 1) \div SlippageScale \in Nat /\ down \div SlippageScale \in Nat
  BY <1>1, Quotients
<1>. QED  BY <1>1, <1>2, <1>3, <1>4 DEF PriceOf, WorstPrice, RoundedUp

\* An order is prepared as the form and the market of the moment say.
LEMMA OpenKeeps ==
  ASSUME Entered, Funded, OpenTicket
  PROVE  OpenReviewed'
<1>1. PICK o : o = Prepared
  OBVIOUS
<1>2. /\ o.side = form.side /\ o.price = PriceOf(market.last)
      /\ o.tif = (IF MarketLike THEN "IOC" ELSE form.tif)
      /\ o.expiry = (IF Type = "twap" \/ place.simple THEN 0 ELSE form.expiry)
      /\ o.slices = (IF Type = "twap" THEN form.slices ELSE 0)
  BY <1>1 DEF Prepared
<1>3. PICK r : r = [order |-> o, place |-> place, book |-> market.book,
                    slippage |-> IF MarketLike THEN form.slippage ELSE None]
  OBVIOUS
<1>4. /\ r.order = o /\ r.place = place /\ r.book = market.book
      /\ r.slippage = (IF MarketLike THEN form.slippage ELSE None)
  BY <1>3
<1>5. formReview' = r /\ UNCHANGED <<place, market>>
  BY <1>1, <1>3 DEF OpenTicket
<1>6. r.slippage # None =>
        o.tif = "IOC" /\ o.price = WorstPrice(market.last, o.side, r.slippage)
  BY <1>2, <1>4 DEF PriceOf
<1>7. o.slices > 0 \/ place.simple => o.expiry = 0
  BY <1>2
<1>. QED  BY <1>4, <1>5, <1>6, <1>7 DEF OpenReviewed

\* A size shortcut asks no more than the account has.
LEMMA ShortcutFunds ==
  ASSUME Entered, NEW percent \in Percents, SizeShortcut(percent)
  PROVE  Entered' /\ Funded'
<1>1. PICK price \in Nat : price = PriceOf(market.last)
  BY PricesAreAmounts
<1>2. PICK size : size = (IF form.side = "sell" THEN (SessionZec * percent) \div 100
                          ELSE (((SessionQuote * percent) \div 100) * FormDivisor) \div price)
  OBVIOUS
<1>3. /\ form.side = "buy" => price > 0
      /\ form' = [form EXCEPT !.size = size] /\ shortcut' = price /\ UNCHANGED market
  BY <1>1, <1>2 DEF SizeShortcut
<1>4. /\ DOMAIN form' = DOMAIN form /\ form'.size = size /\ form'.side = form.side
      /\ form'.price = form.price /\ form'.slippage = form.slippage
  BY <1>3 DEF Entered
<1>5. Entered'
  BY <1>3, <1>4 DEF Entered
<1>6. percent \in 0..100 /\ SessionZec \in Nat /\ SessionQuote \in Nat /\ FormDivisor \in Nat \ {0}
  BY FormAssumption DEF FormAssumption
<1>7. CASE form.side = "sell"
  <2>1. size = (SessionZec * percent) \div 100
    BY <1>2, <1>7
  <2>2. size <= SessionZec
    BY <1>6, <2>1, PartOf
  <2>3. form'.size <= SessionZec
    BY <1>4, <2>2
  <2>. QED  BY <1>5, <2>3 DEF Funded
<1>8. CASE form.side = "buy"
  <2>1. PICK x \in Nat : x = (SessionQuote * percent) \div 100 /\ x <= SessionQuote
    BY <1>6, PartOf
  <2>2. price \in Nat \ {0}
    BY <1>3, <1>8
  <2>3. PICK cost : cost = RoundedUp(size * price, FormDivisor)
    OBVIOUS
  <2>4. size = (x * FormDivisor) \div price
    BY <1>2, <1>8, <2>1
  <2>5. cost <= x
    BY <1>6, <2>2, <2>3, <2>4, BoughtWithin
  <2>6. cost \in Nat
    <3>1. PICK n \in Nat : n = x * FormDivisor
      BY <1>6, <2>1
    <3>2. size \in Nat
      BY <2>2, <2>4, <3>1, Quotients
    <3>3. PICK m \in Nat : m = size * price
      BY <3>2
    <3>. QED  BY <1>6, <2>3, <3>3, Quotients DEF RoundedUp
  <2>7. cost <= SessionQuote
    BY <1>6, <2>1, <2>5, <2>6
  <2>8. RoundedUp(form'.size * shortcut', FormDivisor) <= SessionQuote
    BY <1>3, <1>4, <2>3, <2>7
  <2>. QED  BY <1>5, <2>8 DEF Funded
<1>. QED  BY <1>5, <1>7, <1>8 DEF Entered

\* The controls change no review, and a size typed is no shortcut's.
LEMMA EditKeeps ==
  ASSUME Entered, Funded, Edit
  PROVE  Entered' /\ Funded' /\ UNCHANGED <<place, market, formReview, sent>>
<1>1. \E field \in DOMAIN form : \E v :
        /\ Edited(field, v)
        /\ field = "side" => v \in {"buy", "sell"}
        /\ field = "price" => v \in Nat
        /\ field = "slippage" => v \in Slippages
  <2>1. CASE \E v \in {"buy", "sell"} : Edited("side", v)
    BY <2>1 DEF Entered
  <2>2. CASE \E field \in {"type", "tif", "size", "expiry", "slices"} : \E v : Edited(field, v)
    BY <2>2 DEF Entered
  <2>3. CASE \E v \in TicketPrices : Edited("price", v)
    BY <2>3, FormAssumption DEF Entered, FormAssumption
  <2>4. CASE \E v \in Slippages : Edited("slippage", v)
    BY <2>4 DEF Entered
  <2>. QED  BY <2>1, <2>2, <2>3, <2>4 DEF Edit
<1>2. PICK field \in DOMAIN form : \E v :
        /\ Edited(field, v)
        /\ field = "side" => v \in {"buy", "sell"}
        /\ field = "price" => v \in Nat
        /\ field = "slippage" => v \in Slippages
  BY <1>1
<1>3. PICK v :
        /\ Edited(field, v)
        /\ field = "side" => v \in {"buy", "sell"}
        /\ field = "price" => v \in Nat
        /\ field = "slippage" => v \in Slippages
  BY <1>2
<1>4. /\ form' = [form EXCEPT ![field] = v]
      /\ shortcut' = IF field = "size" THEN None ELSE shortcut
      /\ UNCHANGED <<place, market, formReview, sent>>
  BY <1>3 DEF Edited
<1>5. /\ DOMAIN form' = DOMAIN form
      /\ form'.side = (IF field = "side" THEN v ELSE form.side)
      /\ form'.price = (IF field = "price" THEN v ELSE form.price)
      /\ form'.slippage = (IF field = "slippage" THEN v ELSE form.slippage)
      /\ field # "size" => form'.size = form.size
  BY <1>4 DEF Entered
<1>6. Entered'
  BY <1>2, <1>3, <1>4, <1>5 DEF Entered
<1>7. Funded'
  BY <1>4, <1>5 DEF Funded
<1>. QED  BY <1>4, <1>6, <1>7

\* Nothing is reviewed, sent or computed yet.
LEMMA FormStarts == ASSUME FormInit PROVE FormInv
<1>1. /\ market.last \in Nat /\ DOMAIN market = {"last", "book"} /\ market.book \in Nat
      /\ shortcut = None /\ formReview = None /\ sent = None
  <2>1. TicketPrices \subseteq Nat
    BY FormAssumption DEF FormAssumption
  <2>2. market \in [last : TicketPrices, book : {0}] /\ shortcut = None /\ formReview = None /\ sent = None
    BY DEF FormInit
  <2>3. market.last \in TicketPrices /\ market.book = 0 /\ DOMAIN market = {"last", "book"}
    BY <2>2
  <2>4. market.last \in Nat
    BY <2>1, <2>3
  <2>5. market.book \in Nat
    BY <2>3
  <2>6. DOMAIN market = {"last", "book"}
    BY <2>3
  <2>. QED  BY <2>2, <2>4, <2>5, <2>6
<1>2. PICK size, slices, slippage :
        form = [side |-> "buy", type |-> "limit", tif |-> "GTC", price |-> market.last, size |-> size,
                slippage |-> slippage, expiry |-> 0, slices |-> slices]
        /\ slippage \in Slippages
  <2>1. (CHOOSE s \in Slippages : TRUE) \in Slippages
    BY FormAssumption DEF FormAssumption
  <2>. QED  BY <2>1 DEF FormInit, FirstForm
<1>3. Entered
  BY <1>1, <1>2 DEF Entered
<1>. QED  BY <1>1, <1>3 DEF FormInv, Funded, OpenReviewed, SentAsReviewed

\* Every step of the form, its review and the market around it keeps it.
LEMMA FormKeeps == ASSUME FormInv, FormNext PROVE FormInv'
<1>1. Entered /\ Funded /\ OpenReviewed /\ sent = None
  BY DEF FormInv, FormNext
<1>2. ASSUME Entered', Funded', OpenReviewed', sent' = None PROVE FormInv'
  BY <1>2 DEF FormInv, SentAsReviewed, Funded
\* A step that leaves the screen and the review alone.
<1>3. ASSUME UNCHANGED <<place, market, formReview>> PROVE OpenReviewed'
  BY <1>1, <1>3 DEF OpenReviewed
<1>4. CASE Edit
  BY <1>1, <1>2, <1>3, <1>4, EditKeeps
<1>5. CASE OpenTicket
  <2>1. UNCHANGED <<form, shortcut, place, market, sent>>
    BY <1>5 DEF OpenTicket
  <2>2. Entered' /\ Funded'
    BY <1>1, <2>1 DEF Entered, Funded
  <2>. QED  BY <1>1, <1>2, <1>5, <2>1, <2>2, OpenKeeps
<1>6. CASE CompleteTicket
  <2>1. PICK r : r = formReview
    OBVIOUS
  <2>2. PICK o : o = [order |-> r.order, slippage |-> r.slippage, last |-> market.last,
                      openedIn |-> r.place, sentIn |-> place]
    OBVIOUS
  <2>3. /\ o.order = r.order /\ o.slippage = r.slippage /\ o.last = market.last
        /\ o.openedIn = r.place /\ o.sentIn = place
    BY <2>2
  <2>4. sent' = o /\ formReview' = None /\ UNCHANGED <<form, shortcut, place, market>> /\ r # None
    BY <1>6, <2>1, <2>2 DEF CompleteTicket
  <2>5. Entered' /\ Funded' /\ OpenReviewed'
    BY <1>1, <2>4 DEF Entered, Funded, OpenReviewed
  <2>6. /\ r.place = place
        /\ r.slippage # None =>
             /\ r.order.tif = "IOC"
             /\ r.order.price = WorstPrice(market.last, r.order.side, r.slippage)
        /\ r.order.slices > 0 \/ place.simple => r.order.expiry = 0
    BY <1>1, <2>1, <2>4 DEF OpenReviewed
  <2>7. SentAsReviewed'
    BY <2>3, <2>4, <2>5, <2>6 DEF SentAsReviewed, Funded
  <2>. QED  BY <2>5, <2>7 DEF FormInv
<1>7. CASE CloseTicket
  <2>1. formReview' = None /\ UNCHANGED <<form, shortcut, place, market, sent>>
    BY <1>7 DEF CloseTicket
  <2>. QED  BY <1>1, <1>2, <2>1 DEF Entered, Funded, OpenReviewed
<1>8. CASE \E percent \in Percents : SizeShortcut(percent)
  <2>1. PICK percent \in Percents : SizeShortcut(percent)
    BY <1>8
  <2>2. UNCHANGED <<place, market, formReview, sent>>
    BY <2>1 DEF SizeShortcut
  <2>. QED  BY <1>1, <1>2, <1>3, <2>1, <2>2, ShortcutFunds
<1>9. CASE \E price \in TicketPrices : SelectPrice(price)
  <2>1. PICK price \in TicketPrices : form' = [form EXCEPT !.type = "limit", !.price = price]
    BY <1>9 DEF SelectPrice
  <2>2. UNCHANGED <<shortcut, place, market, formReview, sent>>
    BY <1>9 DEF SelectPrice
  <2>3. /\ DOMAIN form' = DOMAIN form /\ form'.price = price /\ form'.side = form.side
        /\ form'.slippage = form.slippage /\ form'.size = form.size
    BY <1>1, <2>1 DEF Entered
  <2>4. price \in Nat
    BY FormAssumption DEF FormAssumption
  <2>. QED  BY <1>1, <1>2, <1>3, <2>2, <2>3, <2>4 DEF Entered, Funded
<1>10. CASE BookChanges
  <2>1. /\ market' \in [last : TicketPrices, book : {market.book + 1}]
        /\ UNCHANGED <<form, shortcut, place, sent>> /\ Rendered
    BY <1>10 DEF BookChanges
  <2>2. market'.book # market.book /\ market'.book \in Nat /\ market'.last \in Nat
        /\ DOMAIN market' = {"last", "book"}
    <3>1. TicketPrices \subseteq Nat /\ market.book \in Nat
      BY <1>1, FormAssumption DEF Entered, FormAssumption
    <3>2. PICK book : book = market.book + 1
      OBVIOUS
    <3>3. market'.last \in TicketPrices /\ market'.book = book /\ DOMAIN market' = {"last", "book"}
      BY <2>1, <3>2 DEF Entered
    <3>4. market'.last \in Nat
      BY <3>1, <3>3
    <3>5. market'.book \in Nat /\ market'.book # market.book
      BY <3>1, <3>2, <3>3
    <3>. QED  BY <3>3, <3>4, <3>5
  <2>3. formReview' = None
    BY <1>1, <2>1, <2>2 DEF Rendered, StillReviewed, OpenReviewed
  <2>. QED  BY <1>1, <1>2, <2>1, <2>2, <2>3 DEF Entered, Funded, OpenReviewed
<1>11. CASE MovePlace
  <2>1. /\ place' # place /\ UNCHANGED <<shortcut, sent>> /\ Rendered
        /\ market' = market \/ market' \in [last : TicketPrices, book : {market.book + 1}]
        /\ form' = [form EXCEPT !.price = market'.last]
    BY <1>11 DEF MovePlace
  <2>2. market'.last \in Nat /\ DOMAIN market' = {"last", "book"} /\ market'.book \in Nat
    <3>1. TicketPrices \subseteq Nat /\ market.book \in Nat
      BY <1>1, FormAssumption DEF Entered, FormAssumption
    <3>2. PICK book : book = market.book + 1
      OBVIOUS
    <3>3. \/ market' = market
          \/ market'.last \in TicketPrices /\ market'.book = book /\ DOMAIN market' = {"last", "book"}
      BY <2>1, <3>2
    <3>4. market.last \in Nat /\ market.book \in Nat /\ DOMAIN market = {"last", "book"}
      BY <1>1 DEF Entered
    <3>5. market'.last \in Nat
      BY <3>1, <3>3, <3>4
    <3>6. market'.book \in Nat
      BY <3>1, <3>2, <3>3, <3>4
    <3>7. DOMAIN market' = {"last", "book"}
      BY <3>3, <3>4
    <3>. QED  BY <3>5, <3>6, <3>7
  <2>3. formReview' = None
    BY <1>1, <2>1 DEF Rendered, StillReviewed, OpenReviewed
  <2>4. /\ DOMAIN form' = DOMAIN form /\ form'.price = market'.last /\ form'.side = form.side
        /\ form'.slippage = form.slippage /\ form'.size = form.size
    BY <1>1, <2>1 DEF Entered
  <2>. QED  BY <1>1, <1>2, <2>1, <2>2, <2>3, <2>4 DEF Entered, Funded, OpenReviewed
<1>12. CASE FormSecond
  <2>1. UNCHANGED <<form, shortcut, place, market, formReview, sent>>
    BY <1>12 DEF FormSecond
  <2>. QED  BY <1>1, <1>2, <1>3, <2>1 DEF Entered, Funded
<1>. QED  BY <1>4, <1>5, <1>6, <1>7, <1>8, <1>9, <1>10, <1>11, <1>12 DEF FormNext

\* An order goes out where it was reviewed and as it was reviewed there, and a
\* shortcut never asks for more than the account has: any render after a change
\* drops the review, and sizes round down where costs round up
\* (TradeTicket, applyInventorySize).
THEOREM OrdersGoAsReviewed == FormSpec => []SentAsReviewed
<1>1. FormInit => FormInv
  BY FormStarts
<1>2. FormInv /\ [FormNext]_formVars => FormInv'
  <2>1. ASSUME FormInv, UNCHANGED formVars PROVE FormInv'
    BY <2>1 DEF formVars, FormInv, Entered, Funded, OpenReviewed, SentAsReviewed
  <2>. QED  BY <2>1, FormKeeps
<1>3. FormInv => SentAsReviewed
  BY DEF FormInv
<1>. QED  BY <1>1, <1>2, <1>3, PTL DEF FormSpec

-----------------------------------------------------------------------------
(* The paper pool. *)

PoolSpec == PoolInit /\ [][PoolNext]_poolVars

Pools == [zec : Nat \ {0}, quote : Nat \ {0}, shares : Nat \ {0}]

\* The session's shares come on top of the seed's, and behind the square of the
\* shares stands at least what stood behind the seed's.
Solid(p, owned) ==
  /\ p.shares = SeedZec + owned
  /\ SeedQuote * (p.shares * p.shares) <= SeedZec * (p.zec * p.quote)

PoolInv ==
  /\ poolOnScreen \in PoolMarkets /\ amount \in Nat
  /\ pool \in [PoolMarkets -> Pools] /\ heldShares \in [PoolMarkets -> Nat]
  /\ \A m \in PoolMarkets : Solid(pool[m], heldShares[m])

\* The seed is a pool, and solid.
LEMMA SeedIsSolid == SeedPool \in Pools /\ Solid(SeedPool, 0)
<1>1. /\ SeedPool.zec = SeedZec /\ SeedPool.quote = SeedQuote /\ SeedPool.shares = SeedZec
      /\ SeedPool \in Pools
  BY PoolAssumption DEF SeedPool, Pools, PoolAssumption
<1>2. SeedQuote * (SeedZec * SeedZec) = SeedZec * (SeedZec * SeedQuote)
  BY PoolAssumption DEF PoolAssumption
<1>3. SeedQuote * (SeedZec * SeedZec) <= SeedZec * (SeedZec * SeedQuote) /\ SeedZec = SeedZec + 0
  <2>1. SeedQuote * (SeedZec * SeedZec) \in Nat /\ SeedZec \in Nat
    BY PoolAssumption DEF PoolAssumption
  <2>. QED  BY <1>2, <2>1
<1>. QED  BY <1>1, <1>3 DEF Solid

\* A deposit that is valid leaves the pool solid.
LEMMA MintedIsSolid ==
  ASSUME NEW p \in Pools, NEW owned \in Nat, Solid(p, owned), NEW z \in Nat, Minted(p, z) # None
  PROVE  /\ Minted(p, z).pool \in Pools /\ Minted(p, z).shares \in Nat
         /\ Solid(Minted(p, z).pool, owned + Minted(p, z).shares)
<1>1. PICK x \in Nat \ {0}, y \in Nat \ {0}, s \in Nat \ {0} :
        x = p.zec /\ y = p.quote /\ s = p.shares
  BY DEF Pools
<1>2. PICK n \in Nat, o \in Nat : n = z * y /\ o = z * s
  <2>1. z * y \in Nat /\ z * s \in Nat
    OBVIOUS
  <2>. QED  BY <2>1
<1>3. PICK q : q = BalancedQuote(z, p)
  OBVIOUS
<1>4. q \in Nat /\ z * y <= q * x
  <2>1. q = (n + x - 1) \div x
    BY <1>1, <1>2, <1>3 DEF BalancedQuote
  <2>2. q \in Nat /\ n <= x * q
    BY <2>1, Quotients
  <2>3. x * q = q * x
    BY <2>2
  <2>. QED  BY <1>2, <2>2, <2>3
<1>5. PICK t : t = (z * p.shares) \div p.zec
  OBVIOUS
<1>6. t \in Nat /\ t * x <= z * s
  <2>1. t = o \div x
    BY <1>1, <1>2, <1>5
  <2>2. t \in Nat /\ x * t <= o
    BY <2>1, Quotients
  <2>3. x * t = t * x
    BY <2>2
  <2>. QED  BY <1>2, <2>2, <2>3
<1>7. Minted(p, z) = [pool |-> [zec |-> x + z, quote |-> y + q, shares |-> s + t], shares |-> t, quote |-> q]
  BY <1>1, <1>3, <1>5 DEF Minted
<1>8. PICK r : r = [zec |-> x + z, quote |-> y + q, shares |-> s + t]
  OBVIOUS
<1>9. /\ Minted(p, z).pool = r /\ Minted(p, z).shares = t
      /\ r.zec = x + z /\ r.quote = y + q /\ r.shares = s + t
  BY <1>7, <1>8
<1>10. r \in Pools
  <2>1. x + z \in Nat \ {0} /\ y + q \in Nat \ {0} /\ s + t \in Nat \ {0}
    BY <1>4, <1>6
  <2>. QED  BY <1>8, <2>1 DEF Pools
<1>11. SeedQuote * (s * s) <= SeedZec * (x * y) /\ s = SeedZec + owned
  BY <1>1 DEF Solid
<1>12. PICK k \in Nat, l \in Nat : k = SeedQuote /\ l = SeedZec
  BY PoolAssumption DEF PoolAssumption
<1>13. k * (s * s) <= l * (x * y)
  BY <1>11, <1>12
<1>14. k * ((s + t) * (s + t)) <= l * ((x + z) * (y + q))
  BY <1>4, <1>6, <1>13, MintGrows
<1>15. s + t = SeedZec + (owned + t)
  BY <1>6, <1>11, <1>12
<1>. QED  BY <1>6, <1>9, <1>10, <1>12, <1>14, <1>15 DEF Solid

\* A swap the formula takes leaves the pool solid.
LEMMA SwappedIsSolid ==
  ASSUME NEW p \in Pools, NEW owned \in Nat, Solid(p, owned), NEW z \in Nat, Swapped(p, z) # None
  PROVE  Swapped(p, z) \in Pools /\ Solid(Swapped(p, z), owned)
<1>1. PICK x \in Nat \ {0}, y \in Nat \ {0}, s \in Nat \ {0} :
        x = p.zec /\ y = p.quote /\ s = p.shares
  BY DEF Pools
<1>2. PICK out : out = SwapOut(z, p)
  OBVIOUS
<1>3. out \in 1..y - 1 /\ Swapped(p, z) = [p EXCEPT !.zec = @ + z, !.quote = @ - out]
  BY <1>1, <1>2 DEF Swapped
<1>4. PICK bps \in Nat \ {0}, rate \in Nat : bps = PoolBps /\ rate = PoolBps - PoolSwapFee /\ rate <= bps
  <2>1. PoolBps \in Nat \ {0} /\ PoolBps - PoolSwapFee \in Nat /\ PoolBps - PoolSwapFee <= PoolBps
    BY PoolAssumption DEF PoolAssumption
  <2>. QED  BY <2>1
<1>5. out = (z * rate * y) \div (x * bps + z * rate)
  BY <1>1, <1>2, <1>4 DEF SwapOut
<1>6. out \in Nat /\ out <= y
  BY <1>3
<1>7. x * y <= (x + z) * (y - out)
  BY <1>4, <1>5, <1>6, SwapGrows
<1>8. PICK r : r = [p EXCEPT !.zec = @ + z, !.quote = @ - out]
  OBVIOUS
<1>9. /\ r.zec = x + z /\ r.quote = y - out /\ r.shares = s /\ r \in Pools
  <2>1. x + z \in Nat \ {0} /\ y - out \in Nat \ {0}
    BY <1>3
  <2>. QED  BY <1>1, <1>8, <2>1 DEF Pools
<1>10. SeedQuote * (s * s) <= SeedZec * (x * y) /\ s = SeedZec + owned
  BY <1>1 DEF Solid
<1>11. SeedZec * (x * y) <= SeedZec * ((x + z) * (y - out))
  <2>1. PICK u \in Nat, v \in Nat, l \in Nat : u = x * y /\ v = (x + z) * (y - out) /\ l = SeedZec
    <3>1. y - out \in Nat /\ SeedZec \in Nat
      BY <1>3, PoolAssumption DEF PoolAssumption
    <3>2. x * y \in Nat /\ (x + z) * (y - out) \in Nat
      BY <3>1
    <3>. QED  BY <3>1, <3>2
  <2>2. l * u <= l * v
    BY <1>7, <2>1, ProductsKeepOrder
  <2>. QED  BY <2>1, <2>2
<1>12. SeedQuote * (s * s) <= SeedZec * ((x + z) * (y - out))
  <2>1. PICK c1 \in Nat, c2 \in Nat, c3 \in Nat :
          c1 = SeedQuote * (s * s) /\ c2 = SeedZec * (x * y) /\ c3 = SeedZec * ((x + z) * (y - out))
    <3>1. y - out \in Nat /\ SeedZec \in Nat /\ SeedQuote \in Nat
      BY <1>3, PoolAssumption DEF PoolAssumption
    <3>2. SeedQuote * (s * s) \in Nat /\ SeedZec * (x * y) \in Nat /\ SeedZec * ((x + z) * (y - out)) \in Nat
      BY <3>1
    <3>. QED  BY <3>2
  <2>. QED  BY <1>10, <1>11, <2>1
<1>. QED  BY <1>3, <1>8, <1>9, <1>10, <1>12 DEF Solid

\* Burning all the session's shares leaves the seed's, with at least their part.
LEMMA BurnedIsSolid ==
  ASSUME NEW p \in Pools, NEW owned \in Nat, Solid(p, owned)
  PROVE  /\ Burned(p, owned) \in Pools /\ Solid(Burned(p, owned), 0)
         /\ Worth(Burned(p, owned)) >= Worth(SeedPool)
         /\ Worth(p) * SeedZec * SeedZec >= Worth(SeedPool) * p.shares * p.shares
<1>1. PICK x \in Nat \ {0}, y \in Nat \ {0}, s \in Nat \ {0} :
        x = p.zec /\ y = p.quote /\ s = p.shares
  BY DEF Pools
<1>2. PICK a \in Nat \ {0}, b \in Nat \ {0} : a = SeedZec /\ b = SeedQuote
  BY PoolAssumption DEF PoolAssumption
<1>3. s = a + owned /\ b * (s * s) <= a * (x * y)
  BY <1>1, <1>2 DEF Solid
<1>4. PICK u : u = x - (owned * x) \div s
  OBVIOUS
<1>5. PICK v : v = y - (owned * y) \div s
  OBVIOUS
<1>6. u \in Nat \ {0} /\ a * x <= u * s
  BY <1>3, <1>4, BurnLeaves
<1>7. v \in Nat \ {0} /\ a * y <= v * s
  BY <1>3, <1>5, BurnLeaves
<1>8. PICK r : r = Burned(p, owned)
  OBVIOUS
<1>9. r = [zec |-> u, quote |-> v, shares |-> a]
  <2>1. s - owned = a
    BY <1>3
  <2>. QED  BY <1>1, <1>4, <1>5, <1>8, <2>1 DEF Burned
<1>10. r.zec = u /\ r.quote = v /\ r.shares = a /\ r \in Pools
  BY <1>6, <1>7, <1>9 DEF Pools
<1>11. (a * b) * (s * s) <= (a * a) * (x * y)
  <2>1. PICK c \in Nat, d \in Nat : c = b * (s * s) /\ d = a * (x * y)
    OBVIOUS
  <2>2. a * c <= a * d
    BY <1>3, <2>1, ProductsKeepOrder
  <2>3. a * c = (a * b) * (s * s) /\ a * d = (a * a) * (x * y)
    BY <2>1
  <2>. QED  BY <2>2, <2>3
<1>12. (a * a) * (x * y) <= (u * v) * (s * s)
  <2>1. PICK c \in Nat, d \in Nat, e \in Nat, f \in Nat : c = a * x /\ d = u * s /\ e = a * y /\ f = v * s
    BY <1>6, <1>7
  <2>2. c * e <= d * f
    BY <1>6, <1>7, <2>1, ProductsKeepOrder
  <2>3. c * e = (a * a) * (x * y) /\ d * f = (u * v) * (s * s)
    BY <1>6, <1>7, <2>1
  <2>. QED  BY <2>2, <2>3
<1>13. a * b <= u * v
  <2>1. PICK c \in Nat, d \in Nat, k \in Nat \ {0}, e \in Nat :
          c = a * b /\ d = u * v /\ k = s * s /\ e = (a * a) * (x * y)
    BY <1>6, <1>7
  <2>2. c * k <= d * k
    BY <1>11, <1>12, <2>1
  <2>. QED  BY <2>1, <2>2, FactorLeavesOrder
<1>14. b * (a * a) <= a * (u * v)
  <2>1. PICK c \in Nat, d \in Nat : c = a * b /\ d = u * v
    BY <1>6, <1>7
  <2>2. a * c <= a * d
    BY <1>13, <2>1, ProductsKeepOrder
  <2>3. a * c = b * (a * a)
    BY <2>1
  <2>. QED  BY <2>1, <2>2, <2>3
<1>15. Solid(r, 0)
  BY <1>2, <1>10, <1>14 DEF Solid
<1>16. Worth(SeedPool) = a * b /\ Worth(p) = x * y /\ Worth(r) = u * v
  BY <1>1, <1>2, <1>10 DEF Worth, SeedPool
<1>17. Worth(r) >= Worth(SeedPool)
  <2>1. a * b \in Nat /\ u * v \in Nat
    BY <1>6, <1>7
  <2>. QED  BY <1>13, <1>16, <2>1
<1>18. (x * y) * a * a >= (a * b) * s * s
  <2>1. (x * y) * a * a = (a * a) * (x * y) /\ (a * b) * s * s = (a * b) * (s * s)
    OBVIOUS
  <2>2. (a * a) * (x * y) \in Nat /\ (a * b) * (s * s) \in Nat
    OBVIOUS
  <2>. QED  BY <1>11, <2>1, <2>2
<1>. QED  BY <1>1, <1>2, <1>8, <1>10, <1>15, <1>16, <1>17, <1>18

\* Every use of the panel keeps every pool solid.
LEMMA PoolKeeps == ASSUME PoolInv, PoolNext PROVE PoolInv'
<1>1. /\ poolOnScreen \in PoolMarkets /\ amount \in Nat
      /\ pool \in [PoolMarkets -> Pools] /\ heldShares \in [PoolMarkets -> Nat]
      /\ \A m \in PoolMarkets : Solid(pool[m], heldShares[m])
  BY DEF PoolInv
<1>2. PICK here \in PoolMarkets : here = poolOnScreen
  BY <1>1
<1>3. pool[here] \in Pools /\ heldShares[here] \in Nat /\ Solid(pool[here], heldShares[here])
  BY <1>1
<1>4. CASE ExecuteMint
  <2>1. Minted(pool[here], amount) # None
    BY <1>2, <1>4 DEF ExecuteMint, Valid
  <2>2. PICK p, t : p = Minted(pool[here], amount).pool /\ t = Minted(pool[here], amount).shares
    OBVIOUS
  <2>3. p \in Pools /\ t \in Nat /\ Solid(p, heldShares[here] + t)
    BY <1>1, <1>3, <2>1, <2>2, MintedIsSolid
  <2>4. /\ pool' = [pool EXCEPT ![here] = p]
        /\ heldShares' = [heldShares EXCEPT ![here] = heldShares[here] + t]
        /\ UNCHANGED <<amount, poolOnScreen>>
    BY <1>2, <1>4, <2>2 DEF ExecuteMint
  <2>5. /\ pool' \in [PoolMarkets -> Pools] /\ heldShares' \in [PoolMarkets -> Nat]
    BY <1>1, <1>3, <2>3, <2>4
  <2>6. ASSUME NEW m \in PoolMarkets PROVE Solid(pool'[m], heldShares'[m])
    BY <1>1, <2>3, <2>4
  <2>. QED  BY <1>1, <2>4, <2>5, <2>6 DEF PoolInv
<1>5. CASE ExecuteSwap
  <2>1. PICK p : p = Swapped(pool[here], amount)
    OBVIOUS
  <2>2. /\ p # None /\ pool' = [pool EXCEPT ![here] = p] /\ UNCHANGED <<heldShares, amount, poolOnScreen>>
    BY <1>2, <1>5, <2>1 DEF ExecuteSwap
  <2>3. p \in Pools /\ Solid(p, heldShares[here])
    BY <1>1, <1>3, <2>1, <2>2, SwappedIsSolid
  <2>4. /\ pool' \in [PoolMarkets -> Pools] /\ heldShares' \in [PoolMarkets -> Nat]
    BY <1>1, <2>2, <2>3
  <2>5. ASSUME NEW m \in PoolMarkets PROVE Solid(pool'[m], heldShares'[m])
    BY <1>1, <2>2, <2>3
  <2>. QED  BY <1>1, <2>2, <2>4, <2>5 DEF PoolInv
<1>6. CASE BurnSessionShares
  <2>1. PICK p : p = Burned(pool[here], heldShares[here])
    OBVIOUS
  <2>2. /\ pool' = [pool EXCEPT ![here] = p] /\ heldShares' = [heldShares EXCEPT ![here] = 0]
        /\ UNCHANGED <<amount, poolOnScreen>>
    BY <1>2, <1>6, <2>1 DEF BurnSessionShares
  <2>3. p \in Pools /\ Solid(p, 0)
    BY <1>3, <2>1, BurnedIsSolid
  <2>4. /\ pool' \in [PoolMarkets -> Pools] /\ heldShares' \in [PoolMarkets -> Nat]
    BY <1>1, <2>2, <2>3
  <2>5. ASSUME NEW m \in PoolMarkets PROVE Solid(pool'[m], heldShares'[m])
    BY <1>1, <2>2, <2>3
  <2>. QED  BY <1>1, <2>2, <2>4, <2>5 DEF PoolInv
<1>7. CASE ResetPool
  <2>1. /\ pool' = [m \in PoolMarkets |-> SeedPool] /\ heldShares' = [m \in PoolMarkets |-> 0]
        /\ UNCHANGED <<amount, poolOnScreen>>
    BY <1>7 DEF ResetPool
  <2>. QED  BY <1>1, <2>1, SeedIsSolid DEF PoolInv
<1>8. CASE EnterAmount
  <2>1. amount' \in Nat /\ UNCHANGED <<pool, heldShares, poolOnScreen>>
    BY <1>8, PoolAssumption DEF EnterAmount, PoolAssumption
  <2>. QED  BY <1>1, <2>1 DEF PoolInv
<1>9. CASE SelectPool
  <2>1. poolOnScreen' \in PoolMarkets /\ UNCHANGED <<pool, heldShares, amount>>
    BY <1>9 DEF SelectPool
  <2>. QED  BY <1>1, <2>1 DEF PoolInv
<1>10. CASE \/ \E kind \in {"mint", "swap"} : RequestPoolReview(kind)
            \/ \E shown \in BOOLEAN : SelectPoolFeed(shown)
            \/ PausePool \/ CloseReview
  <2>1. UNCHANGED <<pool, heldShares, amount, poolOnScreen>>
    BY <1>10 DEF RequestPoolReview, SelectPoolFeed, PausePool, CloseReview
  <2>. QED  BY <1>1, <2>1 DEF PoolInv
<1>. QED  BY <1>4, <1>5, <1>6, <1>7, <1>8, <1>9, <1>10 DEF PoolNext

\* The pool is never shorted: a deposit pays rounded up and receives rounded
\* down, a swap leaves its fee and its rounding, and what the shares of the
\* session take out is rounded down (balancedQuoteAtoms, mintShares, burnShares,
\* quoteConstantProductSwapAtoms).
THEOREM PoolIsNeverShorted == PoolSpec => []NeverShorted
<1>1. PoolInit => PoolInv
  <2>1. SUFFICES ASSUME PoolInit PROVE PoolInv
    OBVIOUS
  <2>2. /\ pool = [m \in PoolMarkets |-> SeedPool] /\ heldShares = [m \in PoolMarkets |-> 0]
        /\ poolOnScreen \in PoolMarkets /\ amount \in Nat
    BY <2>1, PoolAssumption DEF PoolInit, PoolAssumption
  <2>. QED  BY <2>2, SeedIsSolid DEF PoolInv
<1>2. PoolInv /\ [PoolNext]_poolVars => PoolInv'
  <2>1. ASSUME PoolInv, UNCHANGED poolVars PROVE PoolInv'
    BY <2>1 DEF poolVars, PoolInv
  <2>. QED  BY <2>1, PoolKeeps
<1>3. PoolInv => NeverShorted
  <2>1. SUFFICES ASSUME PoolInv, NEW m \in PoolMarkets
                 PROVE  /\ pool[m].shares = SeedZec + heldShares[m]
                        /\ Worth(pool[m]) * SeedZec * SeedZec >= Worth(SeedPool) * pool[m].shares * pool[m].shares
                        /\ Worth(Burned(pool[m], heldShares[m])) >= Worth(SeedPool)
    BY DEF NeverShorted
  <2>2. pool[m] \in Pools /\ heldShares[m] \in Nat /\ Solid(pool[m], heldShares[m])
    BY <2>1 DEF PoolInv
  <2>. QED  BY <2>2, BurnedIsSolid DEF Solid
<1>. QED  BY <1>1, <1>2, <1>3, PTL DEF PoolSpec

-----------------------------------------------------------------------------
(* The ZEC wallet. *)

ZecSpec == ZecInit /\ [][ZecNext]_zecVars

ZecSteps == {"request", "sign", "reread", "over"}
ZecRequests == [step : ZecSteps, address : ZecAccounts \cup {None}, generation : Nat]

ZecTypes ==
  /\ zecAccount \in ZecAccounts \cup {None}
  /\ DOMAIN page = {"generation", "busy", "session", "reviewed", "visible"} /\ page.generation \in Nat
  /\ requests \in Seq(ZecRequests)
  /\ strayed \in BOOLEAN

\* Every connection has a generation of its own, none later than the page's, and
\* what is reviewed is of the page's.
Generations ==
  /\ \A q \in DOMAIN requests : requests[q].generation <= page.generation
  /\ \A q, r \in DOMAIN requests : requests[q].generation = requests[r].generation => q = r
  /\ \A p \in polls : p.of.generation \in Nat /\ p.of.generation <= page.generation
  /\ page.reviewed # None => page.reviewed.generation = page.generation

\* While a connection that is still wanted is under way, nothing is reviewed and
\* no reading is of its generation.
NothingReviewed ==
  /\ page.busy /\ page.reviewed = None
  /\ \A p \in polls : p.of.generation # page.generation

\* The wallet has stayed with what is reviewed, and every reading says so.
Stayed ==
  /\ zecAccount = page.reviewed.address
  /\ \A p \in polls : p.of = page.reviewed => p.ok

ZecInv ==
  /\ ZecTypes /\ Generations
  /\ \A q \in DOMAIN requests : Live(q) /\ requests[q].step # "over" => NothingReviewed
  /\ page.reviewed # None /\ ~strayed => Stayed

EndsForCause ==
  /\ page.reviewed # None /\ page'.reviewed = None /\ page'.generation = page.generation => strayed
  /\ page.reviewed = None /\ page'.reviewed # None => page.busy /\ zecAccount = page'.reviewed.address

\* A connection under way has a step, an address and a generation.
LEMMA RequestTyped ==
  ASSUME ZecTypes, NEW q \in DOMAIN requests
  PROVE  requests[q] \in ZecRequests /\ requests[q].generation \in Nat
<1>1. requests \in Seq(ZecRequests)
  BY DEF ZecTypes
<1>2. requests[q] \in ZecRequests
  BY <1>1
<1>. QED  BY <1>2 DEF ZecRequests

\* The page opens with nothing connected.
LEMMA ZecStart == ASSUME ZecInit PROVE ZecInv
<1>1. ZecTypes
  <2>1. requests = <<>> /\ <<>> \in Seq(ZecRequests)
    BY DEF ZecInit
  <2>2. zecAccount \in ZecAccounts /\ strayed = FALSE /\ page.generation = 0
        /\ DOMAIN page = {"generation", "busy", "session", "reviewed", "visible"}
    BY DEF ZecInit
  <2>3. requests \in Seq(ZecRequests)
    BY <2>1
  <2>4. zecAccount \in ZecAccounts \cup {None} /\ page.generation \in Nat
    BY <2>2
  <2>5. strayed \in BOOLEAN
    BY <2>2, Zenon
  <2>. QED  BY <2>2, <2>3, <2>4, <2>5 DEF ZecTypes
<1>2. DOMAIN requests = {} /\ polls = {} /\ page.reviewed = None
  BY DEF ZecInit
<1>. QED  BY <1>1, <1>2 DEF ZecInv, Generations

\* A connection abandoned, and another begun or not.
LEMMA AbandonKeeps ==
  ASSUME ZecInv, NEW occupied, NEW session, InvalidateConnection(occupied, session),
         UNCHANGED <<zecAccount, polls>>,
         \/ UNCHANGED requests
         \/ occupied = TRUE /\ requests' = Append(requests, [step |-> "request", address |-> None,
                                                         generation |-> page.generation + 1])
  PROVE  ZecInv' /\ EndsForCause
<1>1. ZecTypes /\ Generations /\ UNCHANGED <<zecAccount, polls>>
  BY DEF ZecInv
<1>2. /\ DOMAIN page' = DOMAIN page /\ page'.generation = page.generation + 1 /\ page'.busy = occupied
      /\ page'.reviewed = None /\ strayed' = FALSE /\ page'.generation \in Nat
  BY <1>1 DEF InvalidateConnection, ZecTypes
<1>3. \A p \in polls' : p.of.generation # page'.generation /\ p.of.generation <= page'.generation
  BY <1>1, <1>2 DEF Generations, ZecTypes
<1>4. EndsForCause
  BY <1>1, <1>2 DEF EndsForCause, ZecTypes
<1>5. CASE UNCHANGED requests
  <2>1. ZecTypes'
    BY <1>1, <1>2, <1>5 DEF ZecTypes
  <2>2. \A q \in DOMAIN requests : requests[q].generation \in Nat
    BY <1>1, RequestTyped
  <2>3. \A q \in DOMAIN requests' : ~ Live(q)'
    BY <1>1, <1>2, <1>5, <2>2 DEF Live, Generations, ZecTypes
  <2>4. Generations'
    BY <1>1, <1>2, <1>3, <1>5, <2>2 DEF Generations, ZecTypes
  <2>. QED  BY <1>2, <1>4, <2>1, <2>3, <2>4 DEF ZecInv
<1>6. CASE occupied = TRUE /\ requests' = Append(requests, [step |-> "request", address |-> None,
                                                         generation |-> page.generation + 1])
  <2>1. PICK r : r = [step |-> "request", address |-> None, generation |-> page.generation + 1]
    OBVIOUS
  <2>2. r \in ZecRequests /\ r.generation = page.generation + 1
    BY <1>1, <2>1 DEF ZecRequests, ZecSteps, ZecTypes
  <2>3. /\ requests' \in Seq(ZecRequests) /\ DOMAIN requests' = 1..(Len(requests) + 1)
        /\ \A q \in 1..Len(requests) : requests'[q] = requests[q]
        /\ requests'[Len(requests) + 1] = r
    BY <1>1, <1>6, <2>1, <2>2, AppendProperties DEF ZecTypes
  <2>4. DOMAIN requests = 1..Len(requests) /\ Len(requests) \in Nat
    BY <1>1 DEF ZecTypes
  <2>5. \A q \in DOMAIN requests : requests[q].generation \in Nat /\ requests[q].generation <= page.generation
    BY <1>1, RequestTyped DEF Generations
  <2>6. ZecTypes'
    BY <1>1, <1>2, <2>3 DEF ZecTypes
  <2>7. \A q \in DOMAIN requests' : q \in DOMAIN requests \/ q = Len(requests) + 1
    BY <2>3, <2>4
  <2>8. \A q \in DOMAIN requests' : requests'[q].generation \in Nat /\ requests'[q].generation <= page'.generation
    BY <1>1, <1>2, <2>2, <2>3, <2>4, <2>5, <2>7 DEF ZecTypes
  <2>9. ASSUME NEW q \in DOMAIN requests', NEW s \in DOMAIN requests',
               requests'[q].generation = requests'[s].generation
        PROVE  q = s
    <3>1. q \in DOMAIN requests => requests'[q].generation <= page.generation
      BY <2>3, <2>4, <2>5
    <3>2. s \in DOMAIN requests => requests'[s].generation <= page.generation
      BY <2>3, <2>4, <2>5
    <3>3. ~ (page.generation + 1 <= page.generation)
      BY <1>1 DEF ZecTypes
    <3>4. q \in DOMAIN requests <=> s \in DOMAIN requests
      BY <2>2, <2>3, <2>7, <2>9, <3>1, <3>2, <3>3
    <3>. QED  BY <1>1, <2>3, <2>4, <2>7, <2>9, <3>4 DEF Generations
  <2>10. Generations'
    BY <1>1, <1>2, <1>3, <2>8, <2>9 DEF Generations
  <2>11. NothingReviewed'
    BY <1>2, <1>3, <1>6 DEF NothingReviewed
  <2>. QED  BY <1>2, <1>4, <2>6, <2>10, <2>11 DEF ZecInv
<1>. QED  BY <1>5, <1>6

\* A step of one connection leaves the generations of all.
LEMMA RequestMoves ==
  ASSUME ZecTypes, NEW q \in DOMAIN requests, NEW r \in ZecRequests,
         r.generation = requests[q].generation,
         requests' = [requests EXCEPT ![q] = r]
  PROVE  /\ requests' \in Seq(ZecRequests) /\ DOMAIN requests' = DOMAIN requests
         /\ requests'[q] = r
         /\ \A s \in DOMAIN requests : requests'[s].generation = requests[s].generation
         /\ \A s \in DOMAIN requests \ {q} : requests'[s] = requests[s]
BY DEF ZecTypes

\* A connection that goes on, or is discarded.
LEMMA RequestKeeps ==
  ASSUME ZecInv, NEW q \in DOMAIN requests, NEW r \in ZecRequests,
         requests[q].step # "over",
         r.generation = requests[q].generation,
         requests' = [requests EXCEPT ![q] = r],
         UNCHANGED <<zecAccount, page, polls, strayed>>
  PROVE  ZecInv' /\ EndsForCause
<1>1. /\ requests' \in Seq(ZecRequests) /\ DOMAIN requests' = DOMAIN requests
      /\ requests'[q] = r
      /\ \A s \in DOMAIN requests : requests'[s].generation = requests[s].generation
      /\ \A s \in DOMAIN requests \ {q} : requests'[s] = requests[s]
  BY RequestMoves DEF ZecInv
<1>2. ZecTypes' /\ Generations'
  BY <1>1 DEF ZecInv, ZecTypes, Generations
<1>3. ASSUME NEW s \in DOMAIN requests', Live(s)', requests'[s].step # "over" PROVE NothingReviewed'
  <2>1. s \in DOMAIN requests /\ Live(s) /\ requests[s].step # "over"
    BY <1>1, <1>3 DEF Live
  <2>2. NothingReviewed
    BY <2>1 DEF ZecInv
  <2>. QED  BY <2>2 DEF NothingReviewed
<1>4. page'.reviewed # None /\ ~strayed' => Stayed'
  BY DEF ZecInv, Stayed
<1>5. EndsForCause
  BY DEF EndsForCause
<1>. QED  BY <1>2, <1>3, <1>4, <1>5 DEF ZecInv

\* A connection that ends.
LEMMA ConcludeKeeps ==
  ASSUME ZecInv, NEW q \in DOMAIN requests, NEW address, NEW error \in BOOLEAN,
         requests[q].step # "over", Conclude(q, address, error),
         ~ error => zecAccount = address,
         UNCHANGED <<zecAccount, polls, strayed>>
  PROVE  ZecInv' /\ EndsForCause
<1>1. ZecTypes /\ Generations
  BY DEF ZecInv
<1>2. PICK r : r = [requests[q] EXCEPT !.step = "over"]
  OBVIOUS
<1>3. r \in ZecRequests /\ r.generation = requests[q].generation /\ r.step = "over"
  BY <1>1, <1>2, RequestTyped DEF ZecRequests, ZecSteps
<1>4. requests' = [requests EXCEPT ![q] = r]
  BY <1>2 DEF Conclude, AskPage
<1>5. /\ requests' \in Seq(ZecRequests) /\ DOMAIN requests' = DOMAIN requests
      /\ requests'[q] = r
      /\ \A s \in DOMAIN requests : requests'[s].generation = requests[s].generation
      /\ \A s \in DOMAIN requests \ {q} : requests'[s] = requests[s]
  BY <1>1, <1>3, <1>4, RequestMoves
<1>6. CASE Live(q)
  <2>1. NothingReviewed
    BY <1>6 DEF ZecInv
  <2>2. PICK seen : seen = IF error THEN None ELSE [address |-> address, generation |-> page.generation]
    OBVIOUS
  <2>3. page' = [page EXCEPT !.busy = FALSE, !.session = [address |-> address, error |-> error],
                             !.reviewed = seen]
    BY <1>6, <2>2 DEF Conclude
  <2>4. DOMAIN page' = DOMAIN page /\ page'.generation = page.generation /\ page'.reviewed = seen
    BY <1>1, <2>3 DEF ZecTypes
  <2>5. seen # None => seen.address = address /\ seen.generation = page.generation /\ zecAccount = address
    BY <2>2
  <2>6. ZecTypes'
    BY <1>1, <1>5, <2>4 DEF ZecTypes
  <2>7. Generations'
    BY <1>1, <1>5, <2>4, <2>5 DEF Generations
  <2>8. ASSUME NEW s \in DOMAIN requests', Live(s)', requests'[s].step # "over" PROVE FALSE
    <3>1. requests[s].generation = requests[q].generation
      BY <1>5, <1>6, <2>4, <2>8 DEF Live
    <3>2. s = q
      BY <1>1, <1>5, <2>8, <3>1 DEF Generations
    <3>. QED  BY <1>3, <1>5, <2>8, <3>2
  <2>9. page'.reviewed # None => Stayed'
    <3>1. \A p \in polls : p.of.generation # page.generation
      BY <2>1 DEF NothingReviewed
    <3>. QED  BY <2>4, <2>5, <3>1 DEF Stayed
  <2>10. EndsForCause
    BY <2>1, <2>4, <2>5 DEF EndsForCause, NothingReviewed
  <2>. QED  BY <2>6, <2>7, <2>8, <2>9, <2>10 DEF ZecInv
<1>7. CASE ~ Live(q)
  <2>1. page' = page
    BY <1>7 DEF Conclude
  <2>. QED  BY <1>3, <1>4, <2>1, RequestKeeps
<1>. QED  BY <1>6, <1>7

\* No step ends a reviewed session without cause, and every step keeps what that
\* rests on.
LEMMA ZecStep == ASSUME ZecInv, ZecNext PROVE ZecInv' /\ EndsForCause
<1>1. ZecTypes /\ Generations
  BY DEF ZecInv
<1>2. CASE SelectAccount
  <2>1. UNCHANGED <<page, requests, polls>> /\ strayed' = (page.reviewed # None)
        /\ zecAccount' \in ZecAccounts \cup {None}
    BY <1>2 DEF SelectAccount
  <2>2. ZecTypes' /\ Generations'
    BY <1>1, <2>1 DEF ZecTypes, Generations
  <2>3. \A q \in DOMAIN requests' : Live(q)' /\ requests'[q].step # "over" => NothingReviewed'
    BY <2>1 DEF ZecInv, Live, NothingReviewed
  <2>4. EndsForCause
    BY <2>1 DEF EndsForCause
  <2>. QED  BY <2>1, <2>2, <2>3, <2>4 DEF ZecInv
<1>3. CASE ConnectZec
  BY <1>3, AbandonKeeps DEF ConnectZec
<1>4. CASE CloseDialog
  BY <1>4, AbandonKeeps DEF CloseDialog
<1>5. CASE DisconnectZec
  BY <1>5, AbandonKeeps DEF DisconnectZec
<1>6. CASE ShowOrHide
  <2>1. /\ UNCHANGED <<zecAccount, requests, polls, strayed>> /\ DOMAIN page' = DOMAIN page
        /\ page'.generation = page.generation /\ page'.reviewed = page.reviewed /\ page'.busy = page.busy
    BY <1>1, <1>6 DEF ShowOrHide, ZecTypes
  <2>2. ZecTypes' /\ Generations'
    BY <1>1, <2>1 DEF ZecTypes, Generations
  <2>3. \A q \in DOMAIN requests' : Live(q)' /\ requests'[q].step # "over" => NothingReviewed'
    BY <2>1 DEF ZecInv, Live, NothingReviewed
  <2>4. page'.reviewed # None /\ ~strayed' => Stayed'
    BY <2>1 DEF ZecInv, Stayed
  <2>5. EndsForCause
    BY <2>1 DEF EndsForCause
  <2>. QED  BY <2>2, <2>3, <2>4, <2>5 DEF ZecInv
<1>7. CASE Poll
  <2>1. UNCHANGED <<zecAccount, page, requests>> /\ page.reviewed # None
    BY <1>7 DEF Poll
  <2>2. PICK p : /\ p.of = page.reviewed /\ polls' = polls \cup {p}
                 /\ \/ p.ok = StillSelected(page.reviewed.address) /\ strayed' = strayed
                    \/ strayed' = TRUE
    <3>1. CASE /\ polls' = polls \cup {[of |-> page.reviewed, ok |-> StillSelected(page.reviewed.address)]}
               /\ UNCHANGED strayed
      <4>1. PICK p : p = [of |-> page.reviewed, ok |-> StillSelected(page.reviewed.address)]
        OBVIOUS
      <4>. QED  BY <3>1, <4>1
    <3>2. CASE polls' = polls \cup {[of |-> page.reviewed, ok |-> FALSE]} /\ strayed' = TRUE
      <4>1. PICK p : p = [of |-> page.reviewed, ok |-> FALSE]
        OBVIOUS
      <4>. QED  BY <3>2, <4>1
    <3>. QED  BY <1>7, <3>1, <3>2 DEF Poll
  <2>3. ZecTypes'
    BY <1>1, <2>1, <2>2 DEF ZecTypes
  <2>4. Generations'
    BY <1>1, <2>1, <2>2 DEF Generations, ZecTypes
  <2>5. \A q \in DOMAIN requests' : ~ (Live(q)' /\ requests'[q].step # "over")
    BY <2>1 DEF ZecInv, Live, NothingReviewed
  <2>6. ~strayed' => Stayed'
    <3>. SUFFICES ASSUME ~strayed' PROVE Stayed'
      OBVIOUS
    <3>1. Stayed /\ p.ok = (zecAccount = page.reviewed.address)
      BY <2>1, <2>2 DEF ZecInv, StillSelected
    <3>. QED  BY <2>1, <2>2, <3>1 DEF Stayed
  <2>7. EndsForCause
    BY <2>1 DEF EndsForCause
  <2>. QED  BY <2>3, <2>4, <2>5, <2>6, <2>7 DEF ZecInv
<1>8. CASE TakeVerdict
  <2>1. PICK p \in polls :
          /\ polls' = polls \ {p}
          /\ page' = IF Undisposed(p) /\ ~p.ok
                     THEN [page EXCEPT !.reviewed = None, !.session = [address |-> None, error |-> TRUE]]
                     ELSE page
    BY <1>8 DEF TakeVerdict
  <2>2. UNCHANGED <<zecAccount, requests>> /\ strayed' = (strayed /\ page'.reviewed # None)
    BY <1>8 DEF TakeVerdict
  <2>3. /\ DOMAIN page' = DOMAIN page /\ page'.generation = page.generation /\ page'.busy = page.busy
        /\ page'.reviewed = IF Undisposed(p) /\ ~p.ok THEN None ELSE page.reviewed
    BY <1>1, <2>1 DEF ZecTypes
  <2>4. ZecTypes'
    BY <1>1, <2>2, <2>3 DEF ZecTypes
  <2>5. Generations'
    BY <1>1, <2>1, <2>2, <2>3 DEF Generations
  <2>6. ASSUME NEW q \in DOMAIN requests', Live(q)', requests'[q].step # "over" PROVE NothingReviewed'
    <3>1. NothingReviewed
      BY <2>2, <2>3, <2>6 DEF ZecInv, Live
    <3>. QED  BY <2>1, <2>3, <3>1 DEF NothingReviewed
  <2>7. page'.reviewed # None /\ ~strayed' => Stayed'
    <3>. SUFFICES ASSUME page'.reviewed # None, ~strayed' PROVE Stayed'
      OBVIOUS
    <3>1. page'.reviewed = page.reviewed /\ ~strayed
      BY <1>1, <2>2, <2>3
    <3>2. Stayed
      BY <3>1 DEF ZecInv
    <3>. QED  BY <2>1, <2>2, <3>1, <3>2 DEF Stayed
  <2>8. EndsForCause
    <3>1. ASSUME page.reviewed # None, page'.reviewed = None PROVE strayed
      <4>1. page.reviewed = p.of /\ ~p.ok
        BY <2>3, <3>1 DEF Undisposed
      <4>2. ~Stayed
        BY <4>1 DEF Stayed
      <4>. QED  BY <3>1, <4>2 DEF ZecInv
    <3>2. page.reviewed = None => page'.reviewed = None
      BY <2>3
    <3>. QED  BY <3>1, <3>2 DEF EndsForCause
  <2>. QED  BY <2>4, <2>5, <2>6, <2>7, <2>8 DEF ZecInv
<1>9. ASSUME NEW q \in DOMAIN requests, RequestZecAccounts(q) PROVE ZecInv' /\ EndsForCause
  <2>1. requests[q].step # "over" /\ UNCHANGED <<zecAccount, polls, strayed>>
    BY <1>9 DEF RequestZecAccounts
  <2>2. CASE Conclude(q, None, TRUE)
    BY <2>1, <2>2, ConcludeKeeps
  <2>3. CASE /\ requests' = [requests EXCEPT ![q].step = "sign", ![q].address = zecAccount]
             /\ UNCHANGED page
    <3>1. PICK r : r = [requests[q] EXCEPT !.step = "sign", !.address = zecAccount]
      OBVIOUS
    <3>2. requests' = [requests EXCEPT ![q] = r]
      BY <1>1, <2>3, <3>1 DEF ZecTypes
    <3>3. r \in ZecRequests /\ r.generation = requests[q].generation
      BY <1>1, <3>1, RequestTyped DEF ZecTypes, ZecRequests, ZecSteps
    <3>. QED  BY <2>1, <2>3, <3>2, <3>3, RequestKeeps
  <2>. QED  BY <1>9, <2>2, <2>3 DEF RequestZecAccounts
<1>10. ASSUME NEW q \in DOMAIN requests, ProveSourceAddressControl(q) PROVE ZecInv' /\ EndsForCause
  <2>1. requests[q].step # "over" /\ UNCHANGED <<zecAccount, polls, strayed>>
    BY <1>10 DEF ProveSourceAddressControl
  <2>2. CASE Conclude(q, requests[q].address, TRUE)
    BY <2>1, <2>2, ConcludeKeeps
  <2>3. CASE AskPage(q, "reread") /\ UNCHANGED page
    <3>1. PICK r : r = [requests[q] EXCEPT !.step = "reread"]
      OBVIOUS
    <3>2. requests' = [requests EXCEPT ![q] = r]
      BY <2>3, <3>1 DEF AskPage
    <3>3. r \in ZecRequests /\ r.generation = requests[q].generation
      BY <1>1, <3>1, RequestTyped DEF ZecTypes, ZecRequests, ZecSteps
    <3>. QED  BY <2>1, <2>3, <3>2, <3>3, RequestKeeps
  <2>. QED  BY <1>10, <2>2, <2>3 DEF ProveSourceAddressControl
<1>11. ASSUME NEW q \in DOMAIN requests, RereadZecAccount(q) PROVE ZecInv' /\ EndsForCause
  <2>1. requests[q].step # "over" /\ UNCHANGED <<zecAccount, polls, strayed>>
    BY <1>11 DEF RereadZecAccount
  <2>2. CASE Conclude(q, None, TRUE)
    BY <2>1, <2>2, ConcludeKeeps
  <2>3. CASE zecAccount = requests[q].address /\ Conclude(q, requests[q].address, FALSE)
    BY <2>1, <2>3, ConcludeKeeps
  <2>. QED  BY <1>11, <2>2, <2>3 DEF RereadZecAccount
<1>. QED  BY <1>2, <1>3, <1>4, <1>5, <1>6, <1>7, <1>8, <1>9, <1>10, <1>11 DEF ZecNext

\* A stutter leaves both as they are.
LEMMA ZecStutter == ASSUME ZecInv, UNCHANGED zecVars PROVE ZecInv' /\ EndsForCause
<1>1. UNCHANGED <<zecAccount, zecMoves, page, requests, polls, strayed>>
  BY DEF zecVars
<1>2. ZecTypes' /\ Generations'
  BY <1>1 DEF ZecInv, ZecTypes, Generations
<1>3. \A q \in DOMAIN requests' : Live(q)' /\ requests'[q].step # "over" => NothingReviewed'
  BY <1>1 DEF ZecInv, Live, NothingReviewed
<1>4. page'.reviewed # None /\ ~strayed' => Stayed'
  BY <1>1 DEF ZecInv, Stayed
<1>5. EndsForCause
  BY <1>1 DEF EndsForCause
<1>. QED  BY <1>2, <1>3, <1>4, <1>5 DEF ZecInv

\* A reviewed session ends only with its user's next choice or when the wallet has
\* left its account, and only the connection still wanted brings one about, however
\* many connections and readings are under way (landing-wallet-connect.tsx).
THEOREM ReviewEnds == ZecSpec => ReviewedEndsForCause
<1>1. ZecInit => ZecInv
  BY ZecStart
<1>2. ZecInv /\ [ZecNext]_zecVars => ZecInv' /\ EndsForCause
  BY ZecStep, ZecStutter
<1>3. EndsForCause =>
        /\ page.reviewed # None /\ page'.reviewed = None /\ page'.generation = page.generation => strayed
        /\ page.reviewed = None /\ page'.reviewed # None => page.busy /\ zecAccount = page'.reviewed.address
  BY DEF EndsForCause
<1>. QED  BY <1>1, <1>2, <1>3, PTL DEF ZecSpec, ReviewedEndsForCause

-----------------------------------------------------------------------------
(* Account recovery. *)

RecoverySpec == RecoveryInit /\ [][RecoveryNext]_recoveryVars

OpenOrders == [seq : Nat, expiry : Int, epoch : Nat]

\* Every open order has a sequence of its own, and what was open when the recovery
\* began has one that was given by then.
LiveTypes ==
  /\ applied \in Nat /\ recoveryNow \in Nat /\ issued \in Nat /\ liveEpoch \in Nat
  /\ live \subseteq OpenOrders /\ IsFiniteSet(live)
  /\ \A o \in live : o.seq <= applied
  /\ \A o, p \in live : o.seq = p.seq => o = p
  /\ \A n \in since : n \in Nat /\ n <= applied

Rising(s) == \A i, j \in DOMAIN s : i < j => s[i].seq < s[j].seq

\* Orders a recovery after a sequence must list: open all along, and still.
Owed(after) == {o \in live : o.seq \in since /\ o.seq > after /\ o.expiry > recoveryNow}

\* A page has what it must have up to its cursor, or all of it when it is the last,
\* whatever has become of the state since.
PageSound(c) ==
  /\ c.after \in Nat /\ c.page.nextAfter \in Nat /\ c.after <= c.page.nextAfter
  /\ c.page.orders \in Seq(OpenOrders) /\ Rising(c.page.orders)
  /\ \A i \in DOMAIN c.page.orders :
        /\ c.page.orders[i] \in ever
        /\ c.after < c.page.orders[i].seq /\ c.page.orders[i].seq <= c.page.nextAfter
  /\ \A o \in Owed(c.after) : (c.page.hasMore => o.seq <= c.page.nextAfter) =>
        \E i \in DOMAIN c.page.orders : c.page.orders[i] = o

\* And so has the client, up to its own cursor.
VisitSound ==
  /\ visitor.start \in Nat /\ visitor.after \in Nat
  /\ visitor.orders \in Seq(OpenOrders) /\ Rising(visitor.orders)
  /\ \A i \in DOMAIN visitor.orders :
        visitor.orders[i] \in ever /\ visitor.orders[i].seq <= visitor.after
  /\ \A o \in Owed(visitor.start) : (visitor.phase # "done" => o.seq <= visitor.after) =>
        \E i \in DOMAIN visitor.orders : visitor.orders[i] = o

\* The challenge the wallet signs is for the page after the client's cursor.
ChallengeSound ==
  /\ visitor.challenge.id \in Nat /\ visitor.challenge.id < issued
  /\ visitor.challenge.after = visitor.after
  /\ \A c \in challenges : c.id = visitor.challenge.id => PageSound(c)

AnswerSound ==
  /\ PageSound(post.answer) /\ post.answer.after = visitor.after
  /\ post.kind = "ask" =>
       /\ post.answer.id \in Nat /\ post.answer.id < issued
       /\ \A c \in challenges : c.id = post.answer.id => c = post.answer

PostSound ==
  /\ DOMAIN post = {"kind", "stage", "now", "answer"}
  /\ post.kind = "ask" => visitor.phase = "asking"
  /\ post.kind = "prove" => visitor.phase = "proving"
  /\ post.kind \in {"ask", "prove"}
  /\ post.stage # "sent" => post.now \in Nat /\ post.now <= recoveryNow
  /\ post.stage = "answered" => AnswerSound

ChallengeIds == \A c \in challenges : c.id \in Nat /\ c.id < issued

VisitTypes ==
  DOMAIN visitor = {"phase", "start", "after", "pages", "checkpoint", "epoch", "orders", "challenge"}

RecoveryInv ==
  /\ LiveTypes /\ VisitTypes /\ ChallengeIds
  /\ visitor.phase \in {"asking", "signing", "proving", "done"} => live \subseteq ever /\ VisitSound
  /\ visitor.phase \in {"signing", "proving"} => ChallengeSound
  /\ post # None => PostSound
  /\ visitor.phase = "idle" => ever = {}

\* Nothing is open and nothing is asked at first.
LEMMA RecoveryStart == ASSUME RecoveryInit PROVE RecoveryInv
<1>1. LiveTypes
  BY FS_EmptySet DEF RecoveryInit, LiveTypes
<1>2. VisitTypes /\ visitor.phase = "idle"
  BY DEF RecoveryInit, Resting, VisitTypes
<1>3. challenges = {} /\ post = None /\ ever = {}
  BY DEF RecoveryInit
<1>. QED  BY <1>1, <1>2, <1>3 DEF RecoveryInv, ChallengeIds

\* The page of a challenge has the orders of the moment it was issued.
LEMMA PageIsSound ==
  ASSUME RecoveryAssumption, LiveTypes, live \subseteq ever,
         NEW after \in Nat, NEW now \in Nat, now <= recoveryNow, NEW c, c.after = after,
         c.page = RecoveryOpenOrderPage(Matching(after, now), after)
  PROVE  PageSound(c)
<1>. DEFINE those == {o \in live : o.seq > after /\ o.expiry > now}
            key == [o \in those |-> o.seq]
<1>1. those \subseteq OpenOrders /\ IsFiniteSet(those)
  <2>1. those \in SUBSET live /\ IsFiniteSet(live) /\ live \subseteq OpenOrders
    BY DEF LiveTypes
  <2>. HIDE DEF those
  <2>. QED  BY <2>1, FS_Subset
<1>2. \A o \in those : o \in live /\ o.seq \in Nat /\ o.seq > after
  BY <1>1 DEF OpenOrders
<1>3. \A o, p \in those : o.seq = p.seq => o = p
  BY DEF LiveTypes
<1>4. \A o \in Owed(after) : o \in those
  <2>1. \A o \in live : o.expiry \in Int
    BY DEF LiveTypes, OpenOrders
  <2>. QED  BY <2>1 DEF Owed, LiveTypes
<1>5. PICK m : m = Matching(after, now)
  OBVIOUS
<1>6. m = CHOOSE s \in [1..Cardinality(those) -> those] :
            \A i, j \in 1..Cardinality(those) : i < j => s[i].seq < s[j].seq
  BY <1>5 DEF Matching, InSequence
<1>. HIDE DEF those
<1>7. key \in [those -> Int] /\ \A x, y \in those : key[x] = key[y] => x = y
  BY <1>2, <1>3
<1>8. PICK n \in Nat : n = Cardinality(those)
  BY <1>1, FS_CardinalityType
<1>9. \E s \in [1..n -> those] : \A i, j \in 1..n : i < j => key[s[i]] < key[s[j]]
  <2>. HIDE DEF key
  <2>. QED  BY <1>1, <1>7, <1>8, OrderExists
<1>10. \E s \in [1..n -> those] : \A i, j \in 1..n : i < j => s[i].seq < s[j].seq
  <2>1. PICK s \in [1..n -> those] : \A i, j \in 1..n : i < j => key[s[i]] < key[s[j]]
    BY <1>9
  <2>2. \A i \in 1..n : key[s[i]] = s[i].seq
    OBVIOUS
  <2>. HIDE DEF key
  <2>3. \A i, j \in 1..n : i < j => s[i].seq < s[j].seq
    BY <2>1, <2>2
  <2>. QED  BY <2>3
<1>11. m \in [1..n -> those] /\ \A i, j \in 1..n : i < j => m[i].seq < m[j].seq
  BY <1>6, <1>8, <1>10
<1>12. \A i, j \in 1..n : i < j => key[m[i]] < key[m[j]]
  BY <1>11
<1>13. m \in Seq(those) /\ Len(m) = n /\ \A x \in those : \E i \in 1..n : m[i] = x
  <2>1. /\ m \in Seq(those) /\ Len(m) = Cardinality(those)
        /\ \A x \in those : \E i \in DOMAIN m : m[i] = x
    <3>. HIDE DEF key
    <3>. QED  BY <1>1, <1>7, <1>8, <1>11, <1>12, OrderIsAll
  <2>. QED  BY <1>8, <1>11, <2>1
<1>14. PICK l \in Nat : l = (IF n < PageLimit THEN n ELSE PageLimit)
  BY DEF RecoveryAssumption
<1>15. l <= n /\ (l = 0 => n = 0)
  BY <1>14 DEF RecoveryAssumption
<1>16. PICK shown : shown = SubSeq(m, 1, l)
  OBVIOUS
<1>17. shown \in Seq(those) /\ Len(shown) = l /\ \A i \in 1..l : shown[i] = m[i]
  <2>1. \A i \in 1..l : m[i] \in those
    BY <1>11, <1>15
  <2>. QED  BY <1>16, <2>1, SubSeqProperties
<1>18. c.page = [orders |-> shown, nextAfter |-> IF shown = <<>> THEN after ELSE Last(shown).seq,
                 hasMore |-> n > l]
  BY <1>5, <1>13, <1>14, <1>16, <1>17 DEF RecoveryOpenOrderPage, Shown
<1>19. c.page.orders = shown
  BY <1>18
<1>27. n > l => c.page.hasMore
  <2>1. c.page.hasMore = (n > l)
    BY <1>18
  <2>. QED  BY <2>1, Zenon
<1>20. c.page.nextAfter = IF l = 0 THEN after ELSE m[l].seq
  <2>1. shown = <<>> <=> l = 0
    BY <1>17
  <2>2. l # 0 => Last(shown) = m[l]
    BY <1>17 DEF Last
  <2>. QED  BY <1>18, <2>1, <2>2
<1>21. \A i \in 1..l : m[i] \in those /\ m[i].seq <= c.page.nextAfter
  <2>. SUFFICES ASSUME NEW i \in 1..l PROVE m[i] \in those /\ m[i].seq <= c.page.nextAfter
    OBVIOUS
  <2>1. i \in 1..n /\ l \in 1..n /\ m[i] \in those /\ m[l] \in those /\ c.page.nextAfter = m[l].seq
    BY <1>11, <1>15, <1>20
  <2>2. m[i].seq \in Nat /\ m[l].seq \in Nat
    BY <1>2, <2>1
  <2>3. i < l => m[i].seq < m[l].seq
    BY <1>11, <2>1
  <2>. QED  BY <2>1, <2>2, <2>3
<1>22. c.page.nextAfter \in Nat /\ after <= c.page.nextAfter
  <2>1. l # 0 => m[l].seq \in Nat /\ m[l].seq > after
    BY <1>2, <1>11, <1>15
  <2>. QED  BY <1>20, <2>1
<1>23. c.page.orders \in Seq(OpenOrders) /\ DOMAIN c.page.orders = 1..l
  <2>1. shown \in Seq(OpenOrders) /\ DOMAIN shown = 1..l
    BY <1>1, <1>17
  <2>. QED  BY <1>19, <2>1
<1>24. Rising(c.page.orders)
  BY <1>11, <1>15, <1>17, <1>19, <1>23 DEF Rising
<1>25. \A i \in DOMAIN c.page.orders :
          /\ c.page.orders[i] \in ever
          /\ c.after < c.page.orders[i].seq /\ c.page.orders[i].seq <= c.page.nextAfter
  <2>1. \A i \in 1..l : c.page.orders[i] = m[i]
    BY <1>17, <1>19
  <2>. QED  BY <1>2, <1>21, <1>23, <2>1
<1>26. ASSUME NEW o \in Owed(c.after), c.page.hasMore => o.seq <= c.page.nextAfter
       PROVE  \E i \in DOMAIN c.page.orders : c.page.orders[i] = o
  <2>1. o \in those /\ o.seq \in Nat
    BY <1>2, <1>4, <1>26
  <2>2. PICK k \in 1..n : m[k] = o
    BY <1>13, <2>1
  <2>3. k <= l
    <3>. SUFFICES ASSUME l < k PROVE FALSE
      OBVIOUS
    <3>1. l \in 1..n /\ n > l /\ c.page.nextAfter = m[l].seq
      BY <1>15, <1>20
    <3>2. m[l].seq < m[k].seq /\ m[l].seq \in Nat
      BY <1>2, <1>11, <3>1
    <3>. QED  BY <1>26, <1>27, <2>1, <2>2, <3>1, <3>2
  <2>. QED  BY <1>17, <1>19, <1>23, <2>2, <2>3
<1>. QED  BY <1>22, <1>23, <1>24, <1>25, <1>26 DEF PageSound

\* What the state may do between two steps of the recovery: no order that was
\* open all along comes back, time passes, and other challenges come and go.
Drift ==
  /\ LiveTypes' /\ recoveryNow <= recoveryNow' /\ issued <= issued'
  /\ \A o \in live' : o.seq \in since' => o \in live /\ o.seq \in since
  /\ ever \subseteq ever'
  /\ \A c \in challenges' :
       c \in challenges \/ (c.id \in Nat /\ issued <= c.id /\ c.id < issued')

\* So what was owed before is the most that is owed now.
LEMMA OwedLess ==
  ASSUME LiveTypes, Drift, NEW after
  PROVE  \A o \in Owed(after)' : o \in Owed(after)
<1>1. \A o \in live' : o.expiry \in Int
  BY DEF Drift, LiveTypes, OpenOrders
<1>. QED  BY <1>1 DEF Owed, Drift, LiveTypes

\* A page that is on its way stays sound,
LEMMA PageStays ==
  ASSUME LiveTypes, Drift, NEW c, PageSound(c)
  PROVE  PageSound(c)'
<1>1. \A o \in Owed(c.after)' : o \in Owed(c.after)
  BY OwedLess
<1>2. \A o : o \in ever => o \in ever'
  BY DEF Drift
<1>. QED  BY <1>1, <1>2 DEF PageSound, Rising

\* so does what the client has,
LEMMA VisitStays ==
  ASSUME LiveTypes, Drift, VisitSound,
         visitor'.start = visitor.start, visitor'.after = visitor.after,
         visitor'.orders = visitor.orders, visitor.phase # "done" \/ visitor'.phase = "done",
         visitor'.phase # "done" \/ visitor.phase = "done"
  PROVE  VisitSound'
<1>1. \A o \in Owed(visitor.start)' : o \in Owed(visitor.start)
  <2>1. PICK after : after = visitor.start /\ after = visitor'.start
    OBVIOUS
  <2>2. \A o \in Owed(after)' : o \in Owed(after)
    BY OwedLess
  <2>. QED  BY <2>1, <2>2 DEF Owed
<1>2. \A o : o \in ever => o \in ever'
  BY DEF Drift
<1>. QED  BY <1>1, <1>2 DEF VisitSound, Rising

\* the challenge it signs,
LEMMA ChallengeStays ==
  ASSUME LiveTypes, Drift, ChallengeSound,
         visitor'.challenge = visitor.challenge, visitor'.after = visitor.after
  PROVE  ChallengeSound'
<1>1. PICK d : d = visitor.challenge /\ d = visitor'.challenge
  OBVIOUS
<1>2. issued \in Nat /\ issued' \in Nat
  BY DEF Drift, LiveTypes
<1>3. d.id \in Nat /\ d.id < issued /\ d.after = visitor.after
  BY <1>1 DEF ChallengeSound
<1>4. ASSUME NEW c \in challenges', c.id = d.id PROVE PageSound(c)'
  <2>1. c \in challenges
    BY <1>2, <1>3, <1>4 DEF Drift
  <2>2. PageSound(c)
    BY <1>1, <1>4, <2>1 DEF ChallengeSound
  <2>. QED  BY <2>2, PageStays
<1>5. d.id < issued'
  BY <1>2, <1>3 DEF Drift
<1>. QED  BY <1>1, <1>3, <1>4, <1>5 DEF ChallengeSound

\* and the answer it waits for.
LEMMA AnswerStays ==
  ASSUME LiveTypes, Drift, AnswerSound, visitor'.after = visitor.after,
         post'.answer = post.answer, post'.kind = post.kind
  PROVE  AnswerSound'
<1>1. PICK a : a = post.answer /\ a = post'.answer
  OBVIOUS
<1>2. PageSound(a) /\ a.after = visitor'.after
  BY <1>1 DEF AnswerSound
<1>3. PageSound(a)'
  BY <1>2, PageStays
<1>4. ASSUME post.kind = "ask"
      PROVE  a.id \in Nat /\ a.id < issued' /\ \A c \in challenges' : c.id = a.id => c = a
  <2>1. a.id \in Nat /\ a.id < issued /\ \A c \in challenges : c.id = a.id => c = a
    BY <1>1, <1>4 DEF AnswerSound
  <2>2. issued \in Nat /\ issued' \in Nat /\ issued <= issued'
    BY DEF Drift, LiveTypes
  <2>3. \A c \in challenges' : c.id = a.id => c \in challenges
    BY <2>1, <2>2 DEF Drift
  <2>. QED  BY <2>1, <2>2, <2>3
<1>. QED  BY <1>1, <1>2, <1>3, <1>4 DEF AnswerSound

\* The recovery is where it was while the state drifts.
LEMMA DriftKeeps ==
  ASSUME RecoveryInv, Drift, UNCHANGED <<visitor, post>>,
         visitor.phase \in {"asking", "signing", "proving", "done"} => live' \subseteq ever',
         visitor.phase = "idle" => ever' = {}
  PROVE  RecoveryInv'
<1>1. LiveTypes /\ LiveTypes' /\ VisitTypes'
  BY DEF RecoveryInv, Drift, VisitTypes
<1>2. ChallengeIds'
  <2>1. issued \in Nat /\ issued' \in Nat /\ issued <= issued'
    BY DEF Drift, RecoveryInv, LiveTypes
  <2>. QED  BY <2>1 DEF ChallengeIds, RecoveryInv, Drift
<1>3. visitor'.phase \in {"asking", "signing", "proving", "done"} => live' \subseteq ever' /\ VisitSound'
  BY <1>1, VisitStays DEF RecoveryInv
<1>4. visitor'.phase \in {"signing", "proving"} => ChallengeSound'
  BY <1>1, ChallengeStays DEF RecoveryInv
<1>5. ASSUME post' # None PROVE PostSound'
  <2>1. PostSound /\ recoveryNow \in Nat /\ recoveryNow' \in Nat /\ recoveryNow <= recoveryNow'
    BY <1>1, <1>5 DEF RecoveryInv, LiveTypes, Drift
  <2>2. post'.stage = "answered" => AnswerSound'
    BY <1>1, <2>1, AnswerStays DEF PostSound
  <2>. QED  BY <2>1, <2>2 DEF PostSound
<1>. QED  BY <1>1, <1>2, <1>3, <1>4, <1>5 DEF RecoveryInv

\* What the client has is not touched by a step of the server's or the gateway's.
LEMMA RestOfVisit ==
  ASSUME RecoveryInv, Drift, UNCHANGED <<visitor, live>>,
         ChallengeIds', post' # None => PostSound', visitor.phase = "idle" => ever' = {}
  PROVE  RecoveryInv'
<1>1. LiveTypes /\ LiveTypes' /\ VisitTypes'
  BY DEF RecoveryInv, Drift, VisitTypes
<1>2. visitor'.phase \in {"asking", "signing", "proving", "done"} => live' \subseteq ever' /\ VisitSound'
  <2>1. ever \subseteq ever' /\ live' = live /\ visitor' = visitor
    BY DEF Drift
  <2>. QED  BY <1>1, <2>1, VisitStays DEF RecoveryInv
<1>3. visitor'.phase \in {"signing", "proving"} => ChallengeSound'
  BY <1>1, ChallengeStays DEF RecoveryInv
<1>. QED  BY <1>1, <1>2, <1>3 DEF RecoveryInv

\* A recovery that fails has nothing more to answer for.
LEMMA FailKeeps ==
  ASSUME RecoveryInv, FailRecovery, LiveTypes', ChallengeIds'
  PROVE  RecoveryInv'
<1>1. VisitTypes' /\ visitor'.phase = "failed" /\ post' = None
  BY DEF FailRecovery, Resting, VisitTypes
<1>. QED  BY <1>1 DEF RecoveryInv

\* A step of the recovery leaves the state.
Steady == UNCHANGED <<live, liveEpoch, applied, issued, challenges, recoveryNow, since, ever>>

\* Such a step is a drift.
LEMMA SteadyDrifts ==
  ASSUME LiveTypes, Steady
  PROVE  Drift /\ LiveTypes' /\ (ChallengeIds => ChallengeIds')
<1>1. LiveTypes'
  BY DEF LiveTypes, Steady
<1>2. ChallengeIds => ChallengeIds'
  BY DEF ChallengeIds, Steady
<1>3. recoveryNow <= recoveryNow' /\ issued <= issued'
  BY DEF LiveTypes, Steady
<1>4. UNCHANGED <<live, since, ever, challenges>>
  BY DEF Steady
<1>5. \A o \in live' : o.seq \in since' => o \in live /\ o.seq \in since
  BY <1>4
<1>6. ever \subseteq ever'
  BY <1>4
<1>7. \A c \in challenges' :
        c \in challenges \/ (c.id \in Nat /\ issued <= c.id /\ c.id < issued')
  BY <1>4
<1>. QED  BY <1>1, <1>2, <1>3, <1>5, <1>6, <1>7 DEF Drift

\* What a mutation leaves open was open, or is the order it accepts.
LEMMA MutateKeeps ==
  ASSUME RecoveryInv, NEW open, Mutate(open), liveEpoch' \in Nat,
         open \subseteq OpenOrders, IsFiniteSet(open),
         \A o \in open : o \in live \/ o.seq = applied + 1,
         \A o, p \in open : o.seq = p.seq => o = p
  PROVE  RecoveryInv'
<1>1. /\ live' = open /\ applied' = applied + 1 /\ since' = since \cap {o.seq : o \in open}
      /\ ever' = IF visitor.phase = "idle" THEN {} ELSE ever \cup open
      /\ UNCHANGED <<challenges, issued, visitor, post, recoveryNow>>
  BY DEF Mutate
<1>2. LiveTypes /\ (visitor.phase = "idle" => ever = {})
  BY DEF RecoveryInv
<1>3. LiveTypes'
  <2>1. applied \in Nat /\ (\A o \in live : o.seq \in Nat /\ o.seq <= applied)
    BY <1>2 DEF LiveTypes, OpenOrders
  <2>2. \A o \in open : o.seq <= applied'
    BY <1>1, <2>1
  <2>3. \A n \in since' : n \in Nat /\ n <= applied'
    BY <1>1, <1>2 DEF LiveTypes
  <2>. QED  BY <1>1, <1>2, <2>1, <2>2, <2>3 DEF LiveTypes
<1>4. ASSUME NEW o \in live', o.seq \in since' PROVE o \in live /\ o.seq \in since
  <2>1. o.seq \in since /\ o.seq # applied + 1
    BY <1>1, <1>2, <1>4 DEF LiveTypes
  <2>. QED  BY <1>1, <1>4, <2>1
<1>5. recoveryNow <= recoveryNow' /\ issued <= issued'
  BY <1>1, <1>2 DEF LiveTypes
<1>6. ever \subseteq ever'
  BY <1>1, <1>2
<1>7. \A c \in challenges' :
        c \in challenges \/ (c.id \in Nat /\ issued <= c.id /\ c.id < issued')
  BY <1>1
<1>8. Drift
  BY <1>3, <1>4, <1>5, <1>6, <1>7 DEF Drift
<1>9. visitor.phase \in {"asking", "signing", "proving", "done"} => live' \subseteq ever'
  BY <1>1
<1>10. visitor.phase = "idle" => ever' = {}
  BY <1>1
<1>11. UNCHANGED <<visitor, post>>
  BY <1>1
<1>. QED  BY <1>8, <1>9, <1>10, <1>11, DriftKeeps

\* Nothing of the recovery moves but, perhaps, time and the challenges.
LEMMA RestKeeps ==
  ASSUME RecoveryInv, UNCHANGED <<live, liveEpoch, since, ever, visitor, post, applied>>,
         recoveryNow' \in Nat, issued' \in Nat, recoveryNow <= recoveryNow', issued <= issued',
         \A c \in challenges' :
           c \in challenges \/ (c.id \in Nat /\ issued <= c.id /\ c.id < issued')
  PROVE  RecoveryInv'
<1>1. LiveTypes'
  BY DEF RecoveryInv, LiveTypes
<1>2. Drift
  BY <1>1 DEF Drift
<1>3. visitor.phase \in {"asking", "signing", "proving", "done"} => live' \subseteq ever'
  BY DEF RecoveryInv
<1>4. visitor.phase = "idle" => ever' = {}
  BY DEF RecoveryInv
<1>. QED  BY <1>2, <1>3, <1>4, DriftKeeps

\* The steps of the store, the clock and the other visitor keep the invariant.
LEMMA StoreSteps ==
  ASSUME RecoveryAssumption, RecoveryInv,
         AcceptOwn \/ CloseOrFill \/ AdvanceOwnEpoch \/ WriteCheckpoint \/ RestartMatcher
           \/ OtherChallenge \/ RecoverySecond
  PROVE  RecoveryInv'
<1>1. LiveTypes /\ ChallengeIds
  BY DEF RecoveryInv
<1>2. CASE AcceptOwn
  <2>1. PICK e \in OrderExpiries :
          Mutate(live \cup {[seq |-> applied + 1, expiry |-> e, epoch |-> liveEpoch]})
    BY <1>2 DEF AcceptOwn
  <2>2. PICK o : o = [seq |-> applied + 1, expiry |-> e, epoch |-> liveEpoch]
    OBVIOUS
  <2>3. o \in OpenOrders /\ o.seq = applied + 1 /\ liveEpoch' = liveEpoch /\ liveEpoch \in Nat
    BY <1>1, <1>2, <2>2 DEF RecoveryAssumption, LiveTypes, OpenOrders, AcceptOwn
  <2>4. PICK open : open = live \cup {o}
    OBVIOUS
  <2>5. open \subseteq OpenOrders /\ IsFiniteSet(open)
    BY <1>1, <2>3, <2>4, FS_AddElement DEF LiveTypes
  <2>6. \A p \in live : p.seq \in Nat /\ p.seq # applied + 1
    BY <1>1 DEF LiveTypes, OpenOrders
  <2>7. \A p, q \in open : p.seq = q.seq => p = q
    BY <1>1, <2>3, <2>4, <2>6 DEF LiveTypes
  <2>8. \A p \in open : p \in live \/ p.seq = applied + 1
    BY <2>3, <2>4
  <2>9. Mutate(open)
    BY <2>1, <2>2, <2>4
  <2>. QED  BY <2>3, <2>5, <2>7, <2>8, <2>9, MutateKeeps
<1>3. CASE CloseOrFill
  <2>1. liveEpoch' = liveEpoch /\ \E open \in SUBSET live : Mutate(open)
    BY <1>3 DEF CloseOrFill
  <2>2. PICK open \in SUBSET live : Mutate(open)
    BY <2>1
  <2>3. IsFiniteSet(open) /\ open \subseteq OpenOrders /\ liveEpoch' \in Nat
    BY <1>1, <2>1, FS_Subset DEF LiveTypes
  <2>4. \A o, p \in open : o.seq = p.seq => o = p
    BY <1>1 DEF LiveTypes
  <2>. QED  BY <2>2, <2>3, <2>4, MutateKeeps
<1>4. CASE AdvanceOwnEpoch
  <2>1. PICK open : open = {} /\ Mutate(open) /\ liveEpoch' = 1
    BY <1>4 DEF AdvanceOwnEpoch
  <2>2. IsFiniteSet(open)
    BY <2>1, FS_EmptySet
  <2>. QED  BY <2>1, <2>2, MutateKeeps
<1>5. CASE WriteCheckpoint
  <2>1. UNCHANGED <<live, liveEpoch, since, ever, visitor, post, applied, challenges, issued, recoveryNow>>
    BY <1>5 DEF WriteCheckpoint
  <2>2. recoveryNow' \in Nat /\ issued' \in Nat /\ recoveryNow <= recoveryNow' /\ issued <= issued'
    BY <1>1, <2>1 DEF LiveTypes
  <2>3. \A c \in challenges' : c \in challenges \/ (c.id \in Nat /\ issued <= c.id /\ c.id < issued')
    BY <2>1
  <2>. QED  BY <2>1, <2>2, <2>3, RestKeeps
<1>6. CASE RestartMatcher
  <2>1. UNCHANGED <<live, liveEpoch, applied, issued, recoveryNow, since, ever>> /\ challenges' = {}
    BY <1>6 DEF RestartMatcher
  <2>2. CASE post = None
    <3>1. UNCHANGED <<visitor, post>>
      BY <1>6, <2>2 DEF RestartMatcher
    <3>2. recoveryNow' \in Nat /\ issued' \in Nat /\ recoveryNow <= recoveryNow' /\ issued <= issued'
      BY <1>1, <2>1 DEF LiveTypes
    <3>3. \A c \in challenges' : c \in challenges \/ (c.id \in Nat /\ issued <= c.id /\ c.id < issued')
      BY <2>1
    <3>. QED  BY <2>1, <3>1, <3>2, <3>3, RestKeeps
  <2>3. CASE post # None
    <3>1. FailRecovery
      BY <1>6, <2>3 DEF RestartMatcher, FailRecovery
    <3>2. LiveTypes' /\ ChallengeIds'
      BY <1>1, <2>1 DEF LiveTypes, ChallengeIds
    <3>. QED  BY <3>1, <3>2, FailKeeps
  <2>. QED  BY <2>2, <2>3
<1>7. CASE OtherChallenge
  <2>1. UNCHANGED <<live, liveEpoch, applied, visitor, post, recoveryNow, since, ever>> /\ issued' = issued + 1
    BY <1>7 DEF OtherChallenge
  <2>2. PICK d : /\ d.id = issued
                 /\ challenges' = Pruned(recoveryNow) \cup {d}
    <3>1. PICK d : d = [id |-> issued, after |-> 0, checkpoint |-> checkpointed, epoch |-> 0,
                        issuedAt |-> recoveryNow, page |-> RecoveryOpenOrderPage(<<>>, 0),
                        expires |-> recoveryNow + ChallengeSeconds]
      OBVIOUS
    <3>. QED  BY <1>7, <3>1 DEF OtherChallenge
  <2>3. \A c \in challenges' : c \in challenges \/ c.id = issued
    BY <2>2 DEF Pruned
  <2>4. issued \in Nat /\ recoveryNow \in Nat
    BY <1>1 DEF LiveTypes
  <2>5. issued' \in Nat /\ recoveryNow' \in Nat /\ issued <= issued' /\ issued < issued' /\ recoveryNow <= recoveryNow'
    BY <2>1, <2>4
  <2>6. \A c \in challenges' : c \in challenges \/ (c.id \in Nat /\ issued <= c.id /\ c.id < issued')
    <3>. SUFFICES ASSUME NEW c \in challenges', c \notin challenges
                  PROVE  c.id \in Nat /\ issued <= c.id /\ c.id < issued'
      OBVIOUS
    <3>1. c.id = issued
      BY <2>3
    <3>. QED  BY <2>4, <2>5, <3>1
  <2>. QED  BY <2>1, <2>5, <2>6, RestKeeps
<1>8. CASE RecoverySecond
  <2>1. UNCHANGED <<live, liveEpoch, since, ever, visitor, post, applied, challenges, issued>>
        /\ recoveryNow' = recoveryNow + 1
    BY <1>8 DEF RecoverySecond
  <2>2. recoveryNow' \in Nat /\ issued' \in Nat /\ recoveryNow <= recoveryNow' /\ issued <= issued'
    BY <1>1, <2>1 DEF LiveTypes
  <2>3. \A c \in challenges' : c \in challenges \/ (c.id \in Nat /\ issued <= c.id /\ c.id < issued')
    BY <2>1
  <2>. QED  BY <2>1, <2>2, <2>3, RestKeeps
<1>. QED  BY <1>2, <1>3, <1>4, <1>5, <1>6, <1>7, <1>8

\* A recovery starts with nothing listed and nothing owed before its cursor.
LEMMA BeginKeeps ==
  ASSUME RecoveryAssumption, RecoveryInv, BeginRecovery
  PROVE  RecoveryInv'
<1>1. PICK a \in Starts : visitor' = [Resting EXCEPT !.phase = "asking", !.start = a, !.after = a]
  BY DEF BeginRecovery
<1>2. /\ since' = {o.seq : o \in live} /\ ever' = live
      /\ UNCHANGED <<live, liveEpoch, applied, challenges, issued, recoveryNow>>
      /\ post' = [kind |-> "ask", stage |-> "sent", now |-> None, answer |-> None]
  BY DEF BeginRecovery, Send
<1>3. a \in Nat /\ LiveTypes /\ ChallengeIds
  BY DEF RecoveryAssumption, RecoveryInv
<1>4. /\ visitor'.phase = "asking" /\ visitor'.start = a /\ visitor'.after = a
      /\ visitor'.orders = <<>> /\ VisitTypes'
  BY <1>1 DEF Resting, VisitTypes
<1>5. LiveTypes'
  <2>1. \A n \in since' : n \in Nat /\ n <= applied'
    BY <1>2, <1>3 DEF LiveTypes, OpenOrders
  <2>. QED  BY <1>2, <1>3, <2>1 DEF LiveTypes
<1>6. ChallengeIds'
  BY <1>2, <1>3 DEF ChallengeIds
<1>7. PostSound'
  BY <1>2, <1>4 DEF PostSound
<1>8. VisitSound'
  <2>1. visitor'.orders \in Seq(OpenOrders) /\ DOMAIN visitor'.orders = {}
    BY <1>4
  <2>2. \A o \in Owed(visitor.start)' : ~ (o.seq <= visitor'.after)
    <3>1. \A o \in live' : o.seq \in Nat
      BY <1>5 DEF LiveTypes, OpenOrders
    <3>. QED  BY <1>3, <1>4, <3>1 DEF Owed
  <2>. QED  BY <1>3, <1>4, <2>1, <2>2 DEF VisitSound, Rising
<1>. QED  BY <1>2, <1>4, <1>5, <1>6, <1>7, <1>8 DEF RecoveryInv

\* The server takes the time when the request arrives.
LEMMA ArriveKeeps ==
  ASSUME RecoveryInv, Arrive
  PROVE  RecoveryInv'
<1>1. Steady
  BY DEF Arrive, Steady
<1>2. LiveTypes /\ ChallengeIds /\ post # None /\ PostSound /\ post.stage = "sent"
  BY DEF RecoveryInv, Arrive
<1>3. Drift /\ LiveTypes' /\ ChallengeIds'
  BY <1>1, <1>2, SteadyDrifts
<1>4. CASE FailRecovery
  BY <1>3, <1>4, FailKeeps
<1>5. CASE post' = [post EXCEPT !.stage = "reading", !.now = recoveryNow] /\ UNCHANGED visitor
  <2>1. /\ DOMAIN post' = {"kind", "stage", "now", "answer"} /\ post'.kind = post.kind
        /\ post'.stage = "reading" /\ post'.now = recoveryNow
    BY <1>2, <1>5 DEF PostSound
  <2>2. recoveryNow \in Nat /\ recoveryNow' = recoveryNow
    BY <1>1, <1>2 DEF LiveTypes, Steady
  <2>3. PostSound'
    BY <1>2, <1>5, <2>1, <2>2 DEF PostSound
  <2>4. VisitTypes' /\ (visitor.phase = "idle" => ever' = {})
    BY <1>1, <1>5 DEF RecoveryInv, VisitTypes, Steady
  <2>5. UNCHANGED <<visitor, live>>
    BY <1>1, <1>5 DEF Steady
  <2>. QED  BY <1>3, <2>3, <2>4, <2>5, RestOfVisit
<1>. QED  BY <1>4, <1>5 DEF Arrive

\* The challenge of a page is a new one, and the page is sound when it is issued.
LEMMA IssueKeeps ==
  ASSUME RecoveryAssumption, RecoveryInv, IssueChallenge
  PROVE  RecoveryInv'
<1>1. /\ post # None /\ post.kind = "ask" /\ post.stage = "reading"
      /\ UNCHANGED <<live, liveEpoch, applied, serving, recoveryNow, since, ever>>
  BY DEF IssueChallenge
<1>2. LiveTypes /\ ChallengeIds /\ PostSound
  BY <1>1 DEF RecoveryInv
<1>3. /\ visitor.phase = "asking" /\ live \subseteq ever /\ VisitSound
      /\ post.now \in Nat /\ post.now <= recoveryNow /\ visitor.after \in Nat
      /\ DOMAIN post = {"kind", "stage", "now", "answer"}
  <2>1. visitor.phase = "asking" /\ post.now \in Nat /\ post.now <= recoveryNow
        /\ DOMAIN post = {"kind", "stage", "now", "answer"}
    BY <1>1, <1>2 DEF PostSound
  <2>. QED  BY <2>1 DEF RecoveryInv, VisitSound
<1>5. PICK fetched, kept :
        /\ fetched = RecoveryOpenOrderPage(Matching(visitor.after, post.now), visitor.after)
        /\ kept \subseteq challenges
        /\ \/ /\ challenges' \in {kept, challenges} /\ issued' = issued /\ FailRecovery
           \/ \E c : /\ c = [id |-> issued, after |-> visitor.after, checkpoint |-> checkpointed,
                             epoch |-> liveEpoch, page |-> fetched, issuedAt |-> post.now,
                             expires |-> post.now + ChallengeSeconds]
                    /\ challenges' = kept \cup {c} /\ issued' = issued + 1
                    /\ post' = [post EXCEPT !.stage = "answered", !.answer = c]
                    /\ UNCHANGED visitor
  BY DEF IssueChallenge, Pruned
<1>6. CASE challenges' \in {kept, challenges} /\ issued' = issued /\ FailRecovery
  <2>1. LiveTypes'
    BY <1>1, <1>2, <1>6 DEF LiveTypes
  <2>2. ChallengeIds'
    BY <1>2, <1>5, <1>6 DEF ChallengeIds
  <2>. QED  BY <1>6, <2>1, <2>2, FailKeeps
<1>7. ASSUME NEW c,
             c = [id |-> issued, after |-> visitor.after, checkpoint |-> checkpointed,
                  epoch |-> liveEpoch, page |-> fetched, issuedAt |-> post.now,
                  expires |-> post.now + ChallengeSeconds],
             challenges' = kept \cup {c}, issued' = issued + 1,
             post' = [post EXCEPT !.stage = "answered", !.answer = c], UNCHANGED visitor
      PROVE  RecoveryInv'
  <2>1. c.id = issued /\ c.after = visitor.after /\ c.page = fetched
    BY <1>7
  <2>2. PageSound(c)
    BY <1>2, <1>3, <1>5, <2>1, PageIsSound
  <2>3. issued \in Nat /\ recoveryNow \in Nat
    BY <1>2 DEF LiveTypes
  <2>4. issued' \in Nat /\ issued <= issued' /\ issued < issued' /\ recoveryNow <= recoveryNow'
    BY <1>1, <1>7, <2>3
  <2>5. LiveTypes'
    BY <1>1, <1>2, <2>4 DEF LiveTypes
  <2>6. \A d \in challenges' : d \in challenges \/ d = c
    BY <1>5, <1>7
  <2>7. \A d \in challenges' : d \in challenges \/ (d.id \in Nat /\ issued <= d.id /\ d.id < issued')
    BY <2>1, <2>3, <2>4, <2>6
  <2>8. \A o \in live' : o.seq \in since' => o \in live /\ o.seq \in since
    BY <1>1
  <2>9. ever \subseteq ever'
    BY <1>1
  <2>10. Drift
    BY <2>4, <2>5, <2>7, <2>8, <2>9 DEF Drift
  <2>11. PageSound(c)'
    BY <1>2, <2>2, <2>10, PageStays
  <2>12. ChallengeIds'
    <3>. SUFFICES ASSUME NEW d \in challenges' PROVE d.id \in Nat /\ d.id < issued'
      BY DEF ChallengeIds
    <3>1. CASE d \in challenges
      <4>1. d.id \in Nat /\ d.id < issued
        BY <1>2, <3>1 DEF ChallengeIds
      <4>. QED  BY <2>3, <2>4, <4>1
    <3>. QED  BY <2>7, <3>1
  <2>13. \A d \in challenges' : d.id = c.id => d = c
    <3>1. \A d \in challenges : d.id # issued
      BY <1>2, <2>3 DEF ChallengeIds
    <3>. QED  BY <2>1, <2>6, <3>1
  <2>14. /\ DOMAIN post' = {"kind", "stage", "now", "answer"} /\ post'.kind = "ask"
         /\ post'.stage = "answered" /\ post'.now = post.now /\ post'.answer = c
    BY <1>1, <1>3, <1>7
  <2>15. AnswerSound'
    BY <1>7, <2>1, <2>3, <2>4, <2>11, <2>13, <2>14 DEF AnswerSound
  <2>16. PostSound'
    <3>1. visitor'.phase = "asking" /\ recoveryNow' = recoveryNow
      BY <1>1, <1>3, <1>7
    <3>. QED  BY <1>3, <2>14, <2>15, <3>1 DEF PostSound
  <2>17. UNCHANGED <<visitor, live>> /\ (visitor.phase = "idle" => ever' = {})
    BY <1>1, <1>3, <1>7
  <2>. QED  BY <2>10, <2>12, <2>16, <2>17, RestOfVisit
<1>. QED  BY <1>5, <1>6, <1>7

\* The client signs for the page after its own cursor.
LEMMA TakeChallengeKeeps ==
  ASSUME RecoveryInv, TakeChallenge
  PROVE  RecoveryInv'
<1>1. /\ post # None /\ post.kind = "ask" /\ post.stage = "answered" /\ Steady
  BY DEF TakeChallenge, Steady
<1>2. LiveTypes /\ ChallengeIds /\ PostSound /\ VisitTypes
  BY <1>1 DEF RecoveryInv
<1>3. Drift /\ LiveTypes' /\ ChallengeIds'
  BY <1>1, <1>2, SteadyDrifts
<1>4. CASE FailRecovery
  BY <1>3, <1>4, FailKeeps
<1>5. CASE /\ visitor' = [visitor EXCEPT !.phase = "signing", !.checkpoint = post.answer.checkpoint,
                                        !.challenge = Authorization(post.answer)]
           /\ post' = None
  <2>1. visitor.phase = "asking" /\ AnswerSound
    BY <1>1, <1>2 DEF PostSound
  <2>2. live \subseteq ever /\ VisitSound
    BY <2>1 DEF RecoveryInv
  <2>3. /\ visitor'.phase = "signing" /\ visitor'.start = visitor.start
        /\ visitor'.after = visitor.after /\ visitor'.orders = visitor.orders
        /\ visitor'.challenge = Authorization(post.answer) /\ VisitTypes'
    BY <1>2, <1>5 DEF VisitTypes
  <2>4. VisitSound'
    BY <1>2, <1>3, <2>1, <2>2, <2>3, VisitStays
  <2>5. PICK a : a = post.answer
    OBVIOUS
  <2>6. visitor'.challenge.id = a.id /\ visitor'.challenge.after = a.after
    BY <2>3, <2>5 DEF Authorization
  <2>7. /\ PageSound(a) /\ a.after = visitor'.after /\ a.id \in Nat /\ a.id < issued'
        /\ \A c \in challenges' : c.id = a.id => c = a
    BY <1>1, <2>1, <2>3, <2>5 DEF AnswerSound, Steady
  <2>8. PageSound(a)'
    BY <1>2, <1>3, <2>7, PageStays
  <2>9. ChallengeSound'
    BY <2>6, <2>7, <2>8 DEF ChallengeSound
  <2>10. live' \subseteq ever'
    BY <1>1, <2>2 DEF Steady
  <2>. QED  BY <1>3, <1>5, <2>3, <2>4, <2>9, <2>10 DEF RecoveryInv
<1>. QED  BY <1>4, <1>5 DEF TakeChallenge

\* The wallet signs the challenge the client took.
LEMMA SignProofKeeps ==
  ASSUME RecoveryInv, SignProof
  PROVE  RecoveryInv'
<1>1. visitor.phase = "signing" /\ Steady
  BY DEF SignProof, Steady
<1>2. LiveTypes /\ ChallengeIds /\ VisitTypes /\ live \subseteq ever /\ VisitSound /\ ChallengeSound
  BY <1>1 DEF RecoveryInv
<1>3. Drift /\ LiveTypes' /\ ChallengeIds'
  BY <1>1, <1>2, SteadyDrifts
<1>4. CASE FailRecovery
  BY <1>3, <1>4, FailKeeps
<1>5. CASE visitor' = [visitor EXCEPT !.phase = "proving"] /\ Send("prove")
  <2>1. /\ visitor'.phase = "proving" /\ visitor'.start = visitor.start
        /\ visitor'.after = visitor.after /\ visitor'.orders = visitor.orders
        /\ visitor'.challenge = visitor.challenge /\ VisitTypes'
    BY <1>2, <1>5 DEF VisitTypes
  <2>2. post' = [kind |-> "prove", stage |-> "sent", now |-> None, answer |-> None]
    BY <1>5 DEF Send
  <2>3. PostSound'
    BY <2>1, <2>2 DEF PostSound
  <2>4. VisitSound'
    BY <1>1, <1>2, <1>3, <2>1, VisitStays
  <2>5. ChallengeSound'
    BY <1>2, <1>3, <2>1, ChallengeStays
  <2>6. live' \subseteq ever'
    BY <1>1, <1>2 DEF Steady
  <2>. QED  BY <1>3, <2>1, <2>3, <2>4, <2>5, <2>6 DEF RecoveryInv
<1>. QED  BY <1>4, <1>5 DEF SignProof

\* The proof is answered with the page its challenge was issued with.
LEMMA AnswerKeeps ==
  ASSUME RecoveryInv, AnswerProof
  PROVE  RecoveryInv'
<1>1. /\ post # None /\ post.kind = "prove" /\ post.stage = "reading"
      /\ UNCHANGED <<live, liveEpoch, applied, issued, recoveryNow, since, ever>>
  BY DEF AnswerProof
<1>2. LiveTypes /\ ChallengeIds /\ PostSound
  BY <1>1 DEF RecoveryInv
<1>3. /\ visitor.phase = "proving" /\ post.now \in Nat /\ post.now <= recoveryNow
      /\ DOMAIN post = {"kind", "stage", "now", "answer"}
  BY <1>1, <1>2 DEF PostSound
<1>4. ChallengeSound
  BY <1>3 DEF RecoveryInv
<1>5. PICK held :
        /\ held = {c \in challenges : Authorization(c) = visitor.challenge}
        /\ \/ FailRecovery /\ challenges' = challenges
           \/ /\ held # {} /\ challenges' = challenges \ held
              /\ post' = [post EXCEPT !.stage = "answered", !.answer = CHOOSE c \in held : TRUE]
              /\ UNCHANGED visitor
  BY DEF AnswerProof
<1>6. LiveTypes' /\ challenges' \subseteq challenges
  <2>1. challenges' \subseteq challenges
    BY <1>5
  <2>. QED  BY <1>1, <1>2, <2>1 DEF LiveTypes
<1>7. ChallengeIds'
  BY <1>1, <1>2, <1>6 DEF ChallengeIds
<1>8. CASE FailRecovery
  BY <1>6, <1>7, <1>8, FailKeeps
<1>9. CASE /\ held # {} /\ challenges' = challenges \ held
           /\ post' = [post EXCEPT !.stage = "answered", !.answer = CHOOSE c \in held : TRUE]
           /\ UNCHANGED visitor
  <2>1. PICK a : a = CHOOSE c \in held : TRUE
    OBVIOUS
  <2>2. a \in held
    BY <1>9, <2>1
  <2>3. a \in challenges /\ Authorization(a) = visitor.challenge
    BY <1>5, <2>2
  <2>4. a.id = visitor.challenge.id /\ a.after = visitor.challenge.after
    <3>1. Authorization(a).id = a.id /\ Authorization(a).after = a.after
      BY DEF Authorization
    <3>. QED  BY <2>3, <3>1
  <2>5. PageSound(a) /\ a.after = visitor.after
    BY <1>4, <2>3, <2>4 DEF ChallengeSound
  <2>6. recoveryNow <= recoveryNow' /\ issued <= issued'
    BY <1>1, <1>2 DEF LiveTypes
  <2>7. \A c \in challenges' : c \in challenges \/ (c.id \in Nat /\ issued <= c.id /\ c.id < issued')
    BY <1>6
  <2>8. \A o \in live' : o.seq \in since' => o \in live /\ o.seq \in since
    BY <1>1
  <2>9. ever \subseteq ever'
    BY <1>1
  <2>10. Drift
    BY <1>6, <2>6, <2>7, <2>8, <2>9 DEF Drift
  <2>11. PageSound(a)'
    BY <1>2, <2>5, <2>10, PageStays
  <2>12. /\ DOMAIN post' = {"kind", "stage", "now", "answer"} /\ post'.kind = "prove"
         /\ post'.stage = "answered" /\ post'.now = post.now /\ post'.answer = a
    BY <1>1, <1>3, <1>9, <2>1
  <2>13. AnswerSound'
    BY <1>9, <2>5, <2>11, <2>12 DEF AnswerSound
  <2>14. PostSound'
    <3>1. visitor'.phase = "proving" /\ recoveryNow' = recoveryNow
      BY <1>1, <1>3, <1>9
    <3>. QED  BY <1>3, <2>12, <2>13, <3>1 DEF PostSound
  <2>15. UNCHANGED <<visitor, live>> /\ (visitor.phase = "idle" => ever' = {})
    BY <1>1, <1>3, <1>9
  <2>. QED  BY <1>7, <2>10, <2>14, <2>15, RestOfVisit
<1>. QED  BY <1>5, <1>8, <1>9

\* The client adds the page to what it has: past its cursor, up to the next one.
LEMMA PageIsAdded ==
  ASSUME LiveTypes, VisitSound, NEW a, PageSound(a), a.after = visitor.after, Steady,
         visitor.phase # "done", visitor'.start = visitor.start,
         visitor'.orders = visitor.orders \o a.page.orders, visitor'.after = a.page.nextAfter,
         visitor'.phase = "done" => ~a.page.hasMore
  PROVE  VisitSound'
<1>1. PICK m, p, after, next :
        m = visitor.orders /\ p = a.page.orders /\ after = visitor.after /\ next = a.page.nextAfter
  OBVIOUS
<1>2. /\ after \in Nat /\ next \in Nat /\ after <= next
      /\ m \in Seq(OpenOrders) /\ Rising(m) /\ p \in Seq(OpenOrders) /\ Rising(p)
      /\ \A i \in DOMAIN m : m[i] \in ever /\ m[i].seq <= after
      /\ \A i \in DOMAIN p : p[i] \in ever /\ after < p[i].seq /\ p[i].seq <= next
  BY <1>1 DEF VisitSound, PageSound
<1>3. PICK k \in Nat, l \in Nat : k = Len(m) /\ l = Len(p)
  BY <1>2
<1>4. PICK s : s = m \o p
  OBVIOUS
<1>5. /\ s \in Seq(OpenOrders) /\ DOMAIN s = 1..(k + l) /\ DOMAIN m = 1..k /\ DOMAIN p = 1..l
      /\ \A i \in 1..k : s[i] = m[i]
      /\ \A i \in 1..l : s[k + i] = p[i]
  <2>1. s \in Seq(OpenOrders) /\ Len(s) = k + l
    BY <1>2, <1>3, <1>4, ConcatProperties
  <2>2. \A i \in 1..(k + l) : s[i] = IF i <= k THEN m[i] ELSE p[i - k]
    BY <1>2, <1>3, <1>4, ConcatProperties
  <2>3. \A i \in 1..k : s[i] = m[i]
    BY <2>2
  <2>4. ASSUME NEW i \in 1..l PROVE s[k + i] = p[i]
    <3>1. k + i \in 1..(k + l) /\ ~ (k + i <= k) /\ (k + i) - k = i
      OBVIOUS
    <3>. QED  BY <2>2, <3>1
  <2>. QED  BY <1>2, <1>3, <2>1, <2>3, <2>4
<1>6. \A i \in 1..(k + l) : i \in 1..k \/ \E j \in 1..l : i = k + j
  <2>. SUFFICES ASSUME NEW i \in 1..(k + l), i \notin 1..k PROVE \E j \in 1..l : i = k + j
    OBVIOUS
  <2>1. k < i /\ i <= k + l /\ i \in Int /\ i = k + (i - k)
    OBVIOUS
  <2>2. i - k \in 1..l
    BY <2>1
  <2>. QED  BY <2>1, <2>2
<1>7. /\ \A i \in 1..k : m[i].seq \in Nat
      /\ \A i \in 1..l : p[i].seq \in Nat
  <2>1. (\A i \in 1..k : m[i] \in OpenOrders) /\ (\A i \in 1..l : p[i] \in OpenOrders)
    BY <1>2, <1>5
  <2>. QED  BY <2>1 DEF OpenOrders
<1>8. Rising(s)
  <2>. SUFFICES ASSUME NEW i \in 1..(k + l), NEW j \in 1..(k + l), i < j
                PROVE  s[i].seq < s[j].seq
    BY <1>5 DEF Rising
  <2>1. CASE i \in 1..k /\ j \in 1..k
    BY <1>2, <1>5, <2>1 DEF Rising
  <2>2. ASSUME NEW v \in 1..l, j = k + v, i \in 1..k PROVE s[i].seq < s[j].seq
    <3>1. s[i].seq = m[i].seq /\ s[j].seq = p[v].seq
      BY <1>5, <2>2
    <3>2. m[i].seq <= after /\ after < p[v].seq
      BY <1>2, <1>5, <2>2
    <3>. QED  BY <1>2, <1>7, <2>2, <3>1, <3>2
  <2>3. ASSUME NEW u \in 1..l, NEW v \in 1..l, i = k + u, j = k + v PROVE s[i].seq < s[j].seq
    <3>1. s[i].seq = p[u].seq /\ s[j].seq = p[v].seq /\ u < v
      BY <1>5, <2>3
    <3>. QED  BY <1>2, <1>5, <3>1 DEF Rising
  <2>4. ~ \E u \in 1..l : i = k + u /\ j \in 1..k
    OBVIOUS
  <2>. QED  BY <1>6, <2>1, <2>2, <2>3, <2>4
<1>9. \A i \in 1..(k + l) : s[i] \in ever /\ s[i].seq <= next
  <2>1. \A i \in 1..k : s[i] \in ever /\ s[i].seq <= next
    <3>. SUFFICES ASSUME NEW i \in 1..k PROVE s[i] \in ever /\ s[i].seq <= next
      OBVIOUS
    <3>1. s[i] = m[i] /\ m[i].seq \in Nat /\ m[i] \in ever /\ m[i].seq <= after
      BY <1>2, <1>5, <1>7
    <3>. QED  BY <1>2, <3>1
  <2>2. \A i \in 1..l : s[k + i] \in ever /\ s[k + i].seq <= next
    BY <1>2, <1>5
  <2>. QED  BY <1>6, <2>1, <2>2
<1>10. UNCHANGED <<live, since, recoveryNow, ever>>
  BY DEF Steady
<1>11. visitor'.orders = s /\ visitor'.after = next /\ visitor'.start = visitor.start
  BY <1>1, <1>4
<1>12. ASSUME NEW o \in Owed(visitor.start), visitor'.phase # "done" => o.seq <= next
       PROVE  \E i \in 1..(k + l) : s[i] = o
  <2>1. o \in live /\ o.seq \in Nat
    BY DEF Owed, LiveTypes, OpenOrders
  <2>2. CASE o.seq <= after
    <3>1. PICK i \in DOMAIN m : m[i] = o
      BY <1>1, <2>2 DEF VisitSound
    <3>. QED  BY <1>5, <3>1
  <2>3. CASE after < o.seq
    <3>1. o \in Owed(a.after)
      BY <1>1, <2>3 DEF Owed
    <3>2. a.page.hasMore => o.seq <= next
      BY <1>12
    <3>3. PICK i \in DOMAIN p : p[i] = o
      BY <1>1, <3>1, <3>2 DEF PageSound
    <3>4. k + i \in 1..(k + l) /\ s[k + i] = o
      BY <1>5, <3>3
    <3>. QED  BY <3>4
  <2>. QED  BY <1>2, <2>1, <2>2, <2>3
<1>13. \A o \in Owed(visitor.start)' : o \in Owed(visitor.start)
  <2>1. PICK st : st = visitor.start /\ st = visitor'.start
    OBVIOUS
  <2>. QED  BY <1>10, <2>1 DEF Owed
<1>14. visitor'.start \in Nat
  BY DEF VisitSound
<1>15. \A o \in Owed(visitor.start)' : (visitor'.phase # "done" => o.seq <= visitor'.after) =>
          \E i \in DOMAIN visitor'.orders : visitor'.orders[i] = o
  BY <1>5, <1>11, <1>12, <1>13
<1>16. \A i \in DOMAIN visitor'.orders :
          visitor'.orders[i] \in ever' /\ visitor'.orders[i].seq <= visitor'.after
  BY <1>5, <1>9, <1>10, <1>11
<1>17. visitor'.orders \in Seq(OpenOrders) /\ Rising(visitor'.orders)
  BY <1>5, <1>8, <1>11
<1>. QED  BY <1>2, <1>11, <1>14, <1>15, <1>16, <1>17 DEF VisitSound, Rising

\* The last page ends the recovery, another asks for the next.
LEMMA TakePageKeeps ==
  ASSUME RecoveryInv, TakePage
  PROVE  RecoveryInv'
<1>1. post # None /\ post.kind = "prove" /\ post.stage = "answered" /\ Steady
  BY DEF TakePage, Steady
<1>2. LiveTypes /\ ChallengeIds /\ PostSound /\ VisitTypes
  BY <1>1 DEF RecoveryInv
<1>3. Drift /\ LiveTypes' /\ ChallengeIds'
  BY <1>1, <1>2, SteadyDrifts
<1>4. visitor.phase = "proving" /\ AnswerSound
  BY <1>1, <1>2 DEF PostSound
<1>5. live \subseteq ever /\ VisitSound
  BY <1>4 DEF RecoveryInv
<1>6. PICK a : a = post.answer
  OBVIOUS
<1>7. PageSound(a) /\ a.after = visitor.after
  BY <1>4, <1>6 DEF AnswerSound
<1>8. CASE FailRecovery
  BY <1>3, <1>8, FailKeeps
<1>9. PICK seen :
        /\ seen = [visitor EXCEPT !.orders = visitor.orders \o a.page.orders, !.epoch = a.epoch,
                     !.after = a.page.nextAfter, !.pages = visitor.pages + 1, !.challenge = None]
  OBVIOUS
<1>10. /\ seen.start = visitor.start /\ seen.orders = visitor.orders \o a.page.orders
       /\ seen.after = a.page.nextAfter
       /\ DOMAIN seen = {"phase", "start", "after", "pages", "checkpoint", "epoch", "orders", "challenge"}
  BY <1>2, <1>9 DEF VisitTypes
<1>11. live' \subseteq ever'
  BY <1>1, <1>5 DEF Steady
<1>12. CASE ~a.page.hasMore /\ visitor' = [seen EXCEPT !.phase = "done"] /\ post' = None
  <2>1. /\ visitor'.phase = "done" /\ visitor'.start = visitor.start
        /\ visitor'.orders = visitor.orders \o a.page.orders /\ visitor'.after = a.page.nextAfter
        /\ VisitTypes'
    BY <1>10, <1>12 DEF VisitTypes
  <2>2. VisitSound'
    BY <1>1, <1>2, <1>4, <1>5, <1>7, <1>12, <2>1, PageIsAdded
  <2>. QED  BY <1>3, <1>11, <1>12, <2>1, <2>2 DEF RecoveryInv
<1>13. CASE visitor' = [seen EXCEPT !.phase = "asking"] /\ Send("ask")
  <2>1. /\ visitor'.phase = "asking" /\ visitor'.start = visitor.start
        /\ visitor'.orders = visitor.orders \o a.page.orders /\ visitor'.after = a.page.nextAfter
        /\ VisitTypes'
    BY <1>10, <1>13 DEF VisitTypes
  <2>2. post' = [kind |-> "ask", stage |-> "sent", now |-> None, answer |-> None]
    BY <1>13 DEF Send
  <2>3. PostSound'
    BY <2>1, <2>2 DEF PostSound
  <2>4. VisitSound'
    BY <1>1, <1>2, <1>4, <1>5, <1>7, <2>1, PageIsAdded
  <2>. QED  BY <1>3, <1>11, <2>1, <2>3, <2>4 DEF RecoveryInv
<1>14. FailRecovery \/ (~a.page.hasMore /\ visitor' = [seen EXCEPT !.phase = "done"] /\ post' = None)
         \/ (visitor' = [seen EXCEPT !.phase = "asking"] /\ Send("ask"))
  BY <1>6, <1>9 DEF TakePage
<1>. QED  BY <1>8, <1>12, <1>13, <1>14

\* So every step keeps the invariant.
LEMMA RecoveryStep ==
  ASSUME RecoveryAssumption, RecoveryInv, [RecoveryNext]_recoveryVars
  PROVE  RecoveryInv'
<1>1. CASE AcceptOwn \/ CloseOrFill \/ AdvanceOwnEpoch \/ WriteCheckpoint \/ RestartMatcher
             \/ OtherChallenge \/ RecoverySecond
  BY <1>1, StoreSteps
<1>2. CASE BeginRecovery
  BY <1>2, BeginKeeps
<1>3. CASE Arrive
  BY <1>3, ArriveKeeps
<1>4. CASE IssueChallenge
  BY <1>4, IssueKeeps
<1>5. CASE TakeChallenge
  BY <1>5, TakeChallengeKeeps
<1>6. CASE SignProof
  BY <1>6, SignProofKeeps
<1>7. CASE AnswerProof
  BY <1>7, AnswerKeeps
<1>8. CASE TakePage
  BY <1>8, TakePageKeeps
<1>9. CASE LosePost
  <2>1. FailRecovery /\ Steady
    BY <1>9 DEF LosePost, Steady
  <2>2. LiveTypes /\ ChallengeIds
    BY DEF RecoveryInv
  <2>. QED  BY <2>1, <2>2, SteadyDrifts, FailKeeps
<1>10. CASE UNCHANGED recoveryVars
  <2>1. UNCHANGED <<visitor, post>> /\ Steady
    BY <1>10 DEF recoveryVars, Steady
  <2>2. LiveTypes
    BY DEF RecoveryInv
  <2>3. Drift
    BY <2>1, <2>2, SteadyDrifts
  <2>4. visitor.phase \in {"asking", "signing", "proving", "done"} => live' \subseteq ever'
    BY <2>1 DEF RecoveryInv, Steady
  <2>5. visitor.phase = "idle" => ever' = {}
    BY <2>1 DEF RecoveryInv, Steady
  <2>. QED  BY <2>1, <2>3, <2>4, <2>5, DriftKeeps
<1>. QED  BY <1>1, <1>2, <1>3, <1>4, <1>5, <1>6, <1>7, <1>8, <1>9, <1>10 DEF RecoveryNext

\* What the invariant says of a recovery that is over.
LEMMA CompleteWhenDone ==
  ASSUME RecoveryInv
  PROVE  RecoveryComplete
<1>. SUFFICES ASSUME visitor.phase = "done" PROVE RecoveryComplete
  BY DEF RecoveryComplete
<1>1. VisitSound /\ LiveTypes
  BY DEF RecoveryInv
<1>2. PICK m : m = visitor.orders
  OBVIOUS
<1>3. m \in Seq(OpenOrders) /\ Rising(m) /\ \A i \in DOMAIN m : m[i] \in ever
  BY <1>1, <1>2 DEF VisitSound
<1>4. PICK listed : listed = [i \in DOMAIN m |-> m[i].seq]
  OBVIOUS
<1>5. \A i \in DOMAIN m : listed[i] = m[i].seq /\ listed[i] \in Nat
  <2>1. \A i \in DOMAIN m : m[i] \in OpenOrders
    BY <1>3
  <2>. QED  BY <1>4, <2>1 DEF OpenOrders
<1>6. listed \in Seq(Nat) /\ DOMAIN listed = DOMAIN m
  BY <1>3, <1>4, <1>5
<1>7. \A o \in Owed(visitor.start) : o.seq \in Range(listed)
  <2>. SUFFICES ASSUME NEW o \in Owed(visitor.start) PROVE o.seq \in Range(listed)
    OBVIOUS
  <2>1. PICK i \in DOMAIN m : m[i] = o
    BY <1>1, <1>2 DEF VisitSound
  <2>. QED  BY <1>5, <1>6, <2>1 DEF Range
<1>8. Range(m) \subseteq ever
  BY <1>3 DEF Range
<1>9. Cardinality(Range(listed)) = Len(listed)
  <2>1. \A i, j \in DOMAIN listed : listed[i] = listed[j] => i = j
    <3>. SUFFICES ASSUME NEW i \in DOMAIN listed, NEW j \in DOMAIN listed, i # j
                  PROVE  listed[i] # listed[j]
      OBVIOUS
    <3>1. i \in Nat /\ j \in Nat
      BY <1>6
    <3>2. i < j \/ j < i
      BY <3>1
    <3>3. listed[i] < listed[j] \/ listed[j] < listed[i]
      BY <1>3, <1>5, <1>6, <3>2 DEF Rising
    <3>. QED  BY <1>5, <1>6, <3>3
  <2>. QED  BY <1>6, <2>1, DistinctCount
<1>. QED  BY <1>2, <1>4, <1>7, <1>8, <1>9 DEF RecoveryComplete, Owed

\* A recovery that ends well lists every order that was open from its beginning to
\* its end, each once, and none that was not open meanwhile, however many pages it
\* took, whatever the matcher did between them and whoever else asked
\* (recoveryOpenOrderPage, recoverMatcherAccountOrders).
THEOREM RecoveryListsAll == RecoverySpec => []RecoveryComplete
<1>1. RecoveryInit => RecoveryInv
  BY RecoveryStart
<1>2. RecoveryInv /\ [RecoveryNext]_recoveryVars => RecoveryInv'
  BY RecoveryAssumption, RecoveryStep
<1>3. RecoveryInv => RecoveryComplete
  BY CompleteWhenDone
<1>. QED  BY <1>1, <1>2, <1>3, PTL DEF RecoverySpec

=============================================================================
