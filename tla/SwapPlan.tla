------------------------------- MODULE SwapPlan -------------------------------
(***************************************************************************)
(* From a fill to the terms two wallets are asked to sign.  The matcher    *)
(* plans a fill as two legs (atomic-swap-plan.ts), the plan is turned into *)
(* unsigned swap terms under a context of deadlines and policies chosen by *)
(* someone else (matcher-swap-terms.ts), the terms are validated           *)
(* (swap-domain.ts) and a swap is opened on them under a timing policy and *)
(* a market policy (swap-policy.ts).  Four parties to one agreement, each  *)
(* with settings of its own: the refund times come from the plan's policy, *)
(* the cutoffs from the context, the minimum windows from the timing       *)
(* policy.                                                                 *)
(*                                                                         *)
(* A hash stands for what was hashed; canonical spelling of identifiers is *)
(* left out; evidence policies are a matter of SwapState.                  *)
(***************************************************************************)
EXTENDS Integers, Sequences, Absent

CONSTANTS
  PlanParties,      \* [order, hash, accounts, kind]: a signed order as the matcher holds it
  PlannedFills,     \* [venue, index, base, price, fee, accepted]
  PlanPolicies,     \* [market, protocol, delay, delta]: pair, adapter, refund times
  TermsContexts,    \* [secret, authorize, zecFund, evmFund, cutoff, timing, markets]
  TimingPolicies,   \* [funding, claim, safety]: the minimum windows
  MarketPolicies,   \* sets of approved markets
  PriceDivisor,     \* 10000 in the code
  FirstLocktime, LastLocktime,   \* the timestamps a CLTV lock may carry
  MaxSwapTime

ASSUME SwapPlanAssumption ==
  /\ PriceDivisor \in Nat \ {0}
  /\ FirstLocktime \in Nat /\ LastLocktime \in Nat /\ MaxSwapTime \in Nat
  /\ \A party \in PlanParties : party.order.limit \in Nat
  /\ \A fill \in PlannedFills : fill.base \in Nat /\ fill.price \in Nat /\ fill.accepted \in Nat
  /\ \A policy \in PlanPolicies : policy.delay \in Nat /\ policy.delta \in Nat
  /\ \A context \in TermsContexts :
       /\ DOMAIN context = {"secret", "authorize", "zecFund", "evmFund", "cutoff", "timing", "markets"}
       /\ {context.authorize, context.zecFund, context.evmFund, context.cutoff} \subseteq Nat \cup {None}
  /\ \A policy \in TimingPolicies : policy.safety \in Nat

VARIABLES
  match,       \* the two parties and the fill, as the route made them
  stage,       \* "matched", "planned", "written", "opened", "refused"
  plan, terms,
  timing,      \* the timing policy the swap was opened under
  swapTime

planVars == <<match, stage, plan, terms, timing, swapTime>>

SwapPlanInit ==
  /\ match \in [taker : PlanParties, maker : PlanParties, fill : PlannedFills]
  /\ stage = "matched"
  /\ plan = None /\ terms = None /\ timing = None
  /\ swapTime = match.fill.accepted

-----------------------------------------------------------------------------
(* The plan.                                                               *)

DivideUp(a, b) == (a + b - 1) \div b

Buyer(m) == IF m.taker.order.side = "buy" THEN m.taker ELSE m.maker
Seller(m) == IF m.taker.order.side = "buy" THEN m.maker ELSE m.taker

(* What the buyer pays: rounded up when the maker sells, down when it buys.*)
PlannedQuote(m) ==
  IF m.maker.order.side = "sell" THEN DivideUp(m.fill.base * m.fill.price, PriceDivisor)
                                 ELSE (m.fill.base * m.fill.price) \div PriceDivisor

(* The rounded quote still keeps the limits both parties signed.           *)
QuoteKeepsLimits(m, quote) ==
  /\ quote >= DivideUp(m.fill.base * Seller(m).order.limit, PriceDivisor)
  /\ quote <= (m.fill.base * Buyer(m).order.limit) \div PriceDivisor

VenueAuthorized(m) ==
  /\ m.fill.venue \in m.taker.order.venues \cap m.maker.order.venues
  /\ m.maker.kind = "quote" => m.fill.venue = "solver"

(* The accounts shown are the ones the order names, and each is of the     *)
(* kind its role needs: a buyer pays from an EVM account and is paid to a  *)
(* Zcash public key hash, a seller the other way round.                    *)
AccountsBound(party) ==
  /\ party.accounts.source = party.order.maker
  /\ party.accounts.recipient = party.order.recipient

AccountRoles(party) ==
  IF party.order.side = "buy"
  THEN party.accounts.source.chain = "evm" /\ party.accounts.recipient.kind = "p2pkh"
  ELSE party.accounts.source.chain = "zec" /\ party.accounts.recipient.chain = "evm"

PairBound(party, policy) == party.order.market = policy.market

PolicyValid(policy) == policy.market.zecDecimals = 8 /\ policy.delay > 0 /\ policy.delta > 0

HashBound(party) == party.hash = party.order

Plannable(m, policy) ==
  /\ PolicyValid(policy)
  /\ VenueAuthorized(m)
  /\ m.fill.index \in 0..127
  /\ m.fill.accepted >= FirstLocktime
  /\ m.fill.price > 0 /\ m.fill.base > 0 /\ m.fill.fee = 0
  /\ m.taker.order.side # m.maker.order.side
  /\ m.taker.kind = "order" /\ m.taker.hash # m.maker.hash
  /\ \A party \in {m.taker, m.maker} :
       /\ PairBound(party, policy)
       /\ party.order.protocol = policy.protocol
       /\ AccountsBound(party) /\ AccountRoles(party) /\ HashBound(party)
       /\ party.order.expiry > m.fill.accepted
       /\ m.fill.base <= party.order.amount
       /\ IF party.order.side = "buy" THEN m.fill.price <= party.order.limit
                                      ELSE m.fill.price >= party.order.limit
  /\ PlannedQuote(m) > 0
  /\ QuoteKeepsLimits(m, PlannedQuote(m))

(* Fault: the ZEC leg's two accounts are swapped.                          *)
LegAccountsSwapped(m) ==
  [evm |-> [funder |-> Buyer(m).accounts.source, claimant |-> Seller(m).accounts.recipient,
            refundTo |-> Buyer(m).accounts.source],
   zec |-> [funder |-> Seller(m).accounts.source, claimant |-> Seller(m).accounts.source,
            refundTo |-> Buyer(m).accounts.recipient]]

(* Who funds each leg, who may claim it and to whom it is refunded.        *)
LegAccounts(m) ==
  [evm |-> [funder |-> Buyer(m).accounts.source, claimant |-> Seller(m).accounts.recipient,
            refundTo |-> Buyer(m).accounts.source],
   zec |-> [funder |-> Seller(m).accounts.source, claimant |-> Buyer(m).accounts.recipient,
            refundTo |-> Seller(m).accounts.source]]

PlanOf(m, policy) ==
  [market |-> policy.market, venue |-> m.fill.venue,
   base |-> m.fill.base, price |-> m.fill.price, quote |-> PlannedQuote(m),
   legs |-> LegAccounts(m),
   evmRefund |-> m.fill.accepted + policy.delay,
   zecRefund |-> m.fill.accepted + policy.delay + policy.delta]

(* An assertion of any of the steps throws, and nothing is made.           *)
Refuse == stage' = "refused" /\ UNCHANGED <<match, plan, terms, timing, swapTime>>

CreatePlan(policy) ==
  /\ stage = "matched"
  /\ IF Plannable(match, policy)
     THEN /\ stage' = "planned" /\ plan' = PlanOf(match, policy)
          /\ UNCHANGED <<match, terms, timing, swapTime>>
     ELSE Refuse

-----------------------------------------------------------------------------
(* The terms.                                                              *)

Deadlines(t) == <<t.authorize, t.zecFund, t.evmFund, t.cutoff, t.evmRefund, t.zecRefund>>

Increasing(s) == \A i \in 1..Len(s) - 1 : s[i] < s[i + 1]

(* A transparent lock carries its refund time as a CLTV timestamp, and the *)
(* script hash stands for everything the script says.                      *)
LockScript(secret, claimant, refundTo, refundTime) ==
  [secret |-> secret, claimant |-> claimant, refundTo |-> refundTo, refundTime |-> refundTime]

Complete(context) == \A field \in DOMAIN context : context[field] # None

ExactMainnet(p) == p.market.mainnet

(* The plan lets a seller pay from any transparent account; the terms take *)
(* only accounts that one key spends.                                      *)
SingleKeys(p) ==
  /\ p.legs.evm.funder.chain = "evm" /\ p.legs.evm.claimant.chain = "evm"
  /\ p.legs.zec.claimant.kind = "p2pkh" /\ p.legs.zec.refundTo.kind = "p2pkh"

TermsOf(m, p, context) ==
  [orders |-> [zec |-> Seller(m).hash, evm |-> Buyer(m).hash],
   sellers |-> [zec |-> Seller(m).order.maker, evm |-> Buyer(m).order.maker],
   market |-> p.market, base |-> p.base, quote |-> p.quote, price |-> p.price,
   fee |-> 0,
   legs |-> p.legs, secret |-> context.secret,
   lock |-> LockScript(context.secret, p.legs.zec.claimant, p.legs.zec.refundTo, p.zecRefund),
   authorize |-> context.authorize, zecFund |-> context.zecFund, evmFund |-> context.evmFund,
   cutoff |-> context.cutoff, evmRefund |-> p.evmRefund, zecRefund |-> p.zecRefund,
   timing |-> context.timing, markets |-> context.markets]

(* validateSwapTerms: the quote is the price of the amount exactly, so a   *)
(* fill whose cost was rounded is planned but never becomes terms.         *)
ValidTerms(t) ==
  /\ t.base > 0 /\ t.quote > 0 /\ t.price > 0
  /\ \A i \in 1..Len(Deadlines(t)) : Deadlines(t)[i] > 0
  /\ t.orders.zec # t.orders.evm
  /\ t.sellers.zec # t.sellers.evm
  /\ t.fee = 0
  /\ t.quote * PriceDivisor = t.base * t.price

WriteTerms(context) ==
  /\ stage = "planned"
  /\ IF /\ Complete(context)
        /\ plan.venue = "book" /\ ExactMainnet(plan) /\ SingleKeys(plan)
        /\ plan.zecRefund \in FirstLocktime..LastLocktime
        /\ context.authorize > match.fill.accepted
        /\ Increasing(Deadlines(TermsOf(match, plan, context)))
        /\ ValidTerms(TermsOf(match, plan, context))
     THEN /\ stage' = "written" /\ terms' = TermsOf(match, plan, context)
          /\ UNCHANGED <<match, plan, timing, swapTime>>
     ELSE Refuse

-----------------------------------------------------------------------------
(* The swap.                                                               *)

WindowsKept(t, policy) ==
  /\ Increasing(Deadlines(t))
  /\ t.zecFund - t.authorize >= policy.funding
  /\ t.evmFund - t.zecFund >= policy.funding
  /\ t.cutoff - t.evmFund >= policy.claim
  /\ t.evmRefund > t.cutoff + 1
  /\ t.zecRefund - t.evmRefund >= policy.safety

MarketApproved(t, markets) == markets = t.markets /\ markets # {} /\ t.market \in markets

OpenSwap(policy, markets) ==
  /\ stage = "written"
  /\ IF policy = terms.timing /\ WindowsKept(terms, policy) /\ MarketApproved(terms, markets)
     THEN /\ stage' = "opened" /\ timing' = policy
          /\ UNCHANGED <<match, plan, terms, swapTime>>
     ELSE Refuse

SwapTick ==
  /\ stage = "opened" /\ swapTime < MaxSwapTime
  /\ swapTime' = swapTime + 1
  /\ UNCHANGED <<match, stage, plan, terms, timing>>

(* What the times allow, as the settlement ticket reads them.              *)
DeadlineStatus(t, now) ==
  [authorizationOpen |-> now < t.authorize, zecFundingOpen |-> now < t.zecFund,
   evmFundingOpen |-> now <= t.evmFund, evmClaimSafe |-> now <= t.cutoff,
   evmRefundEligible |-> now >= t.evmRefund, zecRefundEligible |-> now >= t.zecRefund]

RoleOf(t, party) ==
  IF party = t.sellers.zec THEN "zec-seller"
  ELSE IF party = t.sellers.evm THEN "stablecoin-seller" ELSE None

SwapPlanNext ==
  \/ \E policy \in PlanPolicies : CreatePlan(policy)
  \/ \E context \in TermsContexts : WriteTerms(context)
  \/ \E policy \in TimingPolicies, markets \in MarketPolicies : OpenSwap(policy, markets)
  \/ SwapTick

SwapPlanSpec == SwapPlanInit /\ [][SwapPlanNext]_planVars

-----------------------------------------------------------------------------
(* A swap that was opened is one both parties signed up to, whichever of   *)
(* them was the taker and whatever was rounded on the way: the ZEC party   *)
(* gets its price, in its own account, and the other party pays no more    *)
(* than its limit; the ZEC leg pays the buyer's key on the shared secret   *)
(* and only the seller's key after that; and at every moment until then    *)
(* the windows leave room: funding closes before claims do, a claim that   *)
(* is still safe never meets an open refund, and from the last moment the  *)
(* secret can come out on the EVM side until the ZEC refund opens there is *)
(* at least the safety window the policy asks for.                         *)
TermsBindBoth ==
  stage = "opened" =>
    LET status == DeadlineStatus(terms, swapTime)
        bought == Buyer(match).order
        sold == Seller(match).order
    IN /\ terms.quote * PriceDivisor <= terms.base * bought.limit
       /\ terms.quote * PriceDivisor >= terms.base * sold.limit
       /\ terms.base <= bought.amount /\ terms.base <= sold.amount
       /\ terms.legs.evm.claimant = sold.recipient /\ terms.legs.evm.refundTo = bought.maker
       /\ terms.lock.claimant = bought.recipient /\ terms.lock.refundTo = sold.maker
       /\ terms.lock.secret = terms.secret /\ terms.lock.refundTime = terms.zecRefund
       /\ RoleOf(terms, bought.maker) = "stablecoin-seller"
       /\ RoleOf(terms, sold.maker) = "zec-seller"
       /\ status.zecFundingOpen => status.evmFundingOpen
       /\ status.evmFundingOpen => status.evmClaimSafe
       /\ ~(status.evmClaimSafe /\ status.evmRefundEligible)
       /\ status.zecRefundEligible => swapTime - terms.evmRefund >= timing.safety
=============================================================================
