------------------------------ MODULE Matcher -------------------------------
(***************************************************************************)
(* The persistent matcher (persistent-matcher.ts with order-reference.ts   *)
(* and order-lifecycle.ts): the state an event of the journal applies to,  *)
(* and every event.  Each action is one call of applyPersistentMatcherEvent*)
(* at the event's time t, up to its return; a call that throws changes     *)
(* nothing.  Signatures are those of the signer an order, a quote or a     *)
(* control names.                                                          *)
(***************************************************************************)
EXTENDS Routing

CONSTANTS
  Accounts, Signers, None,
  Orders, Quotes,          \* what is ever signed
  Requests,                \* request identifiers; they bound the events
  MaxTime, MaxEpoch,       \* bounds
  MinimumBase, MaximumBase, MaxLifetime, MaxQuoteLifetime,
  MaxAccepted, MaxOpen, MaxOpenPerAccount, MaxQuotes, MaxCapacity

(* What is signed names its account and its signer, its epoch and the      *)
(* second it expires at; an order an amount and a price, a quote amounts   *)
(* and the levels of its prices.                                           *)
ASSUME SignedFields ==
  /\ None \notin Signers /\ Orders \cap Quotes = {}
  /\ \A o \in Orders \cup Quotes :
        o.maker \in Accounts /\ o.signer \in Signers /\ o.epoch \in Nat /\ o.expiry \in Nat
  /\ \A o \in Orders :
        o.base \in Nat /\ o.price \in Nat /\ o.tif \in {"gtc", "ioc", "fok"}
  /\ \A q \in Quotes :
        /\ q.capacity \in Nat /\ q.minimum \in Nat
        /\ q.levels \in Seq([cumulative : Nat, price : Nat])

ASSUME MatcherBounds == MaxTime \in Nat /\ MaxEpoch \in Nat /\ MaxCapacity \in Nat

VARIABLES
  now,         \* lastEventAtSeconds
  epochs,      \* accountEpochs
  cancelled,   \* cancelledNonceKeys
  claimed,     \* nonceClaims, with the accepted-order markers and receipts
  index,       \* acceptedOrders: what remains of each
  open,        \* openOrders: [sequence, remaining]
  quotes,      \* solverQuotes: [sequence, remaining]
  withdrawn,   \* cancelledSolverQuotes
  quoteClaims, \* solverNonceClaims
  signers,     \* accountSigners
  executions,  \* what was traded
  receipts     \* receipts and requestIndex

bookVars == <<epochs, cancelled, claimed, index, open>>
quoteVars == <<quotes, withdrawn, quoteClaims>>
matcherVars == <<now, bookVars, quoteVars, signers, executions, receipts>>

MatcherInit ==
  /\ now = 0
  /\ epochs = [a \in Accounts |-> 0]
  /\ cancelled = {}
  /\ claimed = {}
  /\ index = <<>>
  /\ open = <<>>
  /\ quotes = <<>>
  /\ withdrawn = {}
  /\ quoteClaims = {}
  /\ signers = [a \in Accounts |-> None]
  /\ executions = <<>>
  /\ receipts = <<>>

-----------------------------------------------------------------------------
(* Nonces and activity.                                                    *)

NonceKey(o) == <<o.maker, o.epoch, o.nonce>>

(* orderActivity, and the same for a quote. *)
ActiveOrder(o, t, lifecycle) ==
  /\ o.expiry > t
  /\ o.epoch = lifecycle.epochs[o.maker]
  /\ NonceKey(o) \notin lifecycle.cancelled

ActiveQuote(q, t, lifecycle) == q.expiry > t /\ q.epoch = lifecycle.epochs[q.maker]

Lifecycle == [epochs |-> epochs, cancelled |-> cancelled]

Resting(t) == Restrict(open, {o \in DOMAIN open : ActiveOrder(o, t, Lifecycle)})
Live(t) == Restrict(quotes, {q \in DOMAIN quotes : ActiveQuote(q, t, Lifecycle)})

-----------------------------------------------------------------------------
(* Before and after every event.                                           *)

Sequence == Cardinality(DOMAIN receipts) + 1

EventAllowed(request, t) == request \notin DOMAIN receipts /\ t >= now

SignerFits(account, signer) == signers[account] \in {None, signer}

BindAccountSigner(account, signer) == signers' = [signers EXCEPT ![account] = signer]

(* pruneAcceptedOrderBodies: the index keeps what can still trade.         *)
(* Fault: an expired order stays in the index. *)
PruneIndexLazily(of, nextOpen, t, lifecycle) ==
  Restrict(of, {o \in DOMAIN of \cap DOMAIN nextOpen :
                  of[o] > 0 /\ o.tif = "gtc" /\ NonceKey(o) \notin lifecycle.cancelled})

PruneIndex(of, nextOpen, t, lifecycle) ==
  Restrict(of, {o \in DOMAIN of \cap DOMAIN nextOpen :
                  of[o] > 0 /\ o.tif = "gtc" /\ ActiveOrder(o, t, lifecycle)})

(* pruneSolverQuoteBodies.                                                 *)
PruneQuotes(of, t, lifecycle) ==
  Restrict(of, {q \in DOMAIN of : of[q].remaining > 0 /\ ActiveQuote(q, t, lifecycle)})

(* A map with v for x. *)
With(map, x, v) == [y \in DOMAIN map \cup {x} |-> IF y = x THEN v ELSE map[y]]

(* What every event ends with: both prunes, the time, the receipt.         *)
Commit(request, t, status, nextIndex, nextOpen, nextQuotes, nextEpochs, nextCancelled) ==
  LET lifecycle == [epochs |-> nextEpochs, cancelled |-> nextCancelled]
  IN  /\ now' = t
      /\ epochs' = nextEpochs
      /\ cancelled' = nextCancelled
      /\ open' = nextOpen
      /\ index' = PruneIndex(nextIndex, nextOpen, t, lifecycle)
      /\ quotes' = PruneQuotes(nextQuotes, t, lifecycle)
      /\ receipts' = With(receipts, request, [sequence |-> Sequence, at |-> t, status |-> status])

-----------------------------------------------------------------------------
(* accept-order                                                            *)

OrderPolicy(o, t) ==
  /\ o.base \in MinimumBase..MaximumBase
  /\ o.expiry > t
  /\ o.expiry <= t + MaxLifetime
  /\ o.epoch = epochs[o.maker]
  /\ o.venues # {}

(* Fault: only the order itself is looked for, not its nonce. *)
NonceFreeByOrder(o) == o \notin claimed

NonceFree(o) ==
  /\ NonceKey(o) \notin cancelled
  /\ \A c \in claimed : NonceKey(c) # NonceKey(o)

(* A book or the quotes after a route has taken from them; what is used up *)
(* leaves them.                                                            *)
AfterFills(book, fills) ==
  LET rest == [o \in DOMAIN book |-> [book[o] EXCEPT !.remaining = @ - TakenFrom(fills, o)]]
  IN  Restrict(rest, {o \in DOMAIN rest : rest[o].remaining > 0})

MayRest(o, book) ==
  /\ Cardinality(DOMAIN book) < MaxOpen
  /\ Cardinality({c \in DOMAIN book : c.maker = o.maker}) < MaxOpenPerAccount

Rests(o, remaining) == o.tif = "gtc" /\ remaining > 0 /\ "clob" \in o.venues

OrderStatus(o, route, remaining) ==
  IF remaining = 0 THEN "filled"
  ELSE IF o.tif = "fok" THEN "fok-rejected"
  ELSE IF route = NoRoute THEN IF Rests(o, remaining) THEN "open" ELSE "unfilled"
  ELSE IF o.tif = "ioc" THEN "ioc-remainder-cancelled" ELSE "partially-filled"

Entries(book) ==
  {[of |-> o, sequence |-> book[o].sequence, remaining |-> book[o].remaining] : o \in DOMAIN book}

RouteFor(o, t) == SelectedRoute(o, Entries(Resting(t)), Entries(Live(t)), t)

(* The route is refused, and the order with it, when a maker has left the  *)
(* index or a quote gives less than its minimum (consumeSolverCapacity).   *)
Consumable(route, t) ==
  \A s \in {f.segment : f \in Range(route.fills)} :
     LET taken == TakenFrom(route.fills, s.of)
     IN  IF s.venue = "book" THEN s.of \in DOMAIN index /\ taken <= Resting(t)[s.of].remaining
         ELSE taken \in s.of.minimum..Live(t)[s.of].remaining \cup {Live(t)[s.of].remaining}

Admissible(o, t) ==
  /\ t >= now
  /\ OrderPolicy(o, t)
  /\ Cardinality(DOMAIN index) < MaxAccepted
  /\ SignerFits(o.maker, o.signer)
  /\ NonceFree(o)

AcceptOrder(request, o, t) ==
  /\ EventAllowed(request, t)
  /\ Admissible(o, t)
  /\ \E route \in {RouteFor(o, t)} :
     LET remaining == o.base - Filled(route.fills)
         book      == AfterFills(Resting(t), route.fills)
         rests     == Rests(o, remaining)
     IN  /\ Consumable(route, t)
         /\ rests => MayRest(o, book)
         /\ Commit(request, t, OrderStatus(o, route, remaining),
                   With([c \in DOMAIN index |-> index[c] - TakenFrom(route.fills, c)], o, remaining),
                   IF rests THEN With(book, o, [sequence |-> Sequence, remaining |-> remaining])
                   ELSE book,
                   AfterFills(Live(t), route.fills), epochs, cancelled)
         /\ executions' = Append(executions, [taker |-> o, at |-> t, route |-> route])
  /\ claimed' = claimed \cup {o}
  /\ BindAccountSigner(o.maker, o.signer)
  /\ UNCHANGED <<withdrawn, quoteClaims>>

-----------------------------------------------------------------------------
(* cancel-order, advance-epoch                                             *)

CancelOrder(request, o, t) ==
  /\ EventAllowed(request, t)
  /\ o \in DOMAIN index
  /\ NonceKey(o) \notin cancelled
  /\ o.epoch = epochs[o.maker]
  /\ Commit(request, t, "cancelled", index, Restrict(open, DOMAIN open \ {o}), quotes,
            epochs, cancelled \cup {NonceKey(o)})
  /\ UNCHANGED <<claimed, withdrawn, quoteClaims, signers, executions>>

AdvanceEpoch(request, account, epoch, t) ==
  /\ EventAllowed(request, t)
  /\ signers[account] # None
  /\ epoch > epochs[account]
  /\ Commit(request, t, "epoch-advanced", index,
            Restrict(open, {o \in DOMAIN open : o.maker # account}),
            Restrict(quotes, {q \in DOMAIN quotes : q.maker # account}),
            [epochs EXCEPT ![account] = epoch], cancelled)
  /\ UNCHANGED <<claimed, withdrawn, quoteClaims, signers, executions>>

-----------------------------------------------------------------------------
(* accept-solver-quote, cancel-solver-quote                                *)

(* The curve of a quote rises to its capacity and never gets better. *)
CurveFits(q) ==
  /\ q.levels # <<>> /\ Last(q.levels).cumulative = q.capacity
  /\ \A j, k \in DOMAIN q.levels : j < k =>
        /\ q.levels[j].cumulative < q.levels[k].cumulative
        /\ ~Cheaper(IF q.side = "sell" THEN "buy" ELSE "sell", q.levels[k].price, q.levels[j].price)

QuotePolicy(q, t) ==
  /\ CurveFits(q)
  /\ q.epoch = epochs[q.maker]
  /\ q.expiry > t
  /\ q.expiry <= t + MaxQuoteLifetime
  /\ q.minimum \in 1..q.capacity

CapacityOf(account, book) ==
  SumOver([q \in DOMAIN book |-> book[q].remaining], {q \in DOMAIN book : q.maker = account})

CapacityFits(q, t) == CapacityOf(q.maker, Live(t)) + q.capacity <= MaxCapacity

AcceptSolverQuote(request, q, t) ==
  /\ EventAllowed(request, t)
  /\ QuotePolicy(q, t)
  /\ \A c \in quoteClaims : NonceKey(c) # NonceKey(q)
  /\ Cardinality(DOMAIN Live(t)) < MaxQuotes
  /\ CapacityFits(q, t)
  /\ SignerFits(q.maker, q.signer)
  /\ Commit(request, t, "solver-quote-open", index, open,
            With(quotes, q, [sequence |-> Sequence, remaining |-> q.capacity]),
            epochs, cancelled)
  /\ quoteClaims' = quoteClaims \cup {q}
  /\ BindAccountSigner(q.maker, q.signer)
  /\ UNCHANGED <<claimed, withdrawn, executions>>

CancelSolverQuote(request, q, t) ==
  /\ EventAllowed(request, t)
  /\ q \in DOMAIN quotes \ withdrawn
  /\ Commit(request, t, "solver-quote-cancelled", index, open,
            Restrict(quotes, DOMAIN quotes \ {q}), epochs, cancelled)
  /\ withdrawn' = withdrawn \cup {q}
  /\ UNCHANGED <<claimed, quoteClaims, signers, executions>>

(* control-authorization-cutover: the store appends it once, at the time   *)
(* of the last event; it only leaves a receipt.                            *)
Cutover(request) ==
  /\ request \notin DOMAIN receipts
  /\ \A r \in DOMAIN receipts : receipts[r].status # "control-authorization-cutover"
  /\ Commit(request, now, "control-authorization-cutover", index, open, quotes, epochs, cancelled)
  /\ UNCHANGED <<claimed, withdrawn, quoteClaims, signers, executions>>

MatcherEvent(orders, offers) ==
  \E request \in Requests :
     \/ Cutover(request)
     \/ \E t \in 1..MaxTime :
           \/ \E o \in orders : AcceptOrder(request, o, t)
           \/ \E o \in DOMAIN index : CancelOrder(request, o, t)
           \/ \E a \in Accounts, e \in 1..MaxEpoch : AdvanceEpoch(request, a, e, t)
           \/ \E q \in offers : AcceptSolverQuote(request, q, t)
           \/ \E q \in DOMAIN quotes : CancelSolverQuote(request, q, t)

MatcherNext == MatcherEvent(Orders, Quotes)

MatcherSpec == MatcherInit /\ [][MatcherNext]_matcherVars

-----------------------------------------------------------------------------
(* Types, and the bounds between the collections: what stands was claimed, *)
(* and something of it is left.                                            *)
MatcherTypeOK ==
  /\ now \in 0..MaxTime
  /\ epochs \in [Accounts -> 0..MaxEpoch]
  /\ claimed \subseteq Orders
  /\ cancelled \subseteq {NonceKey(o) : o \in claimed}
  /\ DOMAIN index \subseteq claimed
  /\ DOMAIN open \subseteq claimed
  /\ \A o \in DOMAIN index : index[o] \in 1..o.base
  /\ \A o \in DOMAIN open : open[o].remaining \in 1..o.base
  /\ quoteClaims \subseteq Quotes
  /\ withdrawn \subseteq quoteClaims
  /\ DOMAIN quotes \subseteq quoteClaims
  /\ \A q \in DOMAIN quotes : quotes[q].remaining \in 1..q.capacity
  /\ signers \in [Accounts -> Signers \cup {None}]
  /\ DOMAIN receipts \subseteq Requests
  /\ \A e \in Range(executions) : e.taker \in claimed /\ e.at \in 1..now

(* The index of accepted orders and the open book are pruned by different  *)
(* rules, at different events, and both keep an amount.  They agree: what  *)
(* the index holds is what can still trade now, with what remains of it.   *)
IndexIsLiveBook == index = [o \in DOMAIN Resting(now) |-> open[o].remaining]

(* What orderReferenceSnapshot checks of a state: every accepted order has *)
(* its own nonce, and the index holds accepted orders.                     *)
ReferenceAccepts ==
  /\ \A o, p \in claimed : NonceKey(o) = NonceKey(p) => o = p
  /\ DOMAIN index \subseteq claimed

(* What matcherStateRoot checks beside that: a receipt for every event,    *)
(* every quote the holder of its nonce, and none left that is cancelled,   *)
(* expired or of an old epoch.                                             *)
ReceiptsNumbered ==
  {receipts[r].sequence : r \in DOMAIN receipts} = 1..Cardinality(DOMAIN receipts)

QuotesLive ==
  \A q \in DOMAIN quotes : q \in quoteClaims \ withdrawn /\ ActiveQuote(q, now, Lifecycle)

StateRootAccepts ==
  /\ ReceiptsNumbered
  /\ \A q, r \in quoteClaims : NonceKey(q) = NonceKey(r) => q = r
  /\ withdrawn \subseteq quoteClaims
  /\ QuotesLive

(* Orders and quotes claim their nonces apart, but an account has one      *)
(* signer for both.                                                        *)
OneSigner ==
  \A o, p \in claimed \cup quoteClaims : o.maker = p.maker => o.signer = p.signer

(* Whatever the events and their times, and whatever routing selects: the  *)
(* index of accepted orders, the open book, the quotes, the signers, the   *)
(* nonces and the receipts agree, so no event that passed its own checks   *)
(* is refused by those of the root it is stored with.                      *)
BookConsistent ==
  /\ IndexIsLiveBook
  /\ OneSigner
  /\ ReferenceAccepts
  /\ StateRootAccepts

(* The root checks the amounts too: no account offers more than its        *)
(* capacity, and what remains is as MatcherTypeOK says.                    *)
CapacityKept ==
  \A q \in DOMAIN quotes : CapacityOf(q.maker, quotes) <= MaxCapacity

(* Routing never selects what the matcher then cannot apply: an order that *)
(* may be accepted is never refused for the counterparties routing found,  *)
(* and what remains of each stays within what was signed.                  *)
RouteConsumable ==
  /\ MatcherTypeOK /\ CapacityKept
  /\ \A o \in Orders, t \in now..MaxTime : Admissible(o, t) => Consumable(RouteFor(o, t), t)

(* Price, then time: an order of the book trades only once every other     *)
(* order the taker crosses with a better price, or as good and earlier, is *)
(* used up, unless none of it or part of it cannot be rounded.             *)
PriceThenTime ==
  LET e         == Last(executions')
      makers(t) == {[of |-> o, sequence |-> open[o].sequence, price |-> o.price] :
                      o \in {p \in DOMAIN Resting(t) :
                               /\ p.side # e.taker.side
                               /\ p.maker # e.taker.maker
                               /\ Crosses(e.taker, p.price)}}
      better(s, m) == \/ Cheaper(e.taker.side, s.price, m.price)
                      \/ s.price = m.price /\ s.sequence < m.sequence
      rounds(s) == \A n \in 1..s.of.base : Materializes(e.taker, s.price, n)
  IN  executions' # executions =>
        \A m \in {f.segment : f \in {g \in Range(e.route.fills) : g.segment.venue = "book"}} :
        \A s \in makers(e.at) : better(s, m) /\ rounds(s) => s.of \notin DOMAIN open'

(* Every event does.                                                       *)
BetterFirst == [][PriceThenTime]_matcherVars

(* The cap on accepted orders counts those that can still trade: an order  *)
(* is not refused because of others that have expired.                     *)
CapCountsLive ==
  \A t \in now..MaxTime :
     Cardinality(DOMAIN index) >= MaxAccepted =>
       Cardinality({o \in DOMAIN index : ActiveOrder(o, t, Lifecycle)}) >= MaxAccepted

-----------------------------------------------------------------------------
(* The matcher keeps the promise of Exchange: what stands is what the next *)
(* event at the same time would match, whatever the prunes have dropped.   *)
Standing == DOMAIN Resting(now) \cup DOMAIN Live(now)

Traded(offer) ==
  SumOver([i \in DOMAIN executions |->
             IF executions[i].taker = offer THEN Filled(executions[i].route.fills)
             ELSE TakenFrom(executions[i].route.fills, offer)], DOMAIN executions)

OfferAmount(offer) == IF offer \in Orders THEN offer.base ELSE offer.capacity
OfferOwner(offer) == offer.maker
OfferNonce(offer) == <<offer \in Orders, NonceKey(offer)>>
OfferTif(offer) == IF offer \in Orders THEN offer.tif ELSE "quote"
OfferMayTrade(taker, c) ==
  /\ c.side # taker.side
  /\ \E price \in IF c \in Orders THEN {c.price} ELSE {level.price : level \in Range(c.levels)} :
        Crosses(taker, price)

Promise ==
  INSTANCE Exchange WITH
    Offers <- Orders \cup Quotes,
    Amount <- OfferAmount, Owner <- OfferOwner, Nonce <- OfferNonce, Tif <- OfferTif,
    MayTrade <- OfferMayTrade,
    standing <- Standing,
    spent <- (claimed \cup quoteClaims) \ Standing,
    filled <- [o \in Orders \cup Quotes |-> Traded(o)]

(* Every event is a step of Exchange: nothing trades beyond its amount,    *)
(* with its own account, outside its price or after it is gone, and every  *)
(* nonce is admitted once (order-lifecycle.ts, applyPersistentMatcherEvent).*)
MatcherIsExchange == Promise!ExchangeSpec
=============================================================================
