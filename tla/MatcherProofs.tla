---------------------------- MODULE MatcherProofs ----------------------------
(***************************************************************************)
(* What the matcher keeps whatever is signed and in whatever order it      *)
(* comes: the index of accepted orders against the book, nonces, signers,  *)
(* quotes and receipts; that routing selects only what can then be applied,*)
(* in the order of price and time; that every event is a step of Exchange; *)
(* and what Exchange promises with it.                                     *)
(***************************************************************************)
EXTENDS Matcher, Exchange, Lemmas

-----------------------------------------------------------------------------
(* What is written down of an event. *)

(* What stands in the book is a claimed order that may rest, and something *)
(* of it is left.                                                          *)
Entry(entry) == DOMAIN entry = {"sequence", "remaining"} /\ entry.remaining > 0

BookHolds ==
  \A o \in DOMAIN open : o \in claimed /\ o.tif = "gtc" /\ Entry(open[o])

(* Whoever claimed a nonce is the only one, in an epoch that had begun,    *)
(* with the signer the account is bound to.                                *)
Holds(claims) ==
  /\ \A o, p \in claims : NonceKey(o) = NonceKey(p) => o = p
  /\ \A o \in claims : signers[o.maker] = o.signer /\ o.epoch <= epochs[o.maker]

ClaimsHeld ==
  /\ claimed \subseteq Orders /\ quoteClaims \subseteq Quotes
  /\ withdrawn \subseteq quoteClaims
  /\ signers \in [Accounts -> Signers \cup {None}]
  /\ Holds(claimed) /\ Holds(quoteClaims)

Numbered == ReceiptsNumbered /\ IsFiniteSet(DOMAIN receipts)

BookInv ==
  /\ now \in Nat
  /\ epochs \in [Accounts -> Nat]
  /\ ClaimsHeld /\ BookHolds /\ QuotesLive
  /\ Numbered
  /\ IndexIsLiveBook

-----------------------------------------------------------------------------
(* Every event. *)

(* An order is active at a time only if it was before, in an epoch before  *)
(* and with fewer nonces cancelled.                                        *)
LEMMA ActiveBefore ==
  ASSUME NEW o \in Orders, NEW s \in Nat, NEW t \in Nat, s <= t,
         NEW early, NEW late, early.epochs[o.maker] = late.epochs[o.maker],
         early.cancelled \subseteq late.cancelled, ActiveOrder(o, t, late)
  PROVE  ActiveOrder(o, s, early)
<1>1. o.expiry \in Nat
  BY SignedFields
<1>. QED  BY <1>1 DEF ActiveOrder

(* A receipt more is one number more.                                      *)
LEMMA ReceiptAdded ==
  ASSUME Numbered, NEW request, request \notin DOMAIN receipts, NEW r,
         r.sequence = Sequence, receipts' = With(receipts, request, r)
  PROVE  Numbered'
<1>1. DOMAIN receipts' = DOMAIN receipts \cup {request}
  BY DEF With
<1>2. /\ IsFiniteSet(DOMAIN receipts')
      /\ Cardinality(DOMAIN receipts') = Cardinality(DOMAIN receipts) + 1
  BY <1>1, FS_AddElement DEF Numbered, ReceiptsNumbered
<1>3. Cardinality(DOMAIN receipts) \in Nat
  BY FS_CardinalityType DEF Numbered, ReceiptsNumbered
<1>4. receipts'[request] = r /\ \A x \in DOMAIN receipts : receipts'[x] = receipts[x]
  BY DEF With
<1>5. {receipts'[x].sequence : x \in DOMAIN receipts'}
        = {receipts[x].sequence : x \in DOMAIN receipts} \cup {Sequence}
  BY <1>1, <1>4
<1>6. Sequence = Cardinality(DOMAIN receipts) + 1
  BY DEF Sequence
<1>7. 1 .. Cardinality(DOMAIN receipts) + 1
        = (1 .. Cardinality(DOMAIN receipts)) \cup {Cardinality(DOMAIN receipts) + 1}
  BY <1>3
<1>. QED  BY <1>2, <1>5, <1>6, <1>7 DEF Numbered, ReceiptsNumbered

(* An event's end keeps the index with the book and the receipts numbered, *)
(* and leaves only live quotes, if what is to be written says the same of  *)
(* what can still trade.                                                   *)
LEMMA CommitKeeps ==
  ASSUME BookInv, NEW request, request \notin DOMAIN receipts,
         NEW t \in Nat, NEW status, NEW nextIndex, NEW nextOpen, NEW nextQuotes,
         NEW nextEpochs \in [Accounts -> Nat], NEW nextCancelled,
         Commit(request, t, status, nextIndex, nextOpen, nextQuotes, nextEpochs, nextCancelled),
         \A o \in DOMAIN nextOpen :
            ActiveOrder(o, t, [epochs |-> nextEpochs, cancelled |-> nextCancelled]) =>
              /\ o \in DOMAIN nextIndex /\ o.tif = "gtc"
              /\ nextIndex[o] = nextOpen[o].remaining /\ nextOpen[o].remaining > 0,
         \A q \in DOMAIN nextQuotes : q \in quoteClaims' \ withdrawn'
  PROVE  /\ now' \in Nat /\ epochs' \in [Accounts -> Nat]
         /\ Numbered' /\ IndexIsLiveBook' /\ QuotesLive'
<1>. DEFINE lifecycle == [epochs |-> nextEpochs, cancelled |-> nextCancelled]
<1>1. /\ now' = t /\ epochs' = nextEpochs /\ cancelled' = nextCancelled /\ open' = nextOpen
      /\ index' = PruneIndex(nextIndex, nextOpen, t, lifecycle)
      /\ quotes' = PruneQuotes(nextQuotes, t, lifecycle)
      /\ receipts' = With(receipts, request, [sequence |-> Sequence, at |-> t, status |-> status])
  BY DEF Commit
<1>2. Numbered'
  BY <1>1, ReceiptAdded DEF BookInv
<1>3. Lifecycle' = lifecycle
  BY <1>1 DEF Lifecycle
<1>8. \A o \in DOMAIN nextOpen : ActiveOrder(o, t, lifecycle) =>
         /\ o \in DOMAIN nextIndex /\ o.tif = "gtc"
         /\ nextIndex[o] = nextOpen[o].remaining /\ nextOpen[o].remaining > 0
  OBVIOUS
<1>. HIDE DEF lifecycle
<1>4. DOMAIN Resting(now)' = {p \in DOMAIN nextOpen : ActiveOrder(p, t, lifecycle)}
  BY <1>1, <1>3 DEF Resting, Restrict
<1>5. index' = [o \in {p \in DOMAIN nextOpen : ActiveOrder(p, t, lifecycle)} |-> nextOpen[o].remaining]
  <2>1. PruneIndex(nextIndex, nextOpen, t, lifecycle)
          = [o \in {p \in DOMAIN nextOpen : ActiveOrder(p, t, lifecycle)} |-> nextOpen[o].remaining]
    <3>1. {o \in DOMAIN nextIndex \cap DOMAIN nextOpen :
             nextIndex[o] > 0 /\ o.tif = "gtc" /\ ActiveOrder(o, t, lifecycle)}
           = {p \in DOMAIN nextOpen : ActiveOrder(p, t, lifecycle)}
      BY <1>8
    <3>. QED  BY <3>1, <1>8 DEF PruneIndex, Restrict
  <2>. QED  BY <2>1, <1>1
<1>6. IndexIsLiveBook'
  BY <1>1, <1>4, <1>5 DEF IndexIsLiveBook
<1>7. QuotesLive'
  BY <1>1, <1>3 DEF QuotesLive, PruneQuotes, Restrict
<1>. QED  BY <1>1, <1>2, <1>6, <1>7

(* What stands and can still trade at t could trade before, and the index  *)
(* has what is left of it.                                                 *)
LEMMA ListedBefore ==
  ASSUME BookInv, NEW t \in Nat, now <= t, NEW late,
         NEW o \in DOMAIN open, ActiveOrder(o, t, late),
         epochs[o.maker] = late.epochs[o.maker], cancelled \subseteq late.cancelled
  PROVE  /\ o \in DOMAIN Resting(t) /\ Resting(t)[o] = open[o]
         /\ o \in DOMAIN index /\ index[o] = open[o].remaining
         /\ o.tif = "gtc" /\ open[o].remaining > 0
<1>1. o \in Orders /\ o.tif = "gtc" /\ open[o].remaining > 0
  BY DEF BookInv, BookHolds, ClaimsHeld, Entry
<1>2. Lifecycle.epochs = epochs /\ Lifecycle.cancelled = cancelled
  BY DEF Lifecycle
<1>3. ActiveOrder(o, now, Lifecycle) /\ ActiveOrder(o, t, Lifecycle)
  <2>1. ActiveOrder(o, now, Lifecycle)
    BY <1>1, <1>2, ActiveBefore DEF BookInv
  <2>2. ActiveOrder(o, t, Lifecycle)
    BY <1>2 DEF ActiveOrder
  <2>. QED  BY <2>1, <2>2
<1>4. \A s : /\ DOMAIN Resting(s) = {p \in DOMAIN open : ActiveOrder(p, s, Lifecycle)}
             /\ \A p \in DOMAIN Resting(s) : Resting(s)[p] = open[p]
  BY DEF Resting, Restrict
<1>5. index = [p \in DOMAIN Resting(now) |-> open[p].remaining]
  BY DEF BookInv, IndexIsLiveBook
<1>. QED  BY <1>1, <1>3, <1>4, <1>5

LEMMA CutoverKeeps ==
  ASSUME BookInv, NEW request, Cutover(request)
  PROVE  BookInv'
<1>1. /\ request \notin DOMAIN receipts
      /\ Commit(request, now, "control-authorization-cutover", index, open, quotes, epochs, cancelled)
      /\ UNCHANGED <<claimed, withdrawn, quoteClaims, signers, executions>>
  BY DEF Cutover
<1>2. now \in Nat /\ epochs \in [Accounts -> Nat]
  BY DEF BookInv
<1>3. \A o \in DOMAIN open : ActiveOrder(o, now, [epochs |-> epochs, cancelled |-> cancelled]) =>
         /\ o \in DOMAIN index /\ o.tif = "gtc"
         /\ index[o] = open[o].remaining /\ open[o].remaining > 0
  BY <1>2, ListedBefore
<1>4. \A q \in DOMAIN quotes : q \in quoteClaims' \ withdrawn'
  BY <1>1 DEF BookInv, QuotesLive
<1>5. /\ now' \in Nat /\ epochs' \in [Accounts -> Nat]
      /\ Numbered' /\ IndexIsLiveBook' /\ QuotesLive'
  BY <1>1, <1>2, <1>3, <1>4, CommitKeeps
<1>6. epochs' = epochs /\ open' = open
  BY <1>1 DEF Commit
<1>7. BookHolds' /\ ClaimsHeld'
  BY <1>1, <1>6 DEF BookInv, BookHolds, ClaimsHeld, Holds
<1>. QED  BY <1>5, <1>7 DEF BookInv

LEMMA CancelOrderKeeps ==
  ASSUME BookInv, NEW request, NEW o, NEW t \in Nat, CancelOrder(request, o, t)
  PROVE  BookInv'
<1>. DEFINE left == Restrict(open, DOMAIN open \ {o})
            nextCancelled == cancelled \cup {NonceKey(o)}
<1>1. /\ request \notin DOMAIN receipts /\ now <= t
      /\ Commit(request, t, "cancelled", index, left, quotes, epochs, nextCancelled)
      /\ UNCHANGED <<claimed, withdrawn, quoteClaims, signers, executions>>
  BY DEF CancelOrder, EventAllowed, BookInv
<1>2. now \in Nat /\ epochs \in [Accounts -> Nat]
  BY DEF BookInv
<1>3. DOMAIN left = DOMAIN open \ {o} /\ \A p \in DOMAIN left : left[p] = open[p]
  BY DEF Restrict
<1>9. cancelled \subseteq nextCancelled
  OBVIOUS
<1>. HIDE DEF left, nextCancelled
<1>4. \A p \in DOMAIN left : ActiveOrder(p, t, [epochs |-> epochs, cancelled |-> nextCancelled]) =>
         /\ p \in DOMAIN index /\ p.tif = "gtc"
         /\ index[p] = left[p].remaining /\ left[p].remaining > 0
  BY <1>1, <1>2, <1>3, <1>9, ListedBefore
<1>5. \A q \in DOMAIN quotes : q \in quoteClaims' \ withdrawn'
  BY <1>1 DEF BookInv, QuotesLive
<1>6. /\ now' \in Nat /\ epochs' \in [Accounts -> Nat]
      /\ Numbered' /\ IndexIsLiveBook' /\ QuotesLive'
  BY <1>1, <1>2, <1>4, <1>5, CommitKeeps
<1>7. epochs' = epochs /\ open' = left
  BY <1>1 DEF Commit
<1>8. BookHolds' /\ ClaimsHeld'
  BY <1>1, <1>3, <1>7 DEF BookInv, BookHolds, ClaimsHeld, Holds
<1>. QED  BY <1>6, <1>8 DEF BookInv

LEMMA AdvanceEpochKeeps ==
  ASSUME BookInv, NEW request, NEW account \in Accounts, NEW epoch \in Nat, NEW t \in Nat,
         AdvanceEpoch(request, account, epoch, t)
  PROVE  BookInv'
<1>. DEFINE left == Restrict(open, {o \in DOMAIN open : o.maker # account})
            offered == Restrict(quotes, {q \in DOMAIN quotes : q.maker # account})
            nextEpochs == [epochs EXCEPT ![account] = epoch]
<1>1. /\ request \notin DOMAIN receipts /\ now <= t /\ epoch > epochs[account]
      /\ Commit(request, t, "epoch-advanced", index, left, offered, nextEpochs, cancelled)
      /\ UNCHANGED <<claimed, withdrawn, quoteClaims, signers, executions>>
  BY DEF AdvanceEpoch, EventAllowed, BookInv
<1>2. now \in Nat /\ epochs \in [Accounts -> Nat] /\ nextEpochs \in [Accounts -> Nat]
  BY DEF BookInv
<1>3. /\ DOMAIN left = {o \in DOMAIN open : o.maker # account}
      /\ \A p \in DOMAIN left : left[p] = open[p]
      /\ DOMAIN offered \subseteq DOMAIN quotes
  BY DEF Restrict
<1>9. \A a \in Accounts : a # account => nextEpochs[a] = epochs[a]
  BY <1>2
<1>10. \A a \in Accounts : epochs[a] <= nextEpochs[a]
  BY <1>1, <1>2
<1>. HIDE DEF left, nextEpochs, offered
<1>4. \A p \in DOMAIN left : ActiveOrder(p, t, [epochs |-> nextEpochs, cancelled |-> cancelled]) =>
         /\ p \in DOMAIN index /\ p.tif = "gtc"
         /\ index[p] = left[p].remaining /\ left[p].remaining > 0
  <2>1. \A p \in DOMAIN left : p.maker \in Accounts
    BY <1>3, SignedFields DEF BookInv, BookHolds, ClaimsHeld
  <2>. QED  BY <2>1, <1>1, <1>2, <1>3, <1>9, ListedBefore
<1>5. \A q \in DOMAIN offered : q \in quoteClaims' \ withdrawn'
  BY <1>1, <1>3 DEF BookInv, QuotesLive
<1>6. /\ now' \in Nat /\ epochs' \in [Accounts -> Nat]
      /\ Numbered' /\ IndexIsLiveBook' /\ QuotesLive'
  BY <1>1, <1>2, <1>4, <1>5, CommitKeeps
<1>7. epochs' = nextEpochs /\ open' = left
  BY <1>1 DEF Commit
<1>8. BookHolds'
  BY <1>1, <1>3, <1>7 DEF BookInv, BookHolds
<1>11. ClaimsHeld'
  <2>1. \A o \in claimed \cup quoteClaims :
          o.maker \in Accounts /\ o.epoch \in Nat /\ o.epoch <= epochs[o.maker]
    BY SignedFields DEF BookInv, ClaimsHeld, Holds
  <2>2. \A o \in claimed \cup quoteClaims : o.epoch <= nextEpochs[o.maker]
    BY <2>1, <1>2, <1>10
  <2>. QED  BY <2>2, <1>1, <1>7 DEF BookInv, ClaimsHeld, Holds
<1>. QED  BY <1>6, <1>8, <1>11 DEF BookInv

LEMMA CancelQuoteKeeps ==
  ASSUME BookInv, NEW request, NEW q, NEW t \in Nat, CancelSolverQuote(request, q, t)
  PROVE  BookInv'
<1>. DEFINE offered == Restrict(quotes, DOMAIN quotes \ {q})
<1>1. /\ request \notin DOMAIN receipts /\ now <= t /\ q \in DOMAIN quotes
      /\ Commit(request, t, "solver-quote-cancelled", index, open, offered, epochs, cancelled)
      /\ withdrawn' = withdrawn \cup {q}
      /\ UNCHANGED <<claimed, quoteClaims, signers, executions>>
  BY DEF CancelSolverQuote, EventAllowed, BookInv
<1>2. now \in Nat /\ epochs \in [Accounts -> Nat]
  BY DEF BookInv
<1>3. DOMAIN offered = DOMAIN quotes \ {q}
  BY DEF Restrict
<1>. HIDE DEF offered
<1>4. \A p \in DOMAIN open : ActiveOrder(p, t, [epochs |-> epochs, cancelled |-> cancelled]) =>
         /\ p \in DOMAIN index /\ p.tif = "gtc"
         /\ index[p] = open[p].remaining /\ open[p].remaining > 0
  BY <1>1, <1>2, ListedBefore
<1>5. \A p \in DOMAIN offered : p \in quoteClaims' \ withdrawn'
  BY <1>1, <1>3 DEF BookInv, QuotesLive
<1>6. /\ now' \in Nat /\ epochs' \in [Accounts -> Nat]
      /\ Numbered' /\ IndexIsLiveBook' /\ QuotesLive'
  BY <1>1, <1>2, <1>4, <1>5, CommitKeeps
<1>7. epochs' = epochs /\ open' = open
  BY <1>1 DEF Commit
<1>8. BookHolds'
  BY <1>1, <1>7 DEF BookInv, BookHolds
<1>9. q \in quoteClaims
  BY <1>1 DEF BookInv, QuotesLive
<1>10. ClaimsHeld'
  BY <1>1, <1>7, <1>9 DEF BookInv, ClaimsHeld, Holds
<1>. QED  BY <1>6, <1>8, <1>10 DEF BookInv

(* Claiming what has the right signer and a nonce of its own, in the epoch *)
(* of its account, keeps every claim.                                      *)
LEMMA SignerBound ==
  ASSUME signers \in [Accounts -> Signers \cup {None}],
         NEW o \in Orders \cup Quotes, SignerFits(o.maker, o.signer),
         BindAccountSigner(o.maker, o.signer),
         NEW claims, claims \subseteq Orders \cup Quotes, Holds(claims), epochs' = epochs
  PROVE  /\ signers' \in [Accounts -> Signers \cup {None}]
         /\ signers'[o.maker] = o.signer
         /\ Holds(claims)'
<1>1. o.maker \in Accounts /\ o.signer \in Signers
  BY SignedFields
<1>2. /\ signers' \in [Accounts -> Signers \cup {None}]
      /\ signers'[o.maker] = o.signer
      /\ \A a \in Accounts \ {o.maker} : signers'[a] = signers[a]
  BY <1>1 DEF BindAccountSigner
<1>3. ASSUME NEW c \in claims PROVE signers'[c.maker] = c.signer
  <2>1. c.maker \in Accounts /\ c.signer \in Signers /\ c.signer # None
    BY SignedFields
  <2>2. signers[c.maker] = c.signer
    BY DEF Holds
  <2>3. CASE c.maker = o.maker
    BY <2>1, <2>2, <2>3, <1>2 DEF SignerFits
  <2>. QED  BY <2>1, <2>2, <2>3, <1>2
<1>. QED  BY <1>2, <1>3 DEF Holds

LEMMA AcceptQuoteKeeps ==
  ASSUME BookInv, NEW request, NEW q \in Quotes, NEW t \in Nat, AcceptSolverQuote(request, q, t)
  PROVE  BookInv'
<1>. DEFINE offered == With(quotes, q, [sequence |-> Sequence, remaining |-> q.capacity])
<1>1. /\ request \notin DOMAIN receipts /\ now <= t /\ q.epoch = epochs[q.maker]
      /\ Commit(request, t, "solver-quote-open", index, open, offered, epochs, cancelled)
      /\ \A c \in quoteClaims : NonceKey(c) # NonceKey(q)
      /\ SignerFits(q.maker, q.signer) /\ BindAccountSigner(q.maker, q.signer)
      /\ quoteClaims' = quoteClaims \cup {q}
      /\ UNCHANGED <<claimed, withdrawn, executions>>
  BY DEF AcceptSolverQuote, EventAllowed, QuotePolicy, BookInv
<1>2. now \in Nat /\ epochs \in [Accounts -> Nat]
  BY DEF BookInv
<1>3. DOMAIN offered = DOMAIN quotes \cup {q}
  BY DEF With
<1>. HIDE DEF offered
<1>4. \A p \in DOMAIN open : ActiveOrder(p, t, [epochs |-> epochs, cancelled |-> cancelled]) =>
         /\ p \in DOMAIN index /\ p.tif = "gtc"
         /\ index[p] = open[p].remaining /\ open[p].remaining > 0
  BY <1>1, <1>2, ListedBefore
<1>5. \A p \in DOMAIN offered : p \in quoteClaims' \ withdrawn'
  BY <1>1, <1>3 DEF BookInv, QuotesLive, ClaimsHeld
<1>6. /\ now' \in Nat /\ epochs' \in [Accounts -> Nat]
      /\ Numbered' /\ IndexIsLiveBook' /\ QuotesLive'
  BY <1>1, <1>2, <1>4, <1>5, CommitKeeps
<1>7. epochs' = epochs /\ open' = open
  BY <1>1 DEF Commit
<1>8. BookHolds'
  BY <1>1, <1>7 DEF BookInv, BookHolds
<1>9. /\ claimed \subseteq Orders \cup Quotes /\ quoteClaims \subseteq Orders \cup Quotes
      /\ signers \in [Accounts -> Signers \cup {None}] /\ q \in Orders \cup Quotes
      /\ Holds(claimed) /\ Holds(quoteClaims)
  BY DEF BookInv, ClaimsHeld
<1>10. signers' \in [Accounts -> Signers \cup {None}] /\ signers'[q.maker] = q.signer
  BY <1>1, <1>7, <1>9, SignerBound
<1>11. /\ \A c, d \in claimed : NonceKey(c) = NonceKey(d) => c = d
       /\ \A c \in claimed : signers'[c.maker] = c.signer /\ c.epoch <= epochs[c.maker]
  BY <1>1, <1>7, <1>9, SignerBound DEF Holds
<1>12. /\ \A c, d \in quoteClaims : NonceKey(c) = NonceKey(d) => c = d
       /\ \A c \in quoteClaims : signers'[c.maker] = c.signer /\ c.epoch <= epochs[c.maker]
  BY <1>1, <1>7, <1>9, SignerBound DEF Holds
<1>13. q.epoch <= epochs[q.maker]
  <2>1. q.epoch \in Nat
    BY SignedFields
  <2>. QED  BY <2>1, <1>1
<1>14. ClaimsHeld'
  <2>1. Holds(claimed)'
    BY <1>1, <1>7, <1>11 DEF Holds
  <2>2. Holds(quoteClaims)'
    BY <1>1, <1>7, <1>10, <1>12, <1>13 DEF Holds
  <2>. QED  BY <2>1, <2>2, <1>1, <1>10 DEF BookInv, ClaimsHeld
<1>. QED  BY <1>6, <1>8, <1>14 DEF BookInv

(* What is left of a book after fills is entries of it, as much smaller as *)
(* the fills took, and of each something is left.                          *)
LEMMA AfterFillsOf ==
  ASSUME NEW book, NEW fills
  PROVE  /\ DOMAIN AfterFills(book, fills) \subseteq DOMAIN book
         /\ \A o \in DOMAIN AfterFills(book, fills) :
              Entry(book[o]) =>
                /\ Entry(AfterFills(book, fills)[o])
                /\ AfterFills(book, fills)[o].sequence = book[o].sequence
                /\ AfterFills(book, fills)[o].remaining = book[o].remaining - TakenFrom(fills, o)
<1>. DEFINE rest == [o \in DOMAIN book |-> [book[o] EXCEPT !.remaining = @ - TakenFrom(fills, o)]]
<1>1. /\ DOMAIN AfterFills(book, fills) = {o \in DOMAIN book : rest[o].remaining > 0}
      /\ \A o \in DOMAIN AfterFills(book, fills) : AfterFills(book, fills)[o] = rest[o]
  BY DEF AfterFills, Restrict
<1>2. ASSUME NEW o \in DOMAIN book, Entry(book[o])
      PROVE  DOMAIN rest[o] = {"sequence", "remaining"} /\ rest[o].sequence = book[o].sequence
             /\ rest[o].remaining = book[o].remaining - TakenFrom(fills, o)
  BY <1>2 DEF Entry
<1>. HIDE DEF rest
<1>. QED  BY <1>1, <1>2 DEF Entry

LEMMA AcceptOrderKeeps ==
  ASSUME BookInv, NEW request, NEW o \in Orders, NEW t \in Nat, AcceptOrder(request, o, t)
  PROVE  BookInv'
<1>. DEFINE route == RouteFor(o, t)
            remaining == o.base - Filled(route.fills)
            book == AfterFills(Resting(t), route.fills)
            lessened == [c \in DOMAIN index |-> index[c] - TakenFrom(route.fills, c)]
            listed == With(lessened, o, remaining)
            entry == [sequence |-> Sequence, remaining |-> remaining]
            nextOpen == IF Rests(o, remaining) THEN With(book, o, entry) ELSE book
            offered == AfterFills(Live(t), route.fills)
            lifecycle == [epochs |-> epochs, cancelled |-> cancelled]
<1>1. /\ request \notin DOMAIN receipts /\ now <= t /\ o.epoch = epochs[o.maker]
      /\ Commit(request, t, OrderStatus(o, route, remaining), listed, nextOpen, offered,
                epochs, cancelled)
      /\ \A c \in claimed : NonceKey(c) # NonceKey(o)
      /\ SignerFits(o.maker, o.signer) /\ BindAccountSigner(o.maker, o.signer)
      /\ claimed' = claimed \cup {o}
      /\ UNCHANGED <<withdrawn, quoteClaims>>
  BY DEF AcceptOrder, EventAllowed, Admissible, OrderPolicy, NonceFree, BookInv
<1>2. now \in Nat /\ epochs \in [Accounts -> Nat]
  BY DEF BookInv
<1>3. Lifecycle = lifecycle
  BY DEF Lifecycle
<1>4. /\ DOMAIN Resting(t) = {p \in DOMAIN open : ActiveOrder(p, t, lifecycle)}
      /\ \A c \in DOMAIN Resting(t) : c \in DOMAIN open /\ Resting(t)[c] = open[c] /\ Entry(Resting(t)[c])
  <2>1. /\ DOMAIN Resting(t) = {p \in DOMAIN open : ActiveOrder(p, t, lifecycle)}
        /\ \A c \in DOMAIN Resting(t) : c \in DOMAIN open /\ Resting(t)[c] = open[c]
    BY <1>3 DEF Resting, Restrict
  <2>. QED  BY <2>1 DEF BookInv, BookHolds
<1>5. \A c \in DOMAIN book :
         /\ c \in DOMAIN open /\ ActiveOrder(c, t, lifecycle) /\ Entry(book[c])
         /\ book[c].remaining = open[c].remaining - TakenFrom(route.fills, c)
  BY <1>4, AfterFillsOf
<1>6. o \notin claimed /\ \A c \in DOMAIN open : c \in claimed /\ c # o
  BY <1>1 DEF BookInv, BookHolds
<1>7. \A c \in DOMAIN book :
         /\ c \in DOMAIN index /\ c # o /\ c.tif = "gtc"
         /\ index[c] = open[c].remaining
  BY <1>1, <1>2, <1>5, <1>6, ListedBefore
<1>8. /\ DOMAIN listed = DOMAIN index \cup {o} /\ listed[o] = remaining
      /\ \A c \in DOMAIN index : c # o => listed[c] = index[c] - TakenFrom(route.fills, c)
  BY DEF With
<1>9. /\ entry.remaining = remaining /\ DOMAIN entry = {"sequence", "remaining"}
      /\ Rests(o, remaining) =>
           /\ o.tif = "gtc" /\ remaining > 0
           /\ DOMAIN nextOpen = DOMAIN book \cup {o} /\ nextOpen[o] = entry
           /\ \A c \in DOMAIN book : c # o => nextOpen[c] = book[c]
      /\ ~ Rests(o, remaining) => nextOpen = book
  BY DEF With, Rests
<1>10. DOMAIN offered \subseteq DOMAIN quotes
  BY AfterFillsOf DEF Live, Restrict
<1>. HIDE DEF remaining, book, listed, nextOpen, offered, lifecycle, route, entry
<1>11. \A c \in DOMAIN nextOpen :
         /\ c \in DOMAIN listed /\ c.tif = "gtc" /\ Entry(nextOpen[c])
         /\ listed[c] = nextOpen[c].remaining /\ nextOpen[c].remaining > 0
         /\ c \in claimed \cup {o}
  <2>1. ASSUME NEW c \in DOMAIN book, c \in DOMAIN nextOpen, nextOpen[c] = book[c]
        PROVE  /\ c \in DOMAIN listed /\ c.tif = "gtc" /\ Entry(nextOpen[c])
               /\ listed[c] = nextOpen[c].remaining /\ nextOpen[c].remaining > 0
               /\ c \in claimed \cup {o}
    BY <2>1, <1>5, <1>6, <1>7, <1>8 DEF Entry
  <2>2. CASE Rests(o, remaining)
    <3>1. /\ o \in DOMAIN listed /\ o.tif = "gtc" /\ Entry(nextOpen[o])
          /\ listed[o] = nextOpen[o].remaining /\ nextOpen[o].remaining > 0
      BY <2>2, <1>8, <1>9 DEF Entry
    <3>. QED  BY <2>1, <2>2, <3>1, <1>7, <1>9
  <2>. QED  BY <2>1, <2>2, <1>9
<1>12. \A q \in DOMAIN offered : q \in quoteClaims' \ withdrawn'
  BY <1>1, <1>10 DEF BookInv, QuotesLive
<1>13. /\ now' \in Nat /\ epochs' \in [Accounts -> Nat]
       /\ Numbered' /\ IndexIsLiveBook' /\ QuotesLive'
  <2>1. \A c \in DOMAIN nextOpen :
          ActiveOrder(c, t, [epochs |-> epochs, cancelled |-> cancelled]) =>
            /\ c \in DOMAIN listed /\ c.tif = "gtc"
            /\ listed[c] = nextOpen[c].remaining /\ nextOpen[c].remaining > 0
    BY <1>11
  <2>2. Commit(request, t, OrderStatus(o, route, remaining), listed, nextOpen, offered,
               epochs, cancelled)
    BY <1>1
  <2>3. request \notin DOMAIN receipts /\ epochs \in [Accounts -> Nat]
    BY <1>1, <1>2
  <2>. QED  BY <2>1, <2>2, <2>3, <1>12, CommitKeeps
<1>14. epochs' = epochs /\ open' = nextOpen
  BY <1>1 DEF Commit
<1>15. BookHolds'
  BY <1>1, <1>11, <1>14 DEF BookHolds
<1>16. /\ claimed \subseteq Orders \cup Quotes /\ quoteClaims \subseteq Orders \cup Quotes
       /\ signers \in [Accounts -> Signers \cup {None}] /\ o \in Orders \cup Quotes
       /\ Holds(claimed) /\ Holds(quoteClaims)
  BY DEF BookInv, ClaimsHeld
<1>17. signers' \in [Accounts -> Signers \cup {None}] /\ signers'[o.maker] = o.signer
  BY <1>1, <1>14, <1>16, SignerBound
<1>18. /\ \A c, d \in claimed : NonceKey(c) = NonceKey(d) => c = d
       /\ \A c \in claimed : signers'[c.maker] = c.signer /\ c.epoch <= epochs[c.maker]
  BY <1>1, <1>14, <1>16, SignerBound DEF Holds
<1>19. /\ \A c, d \in quoteClaims : NonceKey(c) = NonceKey(d) => c = d
       /\ \A c \in quoteClaims : signers'[c.maker] = c.signer /\ c.epoch <= epochs[c.maker]
  BY <1>1, <1>14, <1>16, SignerBound DEF Holds
<1>20. o.epoch <= epochs[o.maker]
  <2>1. o.epoch \in Nat
    BY SignedFields
  <2>. QED  BY <2>1, <1>1
<1>21. ClaimsHeld'
  <2>1. Holds(claimed)'
    BY <1>1, <1>14, <1>17, <1>18, <1>20 DEF Holds
  <2>2. Holds(quoteClaims)'
    BY <1>1, <1>14, <1>19 DEF Holds
  <2>. QED  BY <2>1, <2>2, <1>1, <1>17 DEF BookInv, ClaimsHeld
<1>. QED  BY <1>13, <1>15, <1>21 DEF BookInv

-----------------------------------------------------------------------------
LEMMA BookStep ==
  ASSUME BookInv, [MatcherNext]_matcherVars
  PROVE  BookInv'
<1>1. CASE MatcherNext
  <2>1. PICK request \in Requests :
          \/ Cutover(request)
          \/ \E t \in 1..MaxTime :
                \/ \E o \in Orders : AcceptOrder(request, o, t)
                \/ \E o \in DOMAIN index : CancelOrder(request, o, t)
                \/ \E a \in Accounts, e \in 1..MaxEpoch : AdvanceEpoch(request, a, e, t)
                \/ \E q \in Quotes : AcceptSolverQuote(request, q, t)
                \/ \E q \in DOMAIN quotes : CancelSolverQuote(request, q, t)
    BY <1>1 DEF MatcherNext, MatcherEvent
  <2>2. \A t \in 1..MaxTime, e \in 1..MaxEpoch : t \in Nat /\ e \in Nat
    OBVIOUS
  <2>. QED  BY <2>1, <2>2, CutoverKeeps, AcceptOrderKeeps, CancelOrderKeeps, AdvanceEpochKeeps,
                AcceptQuoteKeeps, CancelQuoteKeeps
<1>2. CASE UNCHANGED matcherVars
  <2>1. /\ UNCHANGED <<now, epochs, cancelled, claimed, index, open, quotes>>
        /\ UNCHANGED <<withdrawn, quoteClaims, signers, receipts>>
    BY <1>2 DEF matcherVars, bookVars, quoteVars
  <2>. QED  BY <2>1 DEF BookInv, ClaimsHeld, BookHolds, QuotesLive, Numbered,
                 ReceiptsNumbered, Holds, IndexIsLiveBook, Resting, Lifecycle, Sequence
<1>. QED  BY <1>1, <1>2

LEMMA BookFirst == MatcherInit => BookInv
<1>. SUFFICES ASSUME MatcherInit PROVE BookInv
  OBVIOUS
<1>1. /\ now = 0 /\ epochs = [a \in Accounts |-> 0] /\ claimed = {} /\ quoteClaims = {}
      /\ index = <<>> /\ open = <<>> /\ quotes = <<>> /\ receipts = <<>> /\ withdrawn = {}
      /\ signers = [a \in Accounts |-> None]
  BY DEF MatcherInit
<1>2. DOMAIN open = {} /\ DOMAIN quotes = {} /\ DOMAIN receipts = {}
  BY <1>1
<1>3. IndexIsLiveBook
  <2>1. DOMAIN Resting(now) = {}
    BY <1>2 DEF Resting, Restrict
  <2>2. [o \in DOMAIN Resting(now) |-> open[o].remaining] = <<>>
    BY <2>1
  <2>. QED  BY <2>2, <1>1 DEF IndexIsLiveBook
<1>4. Numbered
  BY <1>2, FS_EmptySet DEF Numbered, ReceiptsNumbered
<1>. QED  BY <1>1, <1>2, <1>3, <1>4 DEF BookInv, ClaimsHeld, BookHolds, QuotesLive, Holds

LEMMA BookAlways == MatcherSpec => []BookInv
<1>. QED  BY BookFirst, BookStep, PTL DEF MatcherSpec

(* However the events come and whatever routing selects: the index of      *)
(* accepted orders is the book that can still trade, with what remains of  *)
(* each order, although the two are pruned by different rules; an account  *)
(* has one signer for its orders and its quotes; a nonce has one holder;   *)
(* no quote is kept that is cancelled or expired; and the receipts are     *)
(* numbered without a gap (persistent-matcher.ts).                         *)
THEOREM BookStaysConsistent == MatcherSpec => []BookConsistent
<1>1. BookInv => BookConsistent
  <2>. SUFFICES ASSUME BookInv PROVE BookConsistent
    OBVIOUS
  <2>1. DOMAIN index \subseteq claimed
    BY DEF BookInv, BookHolds, IndexIsLiveBook, Resting, Restrict
  <2>2. IndexIsLiveBook /\ StateRootAccepts
    BY DEF BookInv, ClaimsHeld, Holds, Numbered, StateRootAccepts
  <2>3. OneSigner
    BY DEF BookInv, ClaimsHeld, Holds, OneSigner
  <2>4. ReferenceAccepts
    BY <2>1 DEF BookInv, ClaimsHeld, Holds, ReferenceAccepts
  <2>. QED  BY <2>2, <2>3, <2>4 DEF BookConsistent
<1>. QED  BY <1>1, BookAlways, PTL

-----------------------------------------------------------------------------
(* What is gone. *)

Admitted == claimed \cup quoteClaims

(* A step only moves on: the time, the epochs and the cancellations grow,  *)
(* and what comes into the book or the quotes is what it claims.           *)
MovesOn ==
  /\ now' \in Nat /\ now <= now'
  /\ \A a \in Accounts : epochs'[a] \in Nat /\ epochs[a] <= epochs'[a]
  /\ cancelled \subseteq cancelled' /\ claimed \subseteq claimed' /\ quoteClaims \subseteq quoteClaims'
  /\ DOMAIN open' \subseteq DOMAIN open \cup (claimed' \ claimed)
  /\ DOMAIN quotes' \subseteq DOMAIN quotes \cup (quoteClaims' \ quoteClaims)

(* The end of an event. *)
LEMMA CommitMovesOn ==
  ASSUME BookInv, NEW request, NEW t \in Nat, now <= t, NEW status, NEW nextIndex, NEW nextOpen,
         NEW nextQuotes, NEW nextEpochs \in [Accounts -> Nat], NEW nextCancelled,
         Commit(request, t, status, nextIndex, nextOpen, nextQuotes, nextEpochs, nextCancelled),
         \A a \in Accounts : epochs[a] <= nextEpochs[a], cancelled \subseteq nextCancelled,
         claimed \subseteq claimed', quoteClaims \subseteq quoteClaims',
         DOMAIN nextOpen \subseteq DOMAIN open \cup (claimed' \ claimed),
         DOMAIN nextQuotes \subseteq DOMAIN quotes \cup (quoteClaims' \ quoteClaims)
  PROVE  MovesOn
<1>1. /\ now' = t /\ epochs' = nextEpochs /\ cancelled' = nextCancelled /\ open' = nextOpen
      /\ quotes' = PruneQuotes(nextQuotes, t, [epochs |-> nextEpochs, cancelled |-> nextCancelled])
  BY DEF Commit
<1>2. DOMAIN quotes' \subseteq DOMAIN nextQuotes
  BY <1>1 DEF PruneQuotes, Restrict
<1>. QED  BY <1>1, <1>2 DEF MovesOn

LEMMA EventMovesOn ==
  ASSUME BookInv, MatcherNext
  PROVE  MovesOn
<1>1. PICK request \in Requests :
        \/ Cutover(request)
        \/ \E t \in 1..MaxTime :
              \/ \E o \in Orders : AcceptOrder(request, o, t)
              \/ \E o \in DOMAIN index : CancelOrder(request, o, t)
              \/ \E a \in Accounts, e \in 1..MaxEpoch : AdvanceEpoch(request, a, e, t)
              \/ \E q \in Quotes : AcceptSolverQuote(request, q, t)
              \/ \E q \in DOMAIN quotes : CancelSolverQuote(request, q, t)
  BY DEF MatcherNext, MatcherEvent
<1>2. now \in Nat /\ epochs \in [Accounts -> Nat] /\ \A a \in Accounts : epochs[a] <= epochs[a]
  BY DEF BookInv
<1>3. CASE Cutover(request)
  BY <1>2, <1>3, CommitMovesOn DEF Cutover
<1>4. ASSUME NEW t \in 1..MaxTime, NEW o \in Orders, AcceptOrder(request, o, t) PROVE MovesOn
  <2>. DEFINE route == RouteFor(o, t)
              remaining == o.base - Filled(route.fills)
              book == AfterFills(Resting(t), route.fills)
              listed == With([c \in DOMAIN index |-> index[c] - TakenFrom(route.fills, c)], o, remaining)
              nextOpen == IF Rests(o, remaining)
                          THEN With(book, o, [sequence |-> Sequence, remaining |-> remaining]) ELSE book
              offered == AfterFills(Live(t), route.fills)
  <2>1. /\ now <= t /\ \A c \in claimed : NonceKey(c) # NonceKey(o)
        /\ Commit(request, t, OrderStatus(o, route, remaining), listed, nextOpen, offered,
                  epochs, cancelled)
        /\ claimed' = claimed \cup {o} /\ quoteClaims' = quoteClaims
    BY <1>4 DEF AcceptOrder, EventAllowed, Admissible, NonceFree
  <2>2. DOMAIN book \subseteq DOMAIN open /\ DOMAIN offered \subseteq DOMAIN quotes
    BY AfterFillsOf DEF Live, Resting, Restrict
  <2>3. DOMAIN nextOpen \subseteq DOMAIN book \cup {o}
    BY DEF With
  <2>4. o \in claimed' \ claimed
    BY <2>1
  <2>. HIDE DEF remaining, book, listed, nextOpen, offered, route
  <2>. QED  BY <2>1, <2>2, <2>3, <2>4, <1>2, CommitMovesOn
<1>5. ASSUME NEW t \in 1..MaxTime, NEW o, CancelOrder(request, o, t) PROVE MovesOn
  <2>1. /\ now <= t /\ UNCHANGED <<claimed, quoteClaims>>
        /\ Commit(request, t, "cancelled", index, Restrict(open, DOMAIN open \ {o}), quotes,
                  epochs, cancelled \cup {NonceKey(o)})
    BY <1>5 DEF CancelOrder, EventAllowed
  <2>2. DOMAIN Restrict(open, DOMAIN open \ {o}) \subseteq DOMAIN open
    BY DEF Restrict
  <2>. QED  BY <2>1, <2>2, <1>2, CommitMovesOn
<1>6. ASSUME NEW t \in 1..MaxTime, NEW a \in Accounts, NEW e \in 1..MaxEpoch,
             AdvanceEpoch(request, a, e, t)
      PROVE  MovesOn
  <2>. DEFINE left == Restrict(open, {o \in DOMAIN open : o.maker # a})
              offered == Restrict(quotes, {q \in DOMAIN quotes : q.maker # a})
              nextEpochs == [epochs EXCEPT ![a] = e]
  <2>1. /\ now <= t /\ UNCHANGED <<claimed, quoteClaims>> /\ e > epochs[a]
        /\ Commit(request, t, "epoch-advanced", index, left, offered, nextEpochs, cancelled)
    BY <1>6 DEF AdvanceEpoch, EventAllowed
  <2>2. DOMAIN left \subseteq DOMAIN open /\ DOMAIN offered \subseteq DOMAIN quotes
    BY DEF Restrict
  <2>3. nextEpochs \in [Accounts -> Nat] /\ \A b \in Accounts : epochs[b] <= nextEpochs[b]
    BY <2>1, <1>2
  <2>. HIDE DEF left, offered, nextEpochs
  <2>. QED  BY <2>1, <2>2, <2>3, <1>2, CommitMovesOn
<1>7. ASSUME NEW t \in 1..MaxTime, NEW q \in Quotes, AcceptSolverQuote(request, q, t) PROVE MovesOn
  <2>. DEFINE offered == With(quotes, q, [sequence |-> Sequence, remaining |-> q.capacity])
  <2>1. /\ now <= t /\ \A c \in quoteClaims : NonceKey(c) # NonceKey(q)
        /\ Commit(request, t, "solver-quote-open", index, open, offered, epochs, cancelled)
        /\ claimed' = claimed /\ quoteClaims' = quoteClaims \cup {q}
    BY <1>7 DEF AcceptSolverQuote, EventAllowed
  <2>2. DOMAIN offered = DOMAIN quotes \cup {q}
    BY DEF With
  <2>. HIDE DEF offered
  <2>. QED  BY <2>1, <2>2, <1>2, CommitMovesOn
<1>8. ASSUME NEW t \in 1..MaxTime, NEW q, CancelSolverQuote(request, q, t) PROVE MovesOn
  <2>1. /\ now <= t /\ UNCHANGED <<claimed, quoteClaims>>
        /\ Commit(request, t, "solver-quote-cancelled", index, open,
                  Restrict(quotes, DOMAIN quotes \ {q}), epochs, cancelled)
    BY <1>8 DEF CancelSolverQuote, EventAllowed
  <2>2. DOMAIN Restrict(quotes, DOMAIN quotes \ {q}) \subseteq DOMAIN quotes
    BY DEF Restrict
  <2>. QED  BY <2>1, <2>2, <1>2, CommitMovesOn
<1>. QED  BY <1>1, <1>3, <1>4, <1>5, <1>6, <1>7, <1>8

(* What is gone at an event stays gone.                                    *)
LEMMA StaysGone ==
  ASSUME BookInv, BookInv', MatcherNext, NEW o \in Admitted \ Standing
  PROVE  o \in Admitted' \ Standing'
<1>1. MovesOn
  BY EventMovesOn
<1>2. o \in Admitted'
  BY <1>1 DEF MovesOn, Admitted
<1>3. DOMAIN Resting(now)' = {p \in DOMAIN open' : ActiveOrder(p, now', Lifecycle')}
      /\ DOMAIN Resting(now) = {p \in DOMAIN open : ActiveOrder(p, now, Lifecycle)}
      /\ DOMAIN Live(now)' \subseteq DOMAIN quotes'
      /\ DOMAIN Live(now) = {q \in DOMAIN quotes : ActiveQuote(q, now, Lifecycle)}
  BY DEF Resting, Live, Restrict
<1>4. /\ DOMAIN open' \subseteq Orders /\ DOMAIN quotes' \subseteq Quotes
      /\ claimed \subseteq Orders /\ quoteClaims \subseteq Quotes /\ Orders \cap Quotes = {}
  BY SignedFields DEF BookInv, BookHolds, ClaimsHeld, QuotesLive
<1>5. CASE o \in claimed
  <2>1. ASSUME o \in DOMAIN Resting(now)' PROVE FALSE
    <3>1. o \in DOMAIN open /\ ActiveOrder(o, now', Lifecycle')
      BY <2>1, <1>1, <1>3, <1>5 DEF MovesOn
    <3>2. /\ o.maker \in Accounts /\ o.epoch \in Nat /\ o \in Orders
          /\ o.epoch <= epochs[o.maker] /\ o.epoch = epochs'[o.maker]
          /\ epochs[o.maker] \in Nat
      BY <3>1, <1>4, <1>5, SignedFields DEF BookInv, ClaimsHeld, Holds, ActiveOrder, Lifecycle
    <3>3. epochs[o.maker] = epochs'[o.maker]
      BY <3>2, <1>1 DEF MovesOn
    <3>4. /\ Lifecycle.epochs[o.maker] = Lifecycle'.epochs[o.maker]
          /\ Lifecycle.cancelled \subseteq Lifecycle'.cancelled
      BY <3>3, <1>1 DEF MovesOn, Lifecycle
    <3>5. now \in Nat /\ now' \in Nat /\ now <= now'
      BY <1>1 DEF MovesOn, BookInv
    <3>6. o.expiry \in Nat
      BY <3>2, SignedFields
    <3>7. ActiveOrder(o, now, Lifecycle)
      BY <3>1, <3>4, <3>5, <3>6 DEF ActiveOrder
    <3>. QED  BY <3>1, <3>7, <1>3 DEF Standing
  <2>2. o \notin DOMAIN quotes'
    BY <1>4, <1>5
  <2>. QED  BY <1>2, <1>3, <2>1, <2>2 DEF Standing
<1>6. CASE o \in quoteClaims
  <2>1. o \notin DOMAIN quotes
    BY <1>3 DEF Standing, BookInv, QuotesLive
  <2>2. o \notin DOMAIN quotes' /\ o \notin DOMAIN open'
    BY <2>1, <1>1, <1>4, <1>6 DEF MovesOn
  <2>. QED  BY <1>2, <1>3, <2>2 DEF Standing
<1>. QED  BY <1>5, <1>6 DEF Admitted

(* An order or a quote that was admitted and can no longer trade, because  *)
(* it was filled, cancelled, expired or its epoch ended, never can again,  *)
(* whatever comes after it (order-lifecycle.ts, persistent-matcher.ts).    *)
THEOREM NothingReturns ==
  MatcherSpec => [][\A o \in Admitted \ Standing : o \in Admitted' \ Standing']_matcherVars
<1>1. BookInv /\ BookInv' /\ [MatcherNext]_matcherVars =>
        [\A o \in Admitted \ Standing : o \in Admitted' \ Standing']_matcherVars
  BY StaysGone
<1>. QED  BY <1>1, BookAlways, PTL DEF MatcherSpec

-----------------------------------------------------------------------------
(* What routing can be given, and the order it puts it in. *)

Segments ==
  [venue : {"book", "solver"}, of : Orders \cup Quotes, sequence : Nat, level : Nat,
   price : Nat, available : Nat, left : Nat]

(* Segments a route is made of: each has a place of its own in its venue,  *)
(* something to give, and is of an order or a quote.                       *)
Listed(segments) ==
  /\ IsFiniteSet(segments) /\ segments \subseteq Segments
  /\ \A s, t \in segments :
        s.venue = t.venue /\ s.sequence = t.sequence /\ s.level = t.level => s = t
  /\ \A s \in segments :
        /\ s.available > 0
        /\ s.venue = "book" => s.of \in Orders /\ s.available <= s.of.base
        /\ s.venue = "solver" => s.of \in Quotes

LEMMA ListedPart ==
  ASSUME NEW segments, Listed(segments), NEW part \in SUBSET segments
  PROVE  Listed(part)
BY FS_Subset DEF Listed

(* Priority is an order: of two segments with places of their own one is   *)
(* before the other, and never both.                                       *)
LEMMA BeforeOrders ==
  ASSUME NEW side, NEW s \in Segments, NEW t \in Segments, NEW u \in Segments
  PROVE  /\ ~ Before(side, s, s)
         /\ Before(side, s, t) /\ Before(side, t, u) => Before(side, s, u)
         /\ \/ Before(side, s, t) \/ Before(side, t, s)
            \/ s.venue = t.venue /\ s.sequence = t.sequence /\ s.level = t.level
<1>1. \A x \in {s, t, u} : /\ x.venue \in {"book", "solver"} /\ x.sequence \in Nat
                           /\ x.level \in Nat /\ x.price \in Nat
  BY DEF Segments
<1>2. CASE side = "buy"
  BY <1>1, <1>2 DEF Before, Cheaper
<1>3. CASE side # "buy"
  BY <1>1, <1>3 DEF Before, Cheaper
<1>. QED  BY <1>2, <1>3

(* A line has every segment once, in the order of priority.                *)
LEMMA LineLists ==
  ASSUME NEW side, NEW segments, Listed(segments)
  PROVE  /\ Line(side, segments) \in Seq(segments)
         /\ \A s \in segments : \E i \in DOMAIN Line(side, segments) : Line(side, segments)[i] = s
         /\ \A i, j \in DOMAIN Line(side, segments) :
               i < j => Before(side, Line(side, segments)[i], Line(side, segments)[j])
<1>. DEFINE Ahead(s) == {t \in segments : Before(side, t, s)}
            rank == [s \in segments |-> Cardinality(Ahead(s))]
<1>1. IsFiniteSet(segments) /\ \A s \in segments : s \in Segments
  BY DEF Listed
<1>2. PICK n \in Nat : n = Cardinality(segments)
  BY <1>1, FS_CardinalityType
<1>3. \A s \in segments : IsFiniteSet(Ahead(s)) /\ Cardinality(Ahead(s)) \in 0..(n - 1)
  <2>. SUFFICES ASSUME NEW s \in segments
                PROVE  IsFiniteSet(Ahead(s)) /\ Cardinality(Ahead(s)) \in 0..(n - 1)
    OBVIOUS
  <2>1. Ahead(s) \in SUBSET segments /\ s \notin Ahead(s)
    BY <1>1, BeforeOrders
  <2>. HIDE DEF Ahead
  <2>2. IsFiniteSet(Ahead(s)) /\ Cardinality(Ahead(s)) <= n /\ Cardinality(Ahead(s)) # n
    BY <1>1, <1>2, <2>1, FS_Subset
  <2>3. Cardinality(Ahead(s)) \in Nat
    BY <2>2, FS_CardinalityType
  <2>. QED  BY <2>2, <2>3
<1>4. ASSUME NEW s \in segments, NEW t \in segments, Before(side, s, t) PROVE rank[s] < rank[t]
  <2>1. Ahead(s) \in SUBSET Ahead(t)
    BY <1>1, <1>4, BeforeOrders
  <2>2. s \in Ahead(t) /\ s \notin Ahead(s)
    BY <1>1, <1>4, BeforeOrders
  <2>3. IsFiniteSet(Ahead(t)) /\ Cardinality(Ahead(s)) \in Int /\ Cardinality(Ahead(t)) \in Int
    BY <1>3
  <2>4. rank[s] = Cardinality(Ahead(s)) /\ rank[t] = Cardinality(Ahead(t))
    OBVIOUS
  <2>. HIDE DEF Ahead, rank
  <2>5. Cardinality(Ahead(s)) <= Cardinality(Ahead(t)) /\ Cardinality(Ahead(s)) # Cardinality(Ahead(t))
    BY <2>1, <2>2, <2>3, FS_Subset
  <2>. QED  BY <2>3, <2>4, <2>5
<1>5. \A s \in segments : rank[s] \in 0..(n - 1) /\ rank[s] \in Int
  BY <1>3
<1>22. \A s \in segments : rank[s] = Cardinality({t \in segments : Before(side, t, s)})
  OBVIOUS
<1>6. rank \in [segments -> 0..(n - 1)]
  BY <1>3
<1>. HIDE DEF Ahead, rank
<1>7. \A s, t \in segments : Before(side, s, t) \/ Before(side, t, s) \/ s = t
  BY <1>1, BeforeOrders DEF Listed
<1>8. \A s, t \in segments : rank[s] = rank[t] => s = t
  <2>. SUFFICES ASSUME NEW s \in segments, NEW t \in segments, s # t PROVE rank[s] # rank[t]
    OBVIOUS
  <2>1. rank[s] \in Int /\ rank[t] \in Int
    BY <1>5
  <2>. QED  BY <2>1, <1>4, <1>7
<1>. DEFINE place == [s \in segments |-> rank[s] + 1]
<1>9. place \in [segments -> 1..n] /\ \A s \in segments : place[s] = rank[s] + 1 /\ rank[s] \in Int
  BY <1>5
<1>10. \A s, t \in segments : place[s] = place[t] => s = t
  BY <1>8, <1>9
<1>. HIDE DEF place
<1>11. place \in Injection(segments, 1..n)
  BY <1>9, <1>10, Fun_IsInj
<1>12. IsFiniteSet(1..n) /\ Cardinality(1..n) = n
  BY FS_Interval
<1>13. place \in Surjection(segments, 1..n)
  BY <1>1, <1>2, <1>11, <1>12, FS_Injection
<1>14. \A i \in 1..n : \E s \in segments : place[s] = i
  BY <1>13, Fun_SurjectionProperties
<1>15. PICK line : line = Line(side, segments)
  OBVIOUS
<1>16. \A i \in 1..n : \E s \in segments : rank[s] = i - 1
  <2>. SUFFICES ASSUME NEW i \in 1..n PROVE \E s \in segments : rank[s] = i - 1
    OBVIOUS
  <2>1. PICK s \in segments : place[s] = i
    BY <1>14
  <2>. QED  BY <2>1, <1>9
<1>17. line = [i \in 1..n |-> CHOOSE s \in segments : rank[s] = i - 1]
  <2>. DEFINE old(i) == CHOOSE s \in segments : Cardinality({t \in segments : Before(side, t, s)}) = i - 1
              new(i) == CHOOSE s \in segments : rank[s] = i - 1
  <2>1. \A i \in 1..n : old(i) = new(i)
    <3>1. \A i \in 1..n : \A s : s \in segments /\ Cardinality({t \in segments : Before(side, t, s)}) = i - 1
                                 <=> s \in segments /\ rank[s] = i - 1
      BY <1>22
    <3>. QED  BY <3>1
  <2>2. line = [i \in 1..n |-> old(i)]
    BY <1>2, <1>15, Zenon DEF Line
  <2>3. [i \in 1..n |-> old(i)] = [i \in 1..n |-> new(i)]
    <3>. HIDE DEF old, new
    <3>. QED  BY <2>1
  <2>. QED  BY <2>2, <2>3
<1>18. \A i \in 1..n : line[i] \in segments /\ rank[line[i]] = i - 1
  BY <1>16, <1>17
<1>19. line \in Seq(segments) /\ DOMAIN line = 1..n
  BY <1>17, <1>18
<1>20. ASSUME NEW s \in segments PROVE \E i \in DOMAIN line : line[i] = s
  <2>1. PICK i \in 1..n : i = rank[s] + 1
    BY <1>5
  <2>2. rank[line[i]] = rank[s] /\ line[i] \in segments
    <3>1. rank[s] \in Int
      BY <1>5
    <3>. QED  BY <1>18, <2>1, <3>1
  <2>. QED  BY <1>8, <1>19, <2>2
<1>21. ASSUME NEW i \in 1..n, NEW j \in 1..n, i < j PROVE Before(side, line[i], line[j])
  <2>1. /\ line[i] \in segments /\ line[j] \in segments
        /\ rank[line[i]] = i - 1 /\ rank[line[j]] = j - 1
    BY <1>18
  <2>2. ~ (rank[line[j]] < rank[line[i]]) /\ rank[line[j]] # rank[line[i]]
    BY <1>21, <2>1
  <2>. QED  BY <1>4, <1>7, <2>1, <2>2
<1>. QED  BY <1>15, <1>19, <1>20, <1>21

(* The capped line is one of priority too, and leaves out no segment of    *)
(* the book that comes before one it has.                                  *)
LEMMA CappedLists ==
  ASSUME NEW side, NEW segments, Listed(segments)
  PROVE  /\ Capped(side, segments) \in Seq(segments)
         /\ \A i, j \in DOMAIN Capped(side, segments) :
               i < j => Before(side, Capped(side, segments)[i], Capped(side, segments)[j])
         /\ \A s \in segments, i \in DOMAIN Capped(side, segments) :
               s.venue = "book" /\ Before(side, s, Capped(side, segments)[i]) =>
                 \E j \in DOMAIN Capped(side, segments) : j < i /\ Capped(side, segments)[j] = s
<1>. DEFINE solvers == {s \in segments : s.venue = "solver"}
            few == {s \in solvers : Cardinality({t \in solvers : Before(side, t, s)}) < MaxSolverFills}
<1>1. PICK kept : kept = (segments \ solvers) \cup few
  OBVIOUS
<1>2. PICK line : line = Line(side, kept)
  OBVIOUS
<1>3. Capped(side, segments) = SubSeq(line, 1, Least(MaxFills, Len(line)))
  BY <1>1, <1>2 DEF Capped, First
<1>4. kept \in SUBSET segments /\ \A s \in segments : s.venue = "book" => s \in kept
  BY <1>1
<1>. HIDE DEF solvers, few
<1>5. Listed(kept)
  BY <1>4, ListedPart
<1>6. /\ line \in Seq(kept)
      /\ \A s \in kept : \E i \in DOMAIN line : line[i] = s
      /\ \A i, j \in DOMAIN line : i < j => Before(side, line[i], line[j])
  BY <1>2, <1>5, LineLists
<1>7. Len(line) \in Nat /\ DOMAIN line = 1..Len(line) /\ \A i \in DOMAIN line : line[i] \in segments
  BY <1>4, <1>6
<1>8. PICK k \in Nat : k = Least(MaxFills, Len(line)) /\ k <= Len(line)
  <2>1. MaxFills \in Nat
    BY RoutingConstants
  <2>2. PICK l \in Nat : l = Len(line)
    BY <1>7
  <2>3. Least(MaxFills, l) \in Nat /\ Least(MaxFills, l) <= l
    BY <2>1, <2>2 DEF Least
  <2>. QED  BY <2>2, <2>3
<1>9. PICK capped : capped = Capped(side, segments)
  OBVIOUS
<1>10. capped = SubSeq(line, 1, k)
  BY <1>3, <1>8, <1>9
<1>11. \A i \in 1..k : line[i] \in segments
  BY <1>7, <1>8
<1>12. /\ capped \in Seq(segments) /\ DOMAIN capped = 1..k
       /\ \A i \in 1..k : capped[i] = line[i]
  <2>1. /\ SubSeq(line, 1, k) \in Seq(segments)
        /\ Len(SubSeq(line, 1, k)) = IF 1 <= k THEN k - 1 + 1 ELSE 0
        /\ \A i \in 1..k - 1 + 1 : SubSeq(line, 1, k)[i] = line[1 + i - 1]
    BY <1>8, <1>11, SubSeqProperties
  <2>2. Len(capped) = k
    BY <1>8, <1>10, <2>1
  <2>. QED  BY <1>8, <1>10, <2>1, <2>2
<1>13. \A i, j \in 1..k : i < j => Before(side, capped[i], capped[j])
  BY <1>6, <1>7, <1>8, <1>12
<1>14. ASSUME NEW s \in segments, NEW i \in 1..k, s.venue = "book", Before(side, s, capped[i])
       PROVE  \E j \in 1..k : j < i /\ capped[j] = s
  <2>1. PICK j \in DOMAIN line : line[j] = s
    BY <1>4, <1>6, <1>14
  <2>2. i \in DOMAIN line /\ line[i] = capped[i] /\ i \in Int /\ j \in Int
    BY <1>7, <1>8, <1>12
  <2>3. s \in Segments /\ line[i] \in Segments
    BY <1>7, <2>2 DEF Listed
  <2>4. ~ Before(side, line[i], s) /\ s # line[i]
    <3>1. Before(side, s, line[i])
      BY <1>14, <2>2
    <3>2. /\ ~ Before(side, s, s)
          /\ Before(side, s, line[i]) /\ Before(side, line[i], s) => Before(side, s, s)
      BY <2>3, BeforeOrders
    <3>. QED  BY <3>1, <3>2
  <2>5. j < i
    BY <1>6, <2>1, <2>2, <2>4
  <2>6. j \in 1..k
    BY <1>7, <1>8, <2>5
  <2>. QED  BY <1>12, <2>1, <2>5, <2>6
<1>. QED  BY <1>9, <1>12, <1>13, <1>14

-----------------------------------------------------------------------------
(* What is allotted. *)

FillsOf(segments) == Seq([segment : segments, amount : Nat \ {0}])

(* Fills take the segments of a line in order, all but the last of them    *)
(* whole, and no more than is needed.                                      *)
Allots(line, need, fills) ==
  /\ Len(fills) <= Len(line)
  /\ \A i \in DOMAIN fills : fills[i].segment = line[i] /\ fills[i].amount <= line[i].available
  /\ \A i, j \in DOMAIN fills : i < j => fills[i].amount = line[i].available
  /\ Filled(fills) <= need

LEMMA FillsHaveSegments ==
  ASSUME NEW segments, NEW fills \in FillsOf(segments)
  PROVE  /\ Len(fills) \in Nat /\ DOMAIN fills = 1..Len(fills)
         /\ \A i \in DOMAIN fills :
               fills[i].segment \in segments /\ fills[i].amount \in Nat /\ fills[i].amount > 0
<1>1. PICK S : S = [segment : segments, amount : Nat \ {0}]
  OBVIOUS
<1>2. fills \in Seq(S)
  BY <1>1 DEF FillsOf
<1>3. Len(fills) \in Nat /\ DOMAIN fills = 1..Len(fills) /\ \A i \in DOMAIN fills : fills[i] \in S
  BY <1>2
<1>. QED  BY <1>1, <1>3

LEMMA AllotFills ==
  ASSUME NEW segments \in SUBSET Segments, \A s \in segments : s.available > 0,
         NEW line \in Seq(segments), NEW need \in Nat
  PROVE  Allot(line, need) \in FillsOf(segments) /\ Allots(line, need, Allot(line, need))
<1>1. PICK n \in Nat : n = Len(line) /\ DOMAIN line = 1..n
  OBVIOUS
<1>2. \A i \in 1..n : line[i] \in segments /\ line[i].available \in Nat /\ line[i].available > 0
  BY <1>1 DEF Segments
<1>3. PICK size : size = [j \in DOMAIN line |-> line[j].available]
  OBVIOUS
<1>4. \A i \in 1..n : size[i] = line[i].available /\ size[i] \in Nat /\ size[i] > 0
  BY <1>1, <1>2, <1>3
<1>5. PICK ahead : ahead = [i \in 1..(n + 1) |-> SumOver(size, 1..(i - 1))]
  OBVIOUS
<1>6. \A i \in 1..n : AheadOf(line, i) = ahead[i]
  BY <1>3, <1>5 DEF AheadOf
<1>7. \A i \in 1..(n + 1) : ahead[i] \in Nat
  <2>. SUFFICES ASSUME NEW i \in 1..(n + 1) PROVE SumOver(size, 1..(i - 1)) \in Nat
    BY <1>5
  <2>1. IsFiniteSet(1..(i - 1))
    BY FS_Interval
  <2>2. \A j \in 1..(i - 1) : size[j] \in Nat
    BY <1>4
  <2>. QED  BY <2>1, <2>2, SumNatural
<1>8. \A i \in 1..n : ahead[i + 1] = ahead[i] + size[i]
  <2>. SUFFICES ASSUME NEW i \in 1..n PROVE ahead[i + 1] = ahead[i] + size[i]
    OBVIOUS
  <2>1. PICK k \in Nat : k = i - 1 /\ k + 1 = i
    OBVIOUS
  <2>2. 1..i = (1..k) \cup {i} /\ IsFiniteSet(1..k) /\ i \notin 1..k
    BY <2>1, OneLonger, FS_Interval
  <2>3. size[i] \in Int /\ \A j \in 1..k : size[j] \in Int
    BY <1>4, <2>1
  <2>4. SumOver(size, (1..k) \cup {i}) = size[i] + SumOver(size, 1..k)
    BY <2>2, <2>3, SumInsert
  <2>5. ahead[i + 1] = SumOver(size, 1..i) /\ ahead[i] = SumOver(size, 1..k)
    <3>1. i + 1 \in 1..(n + 1) /\ i \in 1..(n + 1) /\ (i + 1) - 1 = i
      OBVIOUS
    <3>. QED  BY <1>5, <2>1, <3>1
  <2>6. ahead[i] \in Nat
    BY <1>7
  <2>7. ahead[i + 1] = size[i] + ahead[i]
    BY <2>2, <2>4, <2>5
  <2>. QED  BY <2>3, <2>6, <2>7
<1>9. \A i, j \in 1..(n + 1) : i <= j => ahead[i] <= ahead[j]
  <2>. SUFFICES ASSUME NEW i \in 1..(n + 1), NEW j \in 1..(n + 1), i <= j
                PROVE  SumOver(size, 1..(i - 1)) <= SumOver(size, 1..(j - 1))
    BY <1>5
  <2>1. IsFiniteSet(1..(j - 1))
    BY FS_Interval
  <2>2. (1..(i - 1)) \in SUBSET (1..(j - 1)) /\ \A x \in 1..(j - 1) : size[x] \in Nat
    BY <1>4
  <2>. QED  BY <2>1, <2>2, SumOfPart
<1>10. ahead[1] = 0
  <2>1. 1 \in 1..(n + 1) /\ 1..(1 - 1) = {}
    OBVIOUS
  <2>. QED  BY <1>5, <2>1, SumEmpty
<1>11. PICK reached : reached = {i \in 1..n : ahead[i] < need}
  OBVIOUS
<1>12. \A i \in reached : \A j \in 1..i : j \in reached
  <2>. SUFFICES ASSUME NEW i \in reached, NEW j \in 1..i PROVE j \in reached
    OBVIOUS
  <2>1. i \in 1..n /\ ahead[i] < need /\ j \in 1..n /\ j <= i
    BY <1>11
  <2>2. ahead[j] <= ahead[i] /\ ahead[j] \in Nat /\ ahead[i] \in Nat
    BY <1>7, <1>9, <2>1
  <2>. QED  BY <1>11, <2>1, <2>2
<1>13. reached \in SUBSET (1..n)
  BY <1>11
<1>14. PICK m \in Nat : m <= n /\ m = Cardinality(reached) /\ reached = 1..m
  <2>1. Cardinality(reached) \in 0..n /\ reached = 1..Cardinality(reached)
    BY <1>12, <1>13, ClosedDownwards
  <2>. QED  BY <2>1
<1>15. PICK fills : fills = Allot(line, need)
  OBVIOUS
<1>16. fills = [i \in 1..m |-> [segment |-> line[i], amount |-> Least(line[i].available, need - AheadOf(line, i))]]
  <2>1. {i \in DOMAIN line : AheadOf(line, i) < need} = reached
    BY <1>1, <1>6, <1>11
  <2>. QED  BY <1>14, <1>15, <2>1, Zenon DEF Allot
<1>17. \A i \in 1..m : i \in 1..n /\ ahead[i] < need /\ ahead[i] \in Nat
  <2>. SUFFICES ASSUME NEW i \in 1..m PROVE i \in 1..n /\ ahead[i] < need /\ ahead[i] \in Nat
    OBVIOUS
  <2>1. i \in 1..n /\ ahead[i] < need
    BY <1>11, <1>14
  <2>. QED  BY <1>7, <2>1
<1>23. \A i \in 1..m : fills[i] = [segment |-> line[i], amount |-> Least(size[i], need - ahead[i])]
  <2>. SUFFICES ASSUME NEW i \in 1..m
                PROVE  fills[i] = [segment |-> line[i], amount |-> Least(size[i], need - ahead[i])]
    OBVIOUS
  <2>1. i \in 1..n
    BY <1>17
  <2>2. AheadOf(line, i) = ahead[i] /\ size[i] = line[i].available
    BY <1>4, <1>6, <2>1
  <2>. QED  BY <1>16, <2>1, <2>2
<1>24. \A i \in 1..m : fills[i].segment = line[i] /\ fills[i].amount = Least(size[i], need - ahead[i])
  <2>. SUFFICES ASSUME NEW i \in 1..m
                PROVE  fills[i].segment = line[i] /\ fills[i].amount = Least(size[i], need - ahead[i])
    OBVIOUS
  <2>1. PICK x : x = Least(size[i], need - ahead[i])
    OBVIOUS
  <2>2. fills[i] = [segment |-> line[i], amount |-> x]
    BY <1>23, <2>1
  <2>. QED  BY <2>1, <2>2
<1>18. \A i \in 1..m : /\ fills[i].segment = line[i] /\ fills[i].amount = Least(size[i], need - ahead[i])
                       /\ fills[i].amount \in Nat /\ fills[i].amount > 0 /\ fills[i].amount <= size[i]
  <2>. SUFFICES ASSUME NEW i \in 1..m
                PROVE  /\ fills[i].segment = line[i] /\ fills[i].amount = Least(size[i], need - ahead[i])
                       /\ fills[i].amount \in Nat /\ fills[i].amount > 0 /\ fills[i].amount <= size[i]
    OBVIOUS
  <2>1. fills[i].segment = line[i] /\ fills[i].amount = Least(size[i], need - ahead[i])
    BY <1>24
  <2>2. i \in 1..n /\ ahead[i] < need /\ ahead[i] \in Nat /\ size[i] \in Nat /\ size[i] > 0
    BY <1>4, <1>17
  <2>. QED  BY <2>1, <2>2 DEF Least
<1>19. fills \in FillsOf(segments) /\ DOMAIN fills = 1..m /\ Len(fills) = m
  <2>1. PICK S : S = [segment : segments, amount : Nat \ {0}]
    OBVIOUS
  <2>2. ASSUME NEW i \in 1..m PROVE fills[i] \in S
    <3>1. /\ fills[i] = [segment |-> line[i], amount |-> Least(size[i], need - ahead[i])]
          /\ line[i] \in segments /\ Least(size[i], need - ahead[i]) \in Nat \ {0}
      BY <1>2, <1>17, <1>18, <1>23
    <3>. QED  BY <2>1, <3>1
  <2>3. fills = [i \in 1..m |-> fills[i]] /\ m \in Nat
    BY <1>16
  <2>4. fills \in Seq(S)
    BY <2>2, <2>3
  <2>. QED  BY <2>1, <2>3, <2>4 DEF FillsOf
<1>20. ASSUME NEW i \in 1..m, NEW j \in 1..m, i < j PROVE fills[i].amount = line[i].available
  <2>4. i \in 1..n /\ j \in 1..n /\ ahead[j] < need /\ ahead[j] \in Nat /\ ahead[i] \in Nat
    BY <1>17
  <2>1. i + 1 \in 1..(n + 1) /\ j \in 1..(n + 1) /\ i + 1 <= j
    BY <1>20, <2>4
  <2>2. ahead[i + 1] <= ahead[j] /\ ahead[i + 1] = ahead[i] + size[i]
    BY <1>8, <1>9, <2>1
  <2>3. size[i] \in Nat /\ size[i] = line[i].available
    BY <1>4, <2>4
  <2>5. fills[i].amount = Least(size[i], need - ahead[i])
    BY <1>24
  <2>6. size[i] <= need - ahead[i]
    BY <2>2, <2>3, <2>4
  <2>. QED  BY <2>3, <2>4, <2>5, <2>6 DEF Least
<1>21. Filled(fills) <= need
  <2>1. PICK at : at = [i \in 0..m |-> Least(need, ahead[i + 1])]
    OBVIOUS
  <2>2. \A i \in 0..m : at[i] = Least(need, ahead[i + 1]) /\ i + 1 \in 1..(n + 1) /\ ahead[i + 1] \in Nat
    <3>. SUFFICES ASSUME NEW i \in 0..m
                  PROVE  at[i] = Least(need, ahead[i + 1]) /\ i + 1 \in 1..(n + 1) /\ ahead[i + 1] \in Nat
      OBVIOUS
    <3>1. i + 1 \in 1..(n + 1)
      BY <1>14
    <3>. QED  BY <1>7, <2>1, <3>1
  <2>3. at \in [0..m -> Int] /\ at[0] = 0 /\ at[m] <= need /\ at[m] \in Int
    <3>1. \A i \in 0..m : at[i] \in Int /\ at[i] <= need
      BY <2>2 DEF Least
    <3>2. at[0] = Least(need, ahead[1])
      BY <2>2
    <3>. QED  BY <1>10, <2>1, <3>1, <3>2 DEF Least
  <2>4. PICK amount : amount = Amounts(fills)
    OBVIOUS
  <2>5. \A i \in 1..m : amount[i] = fills[i].amount
    BY <1>19, <2>4 DEF Amounts
  <2>6. ASSUME NEW i \in 1..m PROVE amount[i] = at[i] - at[i - 1]
    <3>1. i \in 0..m /\ i - 1 \in 0..m /\ (i - 1) + 1 = i /\ i \in 1..n
      BY <1>17
    <3>2. at[i] = Least(need, ahead[i + 1]) /\ at[i - 1] = Least(need, ahead[i])
      BY <2>2, <3>1
    <3>3. ahead[i + 1] = ahead[i] + size[i] /\ ahead[i] \in Nat /\ size[i] \in Nat /\ ahead[i] < need
      BY <1>4, <1>8, <1>17, <3>1
    <3>4. amount[i] = Least(size[i], need - ahead[i])
      BY <1>24, <2>5
    <3>5. PICK p \in Nat, q \in Nat : p = ahead[i] /\ q = size[i] /\ p < need
      BY <3>3
    <3>6. at[i] = Least(need, p + q) /\ at[i - 1] = Least(need, p) /\ amount[i] = Least(q, need - p)
      BY <3>2, <3>3, <3>4, <3>5
    <3>7. Least(q, need - p) = Least(need, p + q) - Least(need, p)
      BY <3>5 DEF Least
    <3>. QED  BY <3>6, <3>7
  <2>7. SumOver(amount, 1..m) = at[m] - at[0]
    BY <2>3, <2>6, SumTelescopes
  <2>8. Filled(fills) = SumOver(amount, 1..m)
    BY <1>19, <2>4 DEF Filled
  <2>. QED  BY <2>3, <2>7, <2>8
<1>22. Allots(line, need, fills)
  <2>1. \A i \in DOMAIN fills : fills[i].segment = line[i] /\ fills[i].amount <= line[i].available
    BY <1>4, <1>17, <1>18, <1>19
  <2>2. \A i, j \in DOMAIN fills : i < j => fills[i].amount = line[i].available
    BY <1>19, <1>20
  <2>3. Len(fills) <= Len(line)
    BY <1>1, <1>14, <1>19
  <2>. QED  BY <1>21, <2>1, <2>2, <2>3 DEF Allots
<1>. QED  BY <1>15, <1>19, <1>22

(* What the segments of an order or a quote can give together.             *)
Room(segments, x) == SumOver([s \in segments |-> s.available], {s \in segments : s.of = x})

LEMMA TakenWithinRoom ==
  ASSUME NEW segments, Listed(segments), NEW line \in Seq(segments),
         \A i, j \in DOMAIN line : line[i] = line[j] => i = j,
         NEW need, NEW fills \in FillsOf(segments), Allots(line, need, fills), NEW x
  PROVE  TakenFrom(fills, x) \in Nat /\ TakenFrom(fills, x) <= Room(segments, x)
<1>1. PICK n \in Nat : n = Len(fills)
  BY FillsHaveSegments
<1>2. /\ DOMAIN fills = 1..n
      /\ \A i \in 1..n : fills[i].segment \in segments /\ fills[i].amount \in Nat /\ fills[i].amount > 0
  BY <1>1, FillsHaveSegments
<1>3. /\ Len(line) \in Nat /\ DOMAIN line = 1..Len(line) /\ n <= Len(line)
      /\ \A i \in 1..n : fills[i].segment = line[i] /\ fills[i].amount <= line[i].available
  BY <1>1, <1>2 DEF Allots
<1>4. PICK I : I = {i \in 1..n : fills[i].segment.of = x}
  OBVIOUS
<1>5. PICK T : T = {s \in segments : s.of = x}
  OBVIOUS
<1>6. IsFiniteSet(I) /\ IsFiniteSet(T)
  <2>1. IsFiniteSet(1..n) /\ I \in SUBSET (1..n) /\ IsFiniteSet(segments) /\ T \in SUBSET segments
    BY <1>4, <1>5, FS_Interval DEF Listed
  <2>. QED  BY <2>1, FS_Subset
<1>7. PICK f : f = Amounts(fills)
  OBVIOUS
<1>8. \A i \in 1..n : f[i] = fills[i].amount
  BY <1>2, <1>7 DEF Amounts
<1>9. TakenFrom(fills, x) = SumOver(f, I)
  BY <1>2, <1>4, <1>7 DEF TakenFrom
<1>10. PICK h : h = [i \in I |-> fills[i].segment]
  OBVIOUS
<1>11. \A i \in I : i \in 1..n /\ h[i] = fills[i].segment /\ h[i] = line[i] /\ h[i] \in T
  BY <1>2, <1>3, <1>4, <1>5, <1>10
<1>12. h \in [I -> T]
  BY <1>10, <1>11
<1>13. \A i, j \in I : h[i] = h[j] => i = j
  BY <1>3, <1>11
<1>. DEFINE at(s) == CHOOSE i \in I : h[i] = s
<1>14. PICK g : g = [s \in T |-> IF \E i \in I : h[i] = s THEN f[at(s)] ELSE 0]
  OBVIOUS
<1>15. \A i \in I : at(h[i]) = i
  <2>. SUFFICES ASSUME NEW i \in I PROVE at(h[i]) = i
    OBVIOUS
  <2>1. at(h[i]) \in I /\ h[at(h[i])] = h[i]
    OBVIOUS
  <2>. QED  BY <2>1, <1>13
<1>. HIDE DEF at
<1>16. \A i \in I : g[h[i]] = f[i]
  BY <1>11, <1>14, <1>15
<1>17. \A s \in T : (\A i \in I : h[i] # s) => g[s] = 0
  BY <1>14
<1>18. \A i \in I : f[i] \in Int /\ f[i] = g[h[i]]
  BY <1>2, <1>8, <1>11, <1>16
<1>19. SumOver(f, I) = SumOver(g, T)
  BY <1>6, <1>12, <1>13, <1>17, <1>18, SumReindexed
<1>20. PICK room : room = [s \in segments |-> s.available]
  OBVIOUS
<1>21. \A s \in T : room[s] = s.available /\ room[s] \in Nat
  BY <1>5, <1>20 DEF Listed, Segments
<1>22. \A s \in T : g[s] \in Int /\ room[s] \in Int /\ g[s] <= room[s]
  <2>. SUFFICES ASSUME NEW s \in T PROVE g[s] \in Int /\ g[s] <= room[s]
    BY <1>21
  <2>1. CASE \E i \in I : h[i] = s
    <3>1. PICK i \in I : h[i] = s
      BY <2>1
    <3>2. g[s] = fills[i].amount /\ fills[i].amount \in Nat /\ fills[i].amount <= line[i].available /\ line[i] = s
      BY <3>1, <1>2, <1>3, <1>8, <1>11, <1>16
    <3>. QED  BY <3>2, <1>21
  <2>2. CASE ~ \E i \in I : h[i] = s
    <3>1. g[s] = 0 /\ room[s] \in Nat
      BY <2>2, <1>17, <1>21
    <3>. QED  BY <3>1
  <2>. QED  BY <2>1, <2>2
<1>23. SumOver(g, T) <= SumOver(room, T)
  BY <1>6, <1>22, SumMonotone
<1>24. Room(segments, x) = SumOver(room, T)
  BY <1>5, <1>20 DEF Room
<1>25. SumOver(f, I) \in Nat
  <2>1. \A i \in I : f[i] \in Nat
    BY <1>2, <1>8, <1>11
  <2>. QED  BY <2>1, <1>6, SumNatural
<1>. QED  BY <1>9, <1>19, <1>23, <1>24, <1>25

(* What is allotted of the segments that no quote excludes.                *)
LEMMA WithoutFills ==
  ASSUME NEW taker, taker.base \in Nat, NEW segments, Listed(segments), NEW excluded,
         NEW part, part = {s \in segments : s.of \notin excluded}
  PROVE  /\ Listed(part) /\ Capped(taker.side, part) \in Seq(part)
         /\ AllotWithout(taker, segments, excluded) \in FillsOf(part)
         /\ Allots(Capped(taker.side, part), taker.base, AllotWithout(taker, segments, excluded))
<1>1. part \in SUBSET segments
  OBVIOUS
<1>2. Listed(part)
  BY <1>1, ListedPart
<1>3. PICK line : line = Capped(taker.side, part)
  OBVIOUS
<1>4. line \in Seq(part)
  BY <1>2, <1>3, CappedLists
<1>5. AllotWithout(taker, segments, excluded) = Allot(line, taker.base)
  BY <1>3 DEF AllotWithout
<1>6. part \in SUBSET Segments /\ \A s \in part : s.available > 0
  BY <1>2 DEF Listed
<1>7. PICK need \in Nat : need = taker.base
  OBVIOUS
<1>8. Allot(line, need) \in FillsOf(part) /\ Allots(line, need, Allot(line, need))
  BY <1>4, <1>6, AllotFills
<1>. QED  BY <1>2, <1>3, <1>4, <1>5, <1>7, <1>8

LEMMA BelowIsQuoted ==
  ASSUME NEW segments, NEW excluded, NEW part, part = {s \in segments : s.of \notin excluded},
         NEW fills \in FillsOf(part)
  PROVE  BelowMinimum(fills) \subseteq Quoted(segments) \ excluded
<1>1. ASSUME NEW x \in BelowMinimum(fills) PROVE x \in Quoted(segments) \ excluded
  <2>1. PICK f \in Range(fills) : f.segment.venue = "solver" /\ x = f.segment.of
    BY DEF BelowMinimum
  <2>2. PICK i \in DOMAIN fills : fills[i] = f
    BY DEF Range
  <2>3. f.segment \in part
    BY <2>2, FillsHaveSegments
  <2>. QED  BY <2>1, <2>3 DEF Quoted
<1>. QED  BY <1>1

LEMMA ImageIsFinite ==
  ASSUME NEW S, IsFiniteSet(S), NEW f
  PROVE  IsFiniteSet({f[x] : x \in S})
<1>1. PICK T : T = {f[x] : x \in S}
  OBVIOUS
<1>2. PICK g : g = [x \in S |-> f[x]]
  OBVIOUS
<1>3. g \in Surjection(S, T)
  BY <1>1, <1>2, Fun_IsSurj
<1>. QED  BY <1>1, <1>3, FS_Surjection

(* Fills that end an allocation: they are allotted from the segments left, *)
(* and no quote gives less than its minimum.                               *)
Filling(taker, part, fills) ==
  /\ fills \in FillsOf(part)
  /\ Allots(Capped(taker.side, part), taker.base, fills)
  /\ BelowMinimum(fills) = {}

(* An allocation ends, and only leaves out segments of solvers.            *)
LEMMA AllocateEnds ==
  ASSUME NEW taker, taker.base \in Nat, NEW segments, Listed(segments)
  PROVE  \E part \in SUBSET segments :
            /\ \A s \in segments \ part : s.venue = "solver"
            /\ Filling(taker, part, Allocate(taker, segments))
<1>. DEFINE D == SUBSET Quoted(segments)
            fillsOf(excluded) == AllotWithout(taker, segments, excluded)
            Eq(it) == it = [excluded \in D |-> IF BelowMinimum(fillsOf(excluded)) = {} THEN fillsOf(excluded)
                                               ELSE it[excluded \cup BelowMinimum(fillsOf(excluded))]]
<1>1. PICK stop : stop = {excluded \in D : BelowMinimum(fillsOf(excluded)) = {}}
  OBVIOUS
<1>2. PICK val : val = [excluded \in D |-> fillsOf(excluded)]
  OBVIOUS
<1>3. PICK next : next = [excluded \in D |-> excluded \cup BelowMinimum(fillsOf(excluded))]
  OBVIOUS
<1>4. IsFiniteSet(Quoted(segments))
  <2>1. PICK of : of = [s \in segments |-> s.of]
    OBVIOUS
  <2>2. PICK solvers : solvers = {s \in segments : s.venue = "solver"}
    OBVIOUS
  <2>3. IsFiniteSet(segments) /\ solvers \in SUBSET segments
    BY <2>2 DEF Listed
  <2>4. IsFiniteSet(solvers)
    BY <2>3, FS_Subset
  <2>5. IsFiniteSet({of[s] : s \in solvers})
    BY <2>4, ImageIsFinite
  <2>6. Quoted(segments) = {of[s] : s \in solvers}
    BY <2>1, <2>2 DEF Quoted
  <2>. QED  BY <2>5, <2>6
<1>5. PICK most \in Nat : most = Cardinality(Quoted(segments))
  BY <1>4, FS_CardinalityType
<1>6. PICK far : far = [excluded \in D |-> Cardinality(Quoted(segments) \ excluded)]
  OBVIOUS
<1>7. \A excluded \in D : fillsOf(excluded) \in FillsOf({s \in segments : s.of \notin excluded})
  BY WithoutFills
<1>8. \A excluded \in D : BelowMinimum(fillsOf(excluded)) \subseteq Quoted(segments) \ excluded
  BY <1>7, BelowIsQuoted
<1>9. Closer(D, stop, next, far, most)
  <2>1. \A excluded \in D : IsFiniteSet(Quoted(segments) \ excluded)
                            /\ Cardinality(Quoted(segments) \ excluded) \in 0..most
    <3>. SUFFICES ASSUME NEW excluded \in D
                  PROVE  IsFiniteSet(Quoted(segments) \ excluded)
                         /\ Cardinality(Quoted(segments) \ excluded) \in 0..most
      OBVIOUS
    <3>1. PICK R : R = Quoted(segments) \ excluded
      OBVIOUS
    <3>2. IsFiniteSet(R) /\ Cardinality(R) <= most
      BY <1>4, <1>5, <3>1, FS_Subset
    <3>3. Cardinality(R) \in Nat
      BY <3>2, FS_CardinalityType
    <3>. QED  BY <3>1, <3>2, <3>3, <1>5
  <2>2. far \in [D -> 0..most]
    BY <1>6, <2>1
  <2>3. ASSUME NEW excluded \in D \ stop PROVE next[excluded] \in D /\ far[next[excluded]] < far[excluded]
    <3>1. PICK below : below = BelowMinimum(fillsOf(excluded))
      OBVIOUS
    <3>2. below # {} /\ below \subseteq Quoted(segments) \ excluded
      BY <1>1, <1>8, <3>1
    <3>3. next[excluded] = excluded \cup below /\ next[excluded] \in D
      BY <1>3, <3>1, <3>2
    <3>4. PICK R : R = Quoted(segments) \ excluded
      OBVIOUS
    <3>5. PICK r : r = Quoted(segments) \ (excluded \cup below)
      OBVIOUS
    <3>6. r \in SUBSET R /\ r # R /\ IsFiniteSet(R)
      BY <2>1, <3>2, <3>4, <3>5
    <3>7. Cardinality(r) <= Cardinality(R) /\ Cardinality(r) # Cardinality(R) /\ IsFiniteSet(r)
      BY <3>6, FS_Subset
    <3>8. Cardinality(r) \in Nat /\ Cardinality(R) \in Nat
      BY <3>6, <3>7, FS_CardinalityType
    <3>9. far[excluded] = Cardinality(R) /\ far[next[excluded]] = Cardinality(r)
      BY <1>6, <3>3, <3>4, <3>5
    <3>. QED  BY <3>3, <3>7, <3>8, <3>9
  <2>. HIDE DEF D
  <2>. QED  BY <1>5, <2>2, <2>3 DEF Closer
<1>10. \A it : Eq(it) <=> Search(it, D, stop, val, next)
  <2>. SUFFICES ASSUME NEW it PROVE Eq(it) <=> Search(it, D, stop, val, next)
    OBVIOUS
  <2>. DEFINE one(excluded) == IF BelowMinimum(fillsOf(excluded)) = {} THEN fillsOf(excluded)
                               ELSE it[excluded \cup BelowMinimum(fillsOf(excluded))]
              two(excluded) == IF excluded \in stop THEN val[excluded] ELSE it[next[excluded]]
  <2>1. \A excluded \in D : one(excluded) = two(excluded)
    <3>. HIDE DEF D, fillsOf
    <3>. QED  BY <1>1, <1>2, <1>3
  <2>2. Eq(it) <=> it = [excluded \in D |-> one(excluded)]
    OBVIOUS
  <2>3. Search(it, D, stop, val, next) <=> it = [excluded \in D |-> two(excluded)]
    BY DEF Search
  <2>. HIDE DEF D, one, two, Eq
  <2>4. [excluded \in D |-> one(excluded)] = [excluded \in D |-> two(excluded)]
    BY <2>1
  <2>. QED  BY <2>2, <2>3, <2>4
<1>11. PICK it : it = CHOOSE jt : Eq(jt)
  OBVIOUS
<1>12. Allocate(taker, segments) = it[{}]
  BY <1>11 DEF Allocate
<1>13. Search(it, D, stop, val, next)
  <2>. HIDE DEF D, Eq
  <2>1. \E jt : Search(jt, D, stop, val, next)
    BY <1>9, SearchExists
  <2>2. \E jt : Eq(jt)
    BY <1>10, <2>1
  <2>3. Eq(it)
    BY <1>11, <2>2
  <2>. QED  BY <1>10, <2>3
<1>14. \E z \in D \cap stop : it[{}] = val[z]
  <2>1. {} \in D /\ D \in SUBSET D
    OBVIOUS
  <2>. HIDE DEF D
  <2>2. \A s \in D \ stop : next[s] \in D
    BY <1>9 DEF Closer
  <2>. QED  BY <1>9, <1>13, <2>1, <2>2, SearchEnds
<1>15. PICK z \in D : BelowMinimum(fillsOf(z)) = {} /\ it[{}] = fillsOf(z)
  BY <1>1, <1>2, <1>14
<1>16. PICK part : part = {s \in segments : s.of \notin z}
  OBVIOUS
<1>17. fillsOf(z) \in FillsOf(part) /\ Allots(Capped(taker.side, part), taker.base, fillsOf(z))
  BY <1>16, WithoutFills
<1>18. Filling(taker, part, Allocate(taker, segments))
  BY <1>12, <1>15, <1>17 DEF Filling
<1>19. ASSUME NEW s \in segments \ part PROVE s.venue = "solver"
  <2>1. s.of \in Quoted(segments)
    BY <1>16
  <2>2. PICK t \in segments : t.venue = "solver" /\ t.of = s.of
    BY <2>1 DEF Quoted
  <2>3. s.of \in Quotes /\ s.of \notin Orders /\ s.venue \in {"book", "solver"}
    BY <2>2, SignedFields DEF Listed, Segments
  <2>. QED  BY <2>3 DEF Listed
<1>20. part \in SUBSET segments
  BY <1>16
<1>. QED  BY <1>18, <1>19, <1>20

\* Whatever amount of an order is taken, its quote can be settled.
Rounds(taker, s) == \A n \in 1..s.of.base : Materializes(taker, s.price, n)

\* A part of the segments that has all of the book that can be rounded.
KeepsOrders(taker, segments, part) ==
  \A s \in segments \ part : s.venue = "solver" \/ ~ Rounds(taker, s)

(* The fills of a candidate are none, or what an allocation ends with of   *)
(* segments that leave out only what cannot be settled.                    *)
LEMMA FillsEnd ==
  ASSUME NEW taker, taker.base \in Nat, NEW segments, Listed(segments), NEW kind
  PROVE  \/ Fills(kind, taker, segments) = <<>>
         \/ \E part \in SUBSET segments :
               /\ KeepsOrders(taker, segments, part)
               /\ Filling(taker, part, Fills(kind, taker, segments))
<1>. DEFINE D == SUBSET segments
            fillsOf(left) == Attempt(kind, taker, Allocate(taker, left))
            Eq(it) == it = [left \in D |->
                              LET fills == Attempt(kind, taker, Allocate(taker, left))
                              IN  IF Unable(taker, fills) = {} THEN fills
                                  ELSE it[Without(left, fills, Unable(taker, fills))]]
<1>1. PICK stop : stop = {left \in D : Unable(taker, fillsOf(left)) = {}}
  OBVIOUS
<1>2. PICK val : val = [left \in D |-> fillsOf(left)]
  OBVIOUS
<1>3. PICK next : next = [left \in D |-> Without(left, fillsOf(left), Unable(taker, fillsOf(left)))]
  OBVIOUS
<1>4. IsFiniteSet(segments) /\ \A left \in D : Listed(left) /\ IsFiniteSet(left)
  BY ListedPart DEF Listed
<1>5. PICK most \in Nat : most = Cardinality(segments)
  BY <1>4, FS_CardinalityType
<1>6. PICK far : far = [left \in D |-> Cardinality(left)]
  OBVIOUS
<1>7. \A left \in D : fillsOf(left) # <<>> =>
         /\ fillsOf(left) = Allocate(taker, left)
         /\ \E part \in SUBSET left : /\ \A s \in left \ part : s.venue = "solver"
                                      /\ Filling(taker, part, fillsOf(left))
  <2>. SUFFICES ASSUME NEW left \in D, fillsOf(left) # <<>>
                PROVE  /\ fillsOf(left) = Allocate(taker, left)
                       /\ \E part \in SUBSET left : /\ \A s \in left \ part : s.venue = "solver"
                                                    /\ Filling(taker, part, fillsOf(left))
    OBVIOUS
  <2>1. fillsOf(left) = Allocate(taker, left)
    BY DEF Attempt
  <2>2. \E part \in SUBSET left : /\ \A s \in left \ part : s.venue = "solver"
                                  /\ Filling(taker, part, Allocate(taker, left))
    BY <1>4, AllocateEnds
  <2>. QED  BY <2>1, <2>2

\* The fill that cannot be settled, and the segment it drops.
<1>8. ASSUME NEW left \in D \ stop
      PROVE  \E bad \in left : /\ next[left] = {s \in left : ~ Alike(s, bad)}
                               /\ bad.venue = "solver" \/ ~ Rounds(taker, bad)
  <2>1. PICK fills : fills = fillsOf(left)
    OBVIOUS
  <2>2. Unable(taker, fills) # {}
    BY <1>1, <2>1
  <2>3. fillsOf(left) # <<>>
    <3>1. DOMAIN <<>> = {}
      OBVIOUS
    <3>. QED  BY <3>1, <2>1, <2>2 DEF Unable
  <2>4. PICK part \in SUBSET left : Filling(taker, part, fills)
    BY <1>7, <2>1, <2>3
  <2>5. /\ Len(fills) \in Nat /\ DOMAIN fills = 1..Len(fills)
        /\ \A i \in DOMAIN fills :
             fills[i].segment \in part /\ fills[i].amount \in Nat /\ fills[i].amount > 0
    BY <2>4, FillsHaveSegments DEF Filling
  <2>6. PICK unable : unable = Unable(taker, fills)
    OBVIOUS
  <2>7. unable \subseteq Nat /\ unable # {}
    BY <2>2, <2>5, <2>6 DEF Unable
  <2>8. Min(unable) \in unable
    <3>1. \E x \in unable : \A y \in unable : x <= y
      BY <2>7, LeastNatural
    <3>. QED  BY <3>1 DEF Min
  <2>9. PICK i \in unable : i = Min(unable)
    BY <2>8
  <2>10. i \in DOMAIN fills /\ ~ Materializes(taker, fills[i].segment.price, fills[i].amount)
    BY <2>6, <2>9 DEF Unable
  <2>11. PICK bad : bad = fills[i].segment
    OBVIOUS
  <2>12. bad \in left /\ bad \in part
    BY <2>4, <2>5, <2>10, <2>11
  <2>13. next[left] = {s \in left : ~ Alike(s, bad)}
    BY <1>3, <2>1, <2>6, <2>9, <2>11 DEF Without
  <2>14. ASSUME bad.venue # "solver" PROVE ~ Rounds(taker, bad)
    <3>1. bad.venue = "book" /\ bad.of \in Orders /\ bad.available <= bad.of.base /\ bad.available \in Nat
      BY <2>12, <2>14, <1>4 DEF Listed, Segments
    <3>2. PICK line : line = Capped(taker.side, part)
      OBVIOUS
    <3>3. fills[i].segment = line[i] /\ fills[i].amount <= line[i].available
      BY <2>4, <2>10, <3>2 DEF Filling, Allots
    <3>4. bad.of.base \in Nat
      BY <3>1, SignedFields
    <3>5. PICK n \in Nat : n = fills[i].amount /\ n > 0
      BY <2>5, <2>10
    <3>6. n <= bad.available
      BY <2>11, <3>3, <3>5
    <3>7. n \in 1..bad.of.base
      BY <3>1, <3>4, <3>5, <3>6
    <3>. QED  BY <2>10, <2>11, <3>5, <3>7 DEF Rounds
  <2>. QED  BY <2>12, <2>13, <2>14
<1>9. Closer(D, stop, next, far, most)
  <2>1. \A left \in D : Cardinality(left) \in 0..most
    <3>. SUFFICES ASSUME NEW left \in D PROVE Cardinality(left) \in 0..most
      OBVIOUS
    <3>1. Cardinality(left) <= most /\ Cardinality(left) \in Nat
      BY <1>4, <1>5, FS_Subset, FS_CardinalityType
    <3>. QED  BY <3>1
  <2>2. far \in [D -> 0..most]
    BY <1>6, <2>1
  <2>3. ASSUME NEW left \in D \ stop PROVE next[left] \in D /\ far[next[left]] < far[left]
    <3>1. PICK bad \in left : next[left] = {s \in left : ~ Alike(s, bad)}
      BY <1>8
    <3>2. PICK r : r = next[left]
      OBVIOUS
    <3>3. r \in SUBSET left /\ bad \notin r
      BY <3>1, <3>2 DEF Alike
    <3>4. IsFiniteSet(left)
      BY <1>4
    <3>5. Cardinality(r) <= Cardinality(left) /\ Cardinality(r) # Cardinality(left) /\ IsFiniteSet(r)
      BY <3>1, <3>3, <3>4, FS_Subset
    <3>6. Cardinality(r) \in Nat /\ Cardinality(left) \in Nat
      BY <3>4, <3>5, FS_CardinalityType
    <3>7. r \in D /\ far[r] = Cardinality(r) /\ far[left] = Cardinality(left)
      BY <1>6, <3>3
    <3>. QED  BY <3>2, <3>5, <3>6, <3>7
  <2>. HIDE DEF D
  <2>. QED  BY <1>5, <2>2, <2>3 DEF Closer
<1>10. \A it : Eq(it) <=> Search(it, D, stop, val, next)
  <2>. SUFFICES ASSUME NEW it PROVE Eq(it) <=> Search(it, D, stop, val, next)
    OBVIOUS
  <2>. DEFINE one(left) == IF Unable(taker, fillsOf(left)) = {} THEN fillsOf(left)
                           ELSE it[Without(left, fillsOf(left), Unable(taker, fillsOf(left)))]
              two(left) == IF left \in stop THEN val[left] ELSE it[next[left]]
  <2>1. \A left \in D : one(left) = two(left)
    <3>. HIDE DEF D, fillsOf
    <3>. QED  BY <1>1, <1>2, <1>3
  <2>2. Eq(it) <=> it = [left \in D |-> one(left)]
    OBVIOUS
  <2>3. Search(it, D, stop, val, next) <=> it = [left \in D |-> two(left)]
    BY DEF Search
  <2>. HIDE DEF D, one, two, Eq
  <2>4. [left \in D |-> one(left)] = [left \in D |-> two(left)]
    BY <2>1
  <2>. QED  BY <2>2, <2>3, <2>4
<1>11. PICK it : it = CHOOSE jt : Eq(jt)
  OBVIOUS
<1>12. Fills(kind, taker, segments) = it[segments]
  BY <1>11 DEF Fills
<1>13. Search(it, D, stop, val, next)
  <2>. HIDE DEF D, Eq
  <2>1. \E jt : Search(jt, D, stop, val, next)
    BY <1>9, SearchExists
  <2>2. \E jt : Eq(jt)
    BY <1>10, <2>1
  <2>3. Eq(it)
    BY <1>11, <2>2
  <2>. QED  BY <1>10, <2>3
<1>14. PICK P : P = {left \in D : KeepsOrders(taker, segments, left)}
  OBVIOUS
<1>15. \A left \in P \ stop : next[left] \in P
  <2>. SUFFICES ASSUME NEW left \in P \ stop PROVE next[left] \in P
    OBVIOUS
  <2>1. left \in D \ stop /\ KeepsOrders(taker, segments, left)
    BY <1>14
  <2>2. PICK bad \in left : /\ next[left] = {s \in left : ~ Alike(s, bad)}
                            /\ bad.venue = "solver" \/ ~ Rounds(taker, bad)
    BY <1>8, <2>1
  <2>3. ASSUME NEW s \in segments, s \notin next[left] PROVE s.venue = "solver" \/ ~ Rounds(taker, s)
    <3>1. CASE s \notin left
      BY <2>1, <3>1 DEF KeepsOrders
    <3>2. CASE s \in left
      <4>1. s.venue = bad.venue /\ s.of = bad.of /\ s.price = bad.price
        BY <2>2, <2>3, <3>2 DEF Alike
      <4>. QED  BY <2>2, <4>1 DEF Rounds
    <3>. QED  BY <3>1, <3>2
  <2>4. next[left] \in D
    BY <2>1, <2>2
  <2>. QED  BY <1>14, <2>3, <2>4 DEF KeepsOrders
<1>16. PICK z \in P \cap stop : it[segments] = val[z]
  <2>1. segments \in P /\ P \in SUBSET D
    BY <1>14 DEF KeepsOrders
  <2>. HIDE DEF D
  <2>. QED  BY <1>9, <1>13, <1>15, <2>1, SearchEnds
<1>17. z \in D /\ KeepsOrders(taker, segments, z) /\ Fills(kind, taker, segments) = fillsOf(z)
  BY <1>1, <1>2, <1>12, <1>14, <1>16
<1>18. CASE fillsOf(z) # <<>>
  <2>1. PICK part \in SUBSET z : /\ \A s \in z \ part : s.venue = "solver"
                                 /\ Filling(taker, part, fillsOf(z))
    BY <1>7, <1>17, <1>18
  <2>2. part \in SUBSET segments /\ KeepsOrders(taker, segments, part)
    BY <1>17, <2>1 DEF KeepsOrders
  <2>. HIDE DEF fillsOf
  <2>. QED  BY <1>17, <2>1, <2>2
<1>. QED  BY <1>17, <1>18

-----------------------------------------------------------------------------
(* The segments of a book and of quotes. *)

(* Books and quotes as the matcher keeps them: each entry has a sequence   *)
(* of its own, and something is left of it, at most what was signed.       *)
BookFit(book) ==
  /\ IsFiniteSet(DOMAIN book) /\ DOMAIN book \subseteq Orders
  /\ \A o \in DOMAIN book : book[o].sequence \in Nat /\ book[o].remaining \in 1..o.base
  /\ \A o, p \in DOMAIN book : book[o].sequence = book[p].sequence => o = p

LiveFit(live) ==
  /\ IsFiniteSet(DOMAIN live) /\ DOMAIN live \subseteq Quotes
  /\ \A q \in DOMAIN live :
        live[q].sequence \in Nat /\ live[q].remaining \in 1..q.capacity /\ CurveFits(q)
  /\ \A q, r \in DOMAIN live : live[q].sequence = live[r].sequence => q = r

BookSegment(book, o, available) ==
  [venue |-> "book", of |-> o, sequence |-> book[o].sequence, level |-> 0,
   price |-> o.price, available |-> available, left |-> book[o].remaining]

(* The segments of a book are orders the taker crosses, each with at most  *)
(* what is left of it, and with one of them is every order that comes      *)
(* before it, with all that is left.                                       *)
LEMMA BookSegmentsAre ==
  ASSUME NEW book, BookFit(book), NEW taker \in Orders, NEW t,
         NEW segments, segments = BookSegments(taker, Entries(book), t)
  PROVE  /\ Listed(segments)
         /\ \A s \in segments :
              /\ s.of \in DOMAIN book /\ s = BookSegment(book, s.of, s.available)
              /\ s.available \in Nat /\ s.available <= book[s.of].remaining
              /\ s.of.maker # taker.maker /\ s.of.side # taker.side /\ Crosses(taker, s.of.price)
         /\ \A s \in segments, o \in DOMAIN book :
              /\ o.expiry > t /\ o.tif = "gtc" /\ o.side # taker.side /\ o.maker # taker.maker
              /\ Crosses(taker, o.price)
              /\ \/ Cheaper(taker.side, o.price, s.price)
                 \/ o.price = s.price /\ book[o].sequence < s.sequence
              => BookSegment(book, o, book[o].remaining) \in segments
<1>. DEFINE Crossed(o) == /\ o.expiry > t /\ o.tif = "gtc" /\ o.side # taker.side
                          /\ o.maker # taker.maker /\ Crosses(taker, o.price)
            segment(e) == [venue |-> "book", of |-> e.of, sequence |-> e.sequence, level |-> 0,
                           price |-> e.of.price, available |-> e.remaining, left |-> e.remaining]
<1>1. PICK crossed : crossed = {o \in DOMAIN book : Crossed(o)}
  OBVIOUS
<1>2. PICK whole : whole = [o \in crossed |-> BookSegment(book, o, book[o].remaining)]
  OBVIOUS
<1>3. PICK makers : makers = {whole[o] : o \in crossed}
  OBVIOUS
<1>4. makers = {segment(e) : e \in {r \in Entries(book) : Matchable(taker, r, t)}}
  <2>1. \A o \in DOMAIN book :
          LET e == [of |-> o, sequence |-> book[o].sequence, remaining |-> book[o].remaining]
          IN  /\ e \in Entries(book) /\ (Matchable(taker, e, t) <=> Crossed(o))
              /\ segment(e) = BookSegment(book, o, book[o].remaining)
    BY DEF Entries, Matchable, BookSegment
  <2>2. \A e \in Entries(book) :
          \E o \in DOMAIN book :
            e = [of |-> o, sequence |-> book[o].sequence, remaining |-> book[o].remaining]
    BY DEF Entries
  <2>. HIDE DEF Crossed, segment
  <2>3. ASSUME NEW x \in makers PROVE x \in {segment(e) : e \in {r \in Entries(book) : Matchable(taker, r, t)}}
    BY <2>1, <2>3, <1>1, <1>2, <1>3
  <2>4. ASSUME NEW e \in Entries(book), Matchable(taker, e, t) PROVE segment(e) \in makers
    BY <2>1, <2>2, <2>4, <1>1, <1>2, <1>3
  <2>. QED  BY <2>3, <2>4
<1>5. /\ crossed \subseteq DOMAIN book
      /\ \A o \in crossed :
           /\ o \in Orders /\ o.price \in Nat /\ o.base \in Nat /\ book[o].sequence \in Nat
           /\ book[o].remaining \in Nat /\ book[o].remaining > 0 /\ book[o].remaining <= o.base
  BY <1>1, SignedFields DEF BookFit
<1>6. \A o \in crossed : whole[o] = BookSegment(book, o, book[o].remaining)
  BY <1>2
<1>7. \A o \in crossed :
        /\ whole[o] \in Segments /\ whole[o].venue = "book" /\ whole[o].of = o
        /\ whole[o].sequence = book[o].sequence /\ whole[o].level = 0 /\ whole[o].price = o.price
        /\ whole[o].available = book[o].remaining /\ whole[o].left = book[o].remaining
  <2>. SUFFICES ASSUME NEW o \in crossed
                PROVE  /\ whole[o] \in Segments /\ whole[o].venue = "book" /\ whole[o].of = o
                       /\ whole[o].sequence = book[o].sequence /\ whole[o].level = 0
                       /\ whole[o].price = o.price /\ whole[o].available = book[o].remaining
                       /\ whole[o].left = book[o].remaining
    OBVIOUS
  <2>1. PICK number \in Nat, left \in Nat, price \in Nat :
          number = book[o].sequence /\ left = book[o].remaining /\ price = o.price
    BY <1>5
  <2>2. whole[o] = [venue |-> "book", of |-> o, sequence |-> number, level |-> 0,
                    price |-> price, available |-> left, left |-> left]
    BY <1>6, <2>1 DEF BookSegment
  <2>. QED  BY <1>5, <2>1, <2>2 DEF Segments
<1>8. Listed(makers)
  <2>1. IsFiniteSet(crossed)
    BY <1>5, FS_Subset DEF BookFit
  <2>2. IsFiniteSet(makers)
    BY <1>3, <2>1, ImageIsFinite
  <2>3. makers \subseteq Segments
    BY <1>3, <1>7
  <2>4. ASSUME NEW r \in makers, NEW s \in makers, r.sequence = s.sequence PROVE r = s
    <3>1. PICK o \in crossed, p \in crossed : r = whole[o] /\ s = whole[p]
      BY <1>3
    <3>2. book[o].sequence = book[p].sequence
      BY <1>7, <2>4, <3>1
    <3>. QED  BY <1>5, <3>1, <3>2 DEF BookFit
  <2>5. \A s \in makers : /\ s.available > 0 /\ s.venue = "book"
                          /\ s.of \in Orders /\ s.available <= s.of.base
    BY <1>3, <1>5, <1>7
  <2>. QED  BY <2>2, <2>3, <2>4, <2>5 DEF Listed
<1>9. PICK line : line = Line(taker.side, makers)
  OBVIOUS
<1>10. /\ line \in Seq(makers)
       /\ \A s \in makers : \E i \in DOMAIN line : line[i] = s
       /\ \A i, j \in DOMAIN line : i < j => Before(taker.side, line[i], line[j])
  BY <1>8, <1>9, LineLists
<1>11. PICK plan : plan = Allot(line, taker.base)
  OBVIOUS
<1>12. plan \in FillsOf(makers) /\ Allots(line, taker.base, plan)
  <2>1. taker.base \in Nat
    BY SignedFields
  <2>2. makers \in SUBSET Segments /\ \A s \in makers : s.available > 0
    BY <1>8 DEF Listed
  <2>. QED  BY <1>10, <1>11, <2>1, <2>2, AllotFills
<1>13. segments = {[plan[i].segment EXCEPT !.available = plan[i].amount] : i \in DOMAIN plan}
  BY <1>4, <1>9, <1>11, Zenon DEF BookSegments
<1>14. PICK n \in Nat : n = Len(plan)
  BY <1>12, FillsHaveSegments
<1>15. /\ DOMAIN plan = 1..n
       /\ \A i \in 1..n : /\ plan[i].segment \in makers /\ plan[i].amount \in Nat /\ plan[i].amount > 0
                          /\ plan[i].segment = line[i] /\ plan[i].amount <= line[i].available
       /\ \A i, j \in 1..n : i < j => plan[i].amount = line[i].available
  BY <1>12, <1>14, FillsHaveSegments DEF Allots
<1>16. PICK cut : cut = [i \in 1..n |-> [plan[i].segment EXCEPT !.available = plan[i].amount]]
  OBVIOUS
<1>17. segments = {cut[i] : i \in 1..n}
  BY <1>13, <1>15, <1>16
<1>18. ASSUME NEW i \in 1..n
       PROVE  \E o \in crossed :
                /\ line[i] = whole[o]
                /\ cut[i] = BookSegment(book, o, plan[i].amount)
                /\ plan[i].amount \in Nat /\ plan[i].amount > 0 /\ plan[i].amount <= book[o].remaining
  <2>1. PICK o \in crossed : plan[i].segment = whole[o]
    BY <1>3, <1>15
  <2>2. whole[o] = BookSegment(book, o, book[o].remaining) /\ whole[o].available = book[o].remaining
    BY <1>6, <1>7
  <2>3. PICK amount : amount = plan[i].amount
    OBVIOUS
  <2>4. cut[i] = [whole[o] EXCEPT !.available = amount]
    BY <1>16, <2>1, <2>3
  <2>5. cut[i] = BookSegment(book, o, amount)
    BY <2>2, <2>4 DEF BookSegment
  <2>. QED  BY <1>15, <2>1, <2>2, <2>3, <2>5
<1>19. ASSUME NEW s \in segments
       PROVE  \E i \in 1..n, o \in crossed :
                /\ line[i] = whole[o] /\ s = cut[i] /\ s.of = o /\ s.available = plan[i].amount
                /\ s = BookSegment(book, o, s.available)
                /\ s.available \in Nat /\ s.available > 0 /\ s.available <= book[o].remaining
  <2>1. PICK i \in 1..n : s = cut[i]
    BY <1>17
  <2>2. PICK o \in crossed :
          /\ line[i] = whole[o]
          /\ cut[i] = BookSegment(book, o, plan[i].amount)
          /\ plan[i].amount \in Nat /\ plan[i].amount > 0 /\ plan[i].amount <= book[o].remaining
    BY <1>18
  <2>3. s.of = o /\ s.available = plan[i].amount
    BY <2>1, <2>2 DEF BookSegment
  <2>. QED  BY <2>1, <2>2, <2>3

\* A place in the line is of one segment.
<1>20. \A i, j \in DOMAIN line : line[i] = line[j] => i = j
  <2>. SUFFICES ASSUME NEW i \in DOMAIN line, NEW j \in DOMAIN line, i # j PROVE line[i] # line[j]
    OBVIOUS
  <2>1. /\ line[i] \in Segments /\ line[j] \in Segments
        /\ i \in Int /\ j \in Int /\ (i < j \/ j < i)
    BY <1>8, <1>10 DEF Listed
  <2>2. ~ Before(taker.side, line[i], line[i]) /\ ~ Before(taker.side, line[j], line[j])
    BY <2>1, BeforeOrders
  <2>3. CASE i < j
    <3>1. Before(taker.side, line[i], line[j])
      BY <1>10, <2>3
    <3>. QED  BY <2>2, <3>1
  <2>4. CASE j < i
    <3>1. Before(taker.side, line[j], line[i])
      BY <1>10, <2>4
    <3>. QED  BY <2>2, <3>1
  <2>. QED  BY <2>1, <2>3, <2>4
<1>21. n <= Len(line) /\ Len(line) \in Nat /\ DOMAIN line = 1..Len(line)
  BY <1>10, <1>12, <1>14 DEF Allots
<1>22. Listed(segments)
  <2>1. IsFiniteSet(segments)
    <3>1. IsFiniteSet(1..n)
      BY FS_Interval
    <3>. QED  BY <1>17, <3>1, ImageIsFinite
  <2>2. ASSUME NEW s \in segments
        PROVE  /\ s \in Segments /\ s.available > 0 /\ s.venue = "book"
               /\ s.of \in Orders /\ s.available <= s.of.base
    <3>1. PICK o \in crossed : /\ s.of = o /\ s = BookSegment(book, o, s.available)
                               /\ s.available \in Nat /\ s.available > 0
                               /\ s.available <= book[o].remaining
      BY <1>19
    <3>2. PICK amount \in Nat : amount = s.available
      BY <3>1
    <3>3. s = [venue |-> "book", of |-> o, sequence |-> book[o].sequence, level |-> 0,
               price |-> o.price, available |-> amount, left |-> book[o].remaining]
      BY <3>1, <3>2 DEF BookSegment
    <3>4. s \in Segments /\ s.venue = "book"
      BY <1>5, <3>3 DEF Segments
    <3>. QED  BY <1>5, <3>1, <3>4
  <2>3. ASSUME NEW r \in segments, NEW s \in segments, r.sequence = s.sequence PROVE r = s
    <3>1. PICK i \in 1..n, o \in crossed :
            line[i] = whole[o] /\ r = cut[i] /\ r = BookSegment(book, o, r.available)
      BY <1>19
    <3>2. PICK j \in 1..n, p \in crossed :
            line[j] = whole[p] /\ s = cut[j] /\ s = BookSegment(book, p, s.available)
      BY <1>19
    <3>3. book[o].sequence = book[p].sequence
      <4>1. r.sequence = book[o].sequence /\ s.sequence = book[p].sequence
        BY <3>1, <3>2 DEF BookSegment
      <4>. QED  BY <4>1, <2>3
    <3>4. o = p
      BY <1>5, <3>3 DEF BookFit
    <3>5. i = j
      BY <1>20, <1>21, <3>1, <3>2, <3>4
    <3>. QED  BY <3>1, <3>2, <3>5
  <2>4. segments \subseteq Segments
    BY <2>2
  <2>. QED  BY <2>1, <2>2, <2>3, <2>4 DEF Listed
<1>23. ASSUME NEW s \in segments
       PROVE  /\ s.of \in DOMAIN book /\ s = BookSegment(book, s.of, s.available)
              /\ s.available \in Nat /\ s.available <= book[s.of].remaining
              /\ s.of.maker # taker.maker /\ s.of.side # taker.side /\ Crosses(taker, s.of.price)
  <2>1. PICK o \in crossed : /\ s.of = o /\ s = BookSegment(book, o, s.available)
                             /\ s.available \in Nat /\ s.available <= book[o].remaining
    BY <1>19
  <2>. QED  BY <1>1, <2>1
<1>24. ASSUME NEW s \in segments, NEW o \in DOMAIN book, Crossed(o),
              \/ Cheaper(taker.side, o.price, s.price)
              \/ o.price = s.price /\ book[o].sequence < s.sequence
       PROVE  BookSegment(book, o, book[o].remaining) \in segments
  <2>1. PICK i \in 1..n, p \in crossed : line[i] = whole[p] /\ s = BookSegment(book, p, s.available)
    BY <1>19
  <2>2. o \in crossed
    BY <1>1, <1>24
  <2>3. s.price = p.price /\ s.sequence = book[p].sequence
    BY <2>1 DEF BookSegment
  <2>4. Before(taker.side, whole[o], line[i])
    BY <1>7, <1>24, <2>1, <2>2, <2>3 DEF Before
  <2>5. PICK j \in DOMAIN line : line[j] = whole[o]
    BY <1>3, <1>10, <2>2
  <2>6. i \in DOMAIN line /\ i \in Int /\ j \in Int
    BY <1>21
  <2>7. j < i
    <3>1. line[i] \in Segments /\ line[j] \in Segments
      BY <1>7, <2>1, <2>2, <2>5
    <3>2. /\ ~ Before(taker.side, line[j], line[j])
          /\ Before(taker.side, line[j], line[i]) /\ Before(taker.side, line[i], line[j]) =>
               Before(taker.side, line[j], line[j])
      BY <3>1, BeforeOrders
    <3>3. ~ Before(taker.side, line[i], line[j]) /\ line[i] # line[j]
      BY <2>4, <2>5, <3>2
    <3>. QED  BY <1>10, <2>6, <3>3
  <2>8. j \in 1..n /\ plan[j].amount = line[j].available
    <3>1. j \in 1..n
      BY <1>21, <2>7
    <3>. QED  BY <1>15, <2>7, <3>1
  <2>9. plan[j].segment = whole[o] /\ plan[j].amount = book[o].remaining
    BY <1>7, <1>15, <2>2, <2>5, <2>8
  <2>10. cut[j] = [whole[o] EXCEPT !.available = book[o].remaining]
    BY <1>16, <2>8, <2>9
  <2>11. cut[j] = BookSegment(book, o, book[o].remaining)
    BY <1>6, <2>2, <2>10 DEF BookSegment
  <2>. QED  BY <1>17, <2>8, <2>11
<1>. QED  BY <1>22, <1>23, <1>24

LEMMA LevelsAre ==
  ASSUME NEW q \in Quotes
  PROVE  /\ DOMAIN q.levels = 1..Len(q.levels) /\ Len(q.levels) \in Nat
         /\ IsFiniteSet(DOMAIN q.levels)
         /\ \A k \in DOMAIN q.levels :
               k \in Nat /\ q.levels[k].cumulative \in Nat /\ q.levels[k].price \in Nat
<1>1. PICK levels, L : levels = q.levels /\ L = [cumulative : Nat, price : Nat]
  OBVIOUS
<1>2. levels \in Seq(L)
  BY <1>1, SignedFields
<1>3. PICK n \in Nat : n = Len(levels) /\ DOMAIN levels = 1..n
  BY <1>2
<1>4. \A k \in 1..n : levels[k] \in L
  BY <1>2, <1>3
<1>5. \A k \in 1..n : k \in Nat /\ levels[k].cumulative \in Nat /\ levels[k].price \in Nat
  BY <1>1, <1>4
<1>6. IsFiniteSet(1..n)
  BY FS_Interval
<1>. QED  BY <1>1, <1>3, <1>5, <1>6

(* What is left of the levels of a quote is what is left of the quote.     *)
LEMMA LevelsLeave ==
  ASSUME NEW q \in Quotes, CurveFits(q), NEW entry, entry.of = q, NEW left \in 1..q.capacity,
         entry.remaining = left, NEW f, \A k \in DOMAIN q.levels : f[k] = LevelLeft(entry, k)
  PROVE  /\ \A k \in DOMAIN q.levels : f[k] \in Nat
         /\ SumOver(f, DOMAIN q.levels) = left
<1>1. /\ q.capacity \in Nat /\ q.levels \in Seq([cumulative : Nat, price : Nat])
      /\ q.levels # <<>> /\ q.levels[Len(q.levels)].cumulative = q.capacity
      /\ \A j, k \in DOMAIN q.levels : j < k => q.levels[j].cumulative < q.levels[k].cumulative
  BY SignedFields DEF CurveFits, Last
<1>2. PICK n \in Nat : n = Len(q.levels) /\ n > 0 /\ DOMAIN q.levels = 1..n
  BY <1>1
<1>3. \A k \in 1..n : q.levels[k].cumulative \in Nat
  BY <1>2, LevelsAre
<1>4. PICK consumed \in Nat : consumed = q.capacity - left /\ consumed <= q.capacity
  <2>1. PICK capacity \in Nat : capacity = q.capacity /\ left \in 1..capacity
    BY <1>1
  <2>2. capacity - left \in Nat /\ capacity - left <= capacity
    BY <2>1
  <2>. QED  BY <2>1, <2>2
<1>5. PICK upto : upto = [k \in 0..n |-> IF k = 0 THEN 0 ELSE q.levels[k].cumulative]
  OBVIOUS
<1>6. upto[0] = 0 /\ upto[n] = q.capacity
  BY <1>1, <1>2, <1>5
<1>7. \A k \in 1..n : upto[k] = q.levels[k].cumulative /\ upto[k] \in Nat
  BY <1>3, <1>5
<1>8. \A k \in 1..n : /\ k - 1 \in 0..n /\ upto[k - 1] \in Nat /\ upto[k - 1] <= upto[k]
                      /\ upto[k - 1] = IF k = 1 THEN 0 ELSE q.levels[k - 1].cumulative
  <2>. SUFFICES ASSUME NEW k \in 1..n
                PROVE  /\ k - 1 \in 0..n /\ upto[k - 1] \in Nat /\ upto[k - 1] <= upto[k]
                       /\ upto[k - 1] = IF k = 1 THEN 0 ELSE q.levels[k - 1].cumulative
    OBVIOUS
  <2>1. CASE k = 1
    <3>1. k - 1 = 0
      BY <2>1
    <3>. QED  BY <2>1, <3>1, <1>6, <1>7
  <2>2. CASE k # 1
    <3>1. k - 1 \in 1..n /\ k - 1 < k
      BY <2>2
    <3>2. upto[k - 1] = q.levels[k - 1].cumulative /\ upto[k - 1] \in Nat
      BY <1>7, <3>1
    <3>3. q.levels[k - 1].cumulative < q.levels[k].cumulative
      BY <1>1, <1>2, <3>1
    <3>. QED  BY <2>2, <3>1, <3>2, <3>3, <1>7
  <2>. QED  BY <2>1, <2>2
<1>9. PICK at : at = [k \in 0..n |-> IF upto[k] > consumed THEN upto[k] ELSE consumed]
  OBVIOUS
<1>10. ASSUME NEW k \in 1..n
       PROVE  /\ f[k] = at[k] - at[k - 1] /\ f[k] \in Nat
  <2>1. PICK prior \in Nat, c \in Nat : prior = upto[k - 1] /\ c = upto[k] /\ prior <= c
    BY <1>7, <1>8
  <2>2. /\ prior = (IF k = 1 THEN 0 ELSE q.levels[k - 1].cumulative)
        /\ c = q.levels[k].cumulative
    BY <1>7, <1>8, <2>1
  <2>3. f[k] = IF consumed > prior THEN (c - prior) - Least(consumed - prior, c - prior) ELSE c - prior
    <3>1. entry.of.capacity - entry.remaining = consumed /\ entry.of.levels = q.levels
      BY <1>4
    <3>. QED  BY <1>2, <2>2, <3>1 DEF LevelLeft
  <2>4. k \in 0..n /\ k - 1 \in 0..n
    BY <1>8
  <2>5. /\ at[k] = (IF c > consumed THEN c ELSE consumed)
        /\ at[k - 1] = (IF prior > consumed THEN prior ELSE consumed)
    BY <1>9, <2>1, <2>4
  <2>. QED  BY <2>1, <2>3, <2>5 DEF Least
<1>11. at \in [0..n -> Int] /\ at[0] = consumed /\ at[n] = q.capacity
  <2>1. \A k \in 0..n : upto[k] \in Nat
    BY <1>6, <1>7
  <2>2. at[0] = consumed
    BY <1>6, <1>9
  <2>3. at[n] = q.capacity
    <3>1. n \in 0..n
      OBVIOUS
    <3>2. at[n] = IF q.capacity > consumed THEN q.capacity ELSE consumed
      BY <1>6, <1>9, <3>1
    <3>. QED  BY <1>1, <1>4, <3>2
  <2>. QED  BY <1>9, <2>1, <2>2, <2>3
<1>12. SumOver(f, 1..n) = at[n] - at[0]
  BY <1>10, <1>11, SumTelescopes
<1>. QED  BY <1>1, <1>2, <1>4, <1>10, <1>11, <1>12

EntryOf(live, q) == [of |-> q, sequence |-> live[q].sequence, remaining |-> live[q].remaining]

SolverSegment(live, q, k) ==
  [venue |-> "solver", of |-> q, sequence |-> live[q].sequence, level |-> k,
   price |-> q.levels[k].price, available |-> LevelLeft(EntryOf(live, q), k),
   left |-> live[q].remaining]

(* The segments of quotes are levels the taker crosses, and those of one   *)
(* quote give no more together than is left of it.                         *)
LEMMA SolverSegmentsAre ==
  ASSUME NEW live, LiveFit(live), NEW taker \in Orders, NEW t,
         NEW segments, segments = SolverSegments(taker, Entries(live), t)
  PROVE  /\ Listed(segments)
         /\ \A s \in segments :
              /\ s.venue = "solver" /\ s.of \in DOMAIN live /\ s.left = live[s.of].remaining
              /\ s.of.maker # taker.maker /\ s.of.side # taker.side /\ Crosses(taker, s.price)
              /\ \E level \in Range(s.of.levels) : s.price = level.price
         /\ \A q \in DOMAIN live : Room(segments, q) <= live[q].remaining
<1>. DEFINE segment(e, k) ==
              [venue |-> "solver", of |-> e.of, sequence |-> e.sequence, level |-> k,
               price |-> e.of.levels[k].price, available |-> LevelLeft(e, k), left |-> e.remaining]
            matching == {e \in Entries(live) : /\ e.of.expiry > t
                                               /\ e.of.side # taker.side
                                               /\ e.of.maker # taker.maker}
            all == UNION {{segment(e, k) : k \in DOMAIN e.of.levels} : e \in matching}
<1>1. segments = {s \in all : s.available > 0 /\ Crosses(taker, s.price)}
  BY DEF SolverSegments
<1>2. ASSUME NEW s \in all
      PROVE  \E q \in DOMAIN live : \E k \in DOMAIN q.levels :
               s = SolverSegment(live, q, k) /\ q.side # taker.side /\ q.maker # taker.maker
  <2>1. PICK e \in matching : s \in {segment(e, k) : k \in DOMAIN e.of.levels}
    OBVIOUS
  <2>2. PICK k \in DOMAIN e.of.levels : s = segment(e, k)
    BY <2>1
  <2>3. PICK q \in DOMAIN live : e = EntryOf(live, q)
    BY DEF Entries, EntryOf
  <2>4. e.of = q /\ e.sequence = live[q].sequence /\ e.remaining = live[q].remaining
    BY <2>3 DEF EntryOf
  <2>5. s = SolverSegment(live, q, k)
    BY <2>2, <2>3, <2>4 DEF SolverSegment
  <2>. QED  BY <2>1, <2>2, <2>4, <2>5
<1>3. IsFiniteSet(all)
  <2>1. IsFiniteSet(DOMAIN live)
    BY DEF LiveFit
  <2>2. PICK entry : entry = [q \in DOMAIN live |-> EntryOf(live, q)]
    OBVIOUS
  <2>3. Entries(live) = {entry[q] : q \in DOMAIN live}
    BY <2>2 DEF Entries, EntryOf
  <2>4. IsFiniteSet(matching)
    <3>1. IsFiniteSet(Entries(live)) /\ matching \in SUBSET Entries(live)
      BY <2>1, <2>3, ImageIsFinite
    <3>. HIDE DEF matching
    <3>. QED  BY <3>1, FS_Subset
  <2>5. PICK levels : levels = [e \in matching |-> {segment(e, k) : k \in DOMAIN e.of.levels}]
    OBVIOUS
  <2>6. PICK sets : sets = {levels[e] : e \in matching}
    OBVIOUS
  <2>7. IsFiniteSet(sets)
    BY <2>4, <2>6, ImageIsFinite
  <2>8. ASSUME NEW T \in sets PROVE IsFiniteSet(T)
    <3>1. PICK e \in matching : T = levels[e]
      BY <2>6
    <3>2. PICK q \in DOMAIN live : e = EntryOf(live, q)
      BY DEF Entries, EntryOf
    <3>3. e.of = q /\ q \in Quotes
      BY <3>2 DEF EntryOf, LiveFit
    <3>4. q.levels \in Seq([cumulative : Nat, price : Nat])
      BY <3>3, SignedFields
    <3>5. PICK n \in Nat : DOMAIN e.of.levels = 1..n
      BY <3>3, <3>4
    <3>6. PICK g : g = [k \in 1..n |-> segment(e, k)]
      OBVIOUS
    <3>7. T = {segment(e, k) : k \in 1..n}
      BY <2>5, <3>1, <3>5
    <3>8. T = {g[k] : k \in 1..n}
      <4>. HIDE DEF segment
      <4>. QED  BY <3>6, <3>7
    <3>9. IsFiniteSet(1..n)
      BY FS_Interval
    <3>. QED  BY <3>8, <3>9, ImageIsFinite
  <2>9. IsFiniteSet(UNION sets)
    BY <2>7, <2>8, FS_UNION
  <2>10. UNION sets = all
    <3>. HIDE DEF segment, matching
    <3>. QED  BY <2>5, <2>6
  <2>. QED  BY <2>9, <2>10
<1>. HIDE DEF all, matching, segment
<1>4. ASSUME NEW q \in DOMAIN live
      PROVE  /\ q \in Quotes /\ CurveFits(q) /\ q.levels \in Seq([cumulative : Nat, price : Nat])
             /\ live[q].sequence \in Nat /\ live[q].remaining \in 1..q.capacity
             /\ live[q].remaining \in Nat /\ IsFiniteSet(DOMAIN q.levels)
             /\ \A k \in DOMAIN q.levels : /\ k \in Nat /\ q.levels[k].price \in Nat
                                           /\ LevelLeft(EntryOf(live, q), k) \in Nat
  <2>1. /\ q \in Quotes /\ CurveFits(q) /\ live[q].sequence \in Nat
        /\ live[q].remaining \in 1..q.capacity
    BY DEF LiveFit
  <2>2. q.levels \in Seq([cumulative : Nat, price : Nat]) /\ q.capacity \in Nat
    BY <2>1, SignedFields
  <2>3. PICK f : f = [k \in DOMAIN q.levels |-> LevelLeft(EntryOf(live, q), k)]
    OBVIOUS
  <2>4. EntryOf(live, q).of = q /\ EntryOf(live, q).remaining = live[q].remaining
    BY DEF EntryOf
  <2>5. \A k \in DOMAIN q.levels : f[k] \in Nat
    BY <2>1, <2>3, <2>4, LevelsLeave
  <2>6. \A k \in DOMAIN q.levels : k \in Nat /\ q.levels[k].price \in Nat
    BY <2>1, LevelsAre
  <2>7. IsFiniteSet(DOMAIN q.levels)
    BY <2>1, LevelsAre
  <2>8. \A k \in DOMAIN q.levels : LevelLeft(EntryOf(live, q), k) \in Nat
    BY <2>3, <2>5
  <2>9. live[q].remaining \in Nat
    BY <2>1, <2>2
  <2>. QED  BY <2>1, <2>2, <2>6, <2>7, <2>8, <2>9
<1>5. ASSUME NEW s \in segments
      PROVE  \E q \in DOMAIN live : \E k \in DOMAIN q.levels :
               /\ s = SolverSegment(live, q, k) /\ q.side # taker.side /\ q.maker # taker.maker
               /\ s.venue = "solver" /\ s.of = q /\ s.sequence = live[q].sequence /\ s.level = k
               /\ s.price = q.levels[k].price /\ s.left = live[q].remaining
               /\ s.available = LevelLeft(EntryOf(live, q), k)
               /\ s \in Segments /\ s.available > 0 /\ Crosses(taker, s.price)
  <2>1. s \in all /\ s.available > 0 /\ Crosses(taker, s.price)
    BY <1>1
  <2>2a. PICK q \in DOMAIN live : \E k \in DOMAIN q.levels :
          s = SolverSegment(live, q, k) /\ q.side # taker.side /\ q.maker # taker.maker
    BY <1>2, <2>1
  <2>2. PICK k \in DOMAIN q.levels :
          s = SolverSegment(live, q, k) /\ q.side # taker.side /\ q.maker # taker.maker
    BY <2>2a
  <2>3. PICK number \in Nat, left \in Nat, price \in Nat, available \in Nat :
          /\ number = live[q].sequence /\ left = live[q].remaining /\ price = q.levels[k].price
          /\ available = LevelLeft(EntryOf(live, q), k)
    BY <1>4
  <2>4. s = [venue |-> "solver", of |-> q, sequence |-> number, level |-> k,
             price |-> price, available |-> available, left |-> left]
    BY <2>2, <2>3 DEF SolverSegment
  <2>5. q \in Quotes /\ k \in Nat
    BY <1>4
  <2>6. s \in Segments
    BY <2>3, <2>4, <2>5 DEF Segments
  <2>7. /\ s.venue = "solver" /\ s.of = q /\ s.sequence = live[q].sequence /\ s.level = k
        /\ s.price = q.levels[k].price /\ s.left = live[q].remaining
        /\ s.available = LevelLeft(EntryOf(live, q), k)
    BY <2>3, <2>4
  <2>. QED  BY <2>1, <2>2, <2>6, <2>7
<1>6. Listed(segments)
  <2>1. IsFiniteSet(segments)
    <3>1. segments \in SUBSET all
      BY <1>1
    <3>. QED  BY <1>3, <3>1, FS_Subset
  <2>2. ASSUME NEW r \in segments, NEW s \in segments, r.sequence = s.sequence, r.level = s.level
        PROVE  r = s
    <3>1a. PICK q \in DOMAIN live : \E k \in DOMAIN q.levels :
            r = SolverSegment(live, q, k) /\ r.sequence = live[q].sequence /\ r.level = k
      BY <1>5
    <3>1. PICK k \in DOMAIN q.levels :
            r = SolverSegment(live, q, k) /\ r.sequence = live[q].sequence /\ r.level = k
      BY <3>1a
    <3>2a. PICK p \in DOMAIN live : \E j \in DOMAIN p.levels :
            s = SolverSegment(live, p, j) /\ s.sequence = live[p].sequence /\ s.level = j
      BY <1>5
    <3>2. PICK j \in DOMAIN p.levels :
            s = SolverSegment(live, p, j) /\ s.sequence = live[p].sequence /\ s.level = j
      BY <3>2a
    <3>3. q = p /\ k = j
      BY <2>2, <3>1, <3>2 DEF LiveFit
    <3>. QED  BY <3>1, <3>2, <3>3
  <2>3. \A s \in segments : s \in Segments /\ s.available > 0 /\ s.venue = "solver" /\ s.of \in Quotes
    BY <1>4, <1>5
  <2>4. segments \subseteq Segments
    BY <2>3
  <2>. QED  BY <2>1, <2>2, <2>3, <2>4 DEF Listed
<1>7. ASSUME NEW s \in segments
      PROVE  /\ s.venue = "solver" /\ s.of \in DOMAIN live /\ s.left = live[s.of].remaining
             /\ s.of.maker # taker.maker /\ s.of.side # taker.side /\ Crosses(taker, s.price)
             /\ \E level \in Range(s.of.levels) : s.price = level.price
  <2>1a. PICK q \in DOMAIN live : \E k \in DOMAIN q.levels :
          /\ q.side # taker.side /\ q.maker # taker.maker
          /\ s.venue = "solver" /\ s.of = q /\ s.left = live[q].remaining
          /\ s.price = q.levels[k].price /\ Crosses(taker, s.price)
    BY <1>5
  <2>1. PICK k \in DOMAIN q.levels :
          /\ q.side # taker.side /\ q.maker # taker.maker
          /\ s.venue = "solver" /\ s.of = q /\ s.left = live[q].remaining
          /\ s.price = q.levels[k].price /\ Crosses(taker, s.price)
    BY <2>1a
  <2>2. q.levels[k] \in Range(q.levels)
    BY DEF Range
  <2>. QED  BY <2>1, <2>2
<1>8. ASSUME NEW q \in DOMAIN live PROVE Room(segments, q) <= live[q].remaining
  <2>1. PICK T : T = {s \in segments : s.of = q}
    OBVIOUS
  <2>2. PICK K : K = DOMAIN q.levels /\ IsFiniteSet(K)
    BY <1>4
  <2>3. PICK left : left = [k \in K |-> LevelLeft(EntryOf(live, q), k)]
    OBVIOUS
  <2>4. PICK room : room = [s \in segments |-> s.available]
    OBVIOUS
  <2>5. \A s \in T : /\ s.level \in K /\ s = SolverSegment(live, q, s.level)
                     /\ room[s] = left[s.level]
    <3>. SUFFICES ASSUME NEW s \in T
                  PROVE  /\ s.level \in K /\ s = SolverSegment(live, q, s.level)
                         /\ room[s] = left[s.level]
      OBVIOUS
    <3>1. s \in segments /\ s.of = q
      BY <2>1
    <3>2a. PICK p \in DOMAIN live : \E k \in DOMAIN p.levels :
            /\ s = SolverSegment(live, p, k) /\ s.of = p /\ s.level = k
            /\ s.available = LevelLeft(EntryOf(live, p), k)
      BY <1>5, <3>1
    <3>2. PICK k \in DOMAIN p.levels :
            /\ s = SolverSegment(live, p, k) /\ s.of = p /\ s.level = k
            /\ s.available = LevelLeft(EntryOf(live, p), k)
      BY <3>2a
    <3>. QED  BY <2>2, <2>3, <2>4, <3>1, <3>2
  <2>6. /\ \A k \in K : left[k] = LevelLeft(EntryOf(live, q), k) /\ left[k] \in Nat
        /\ SumOver(left, K) = live[q].remaining
    <3>1. EntryOf(live, q).of = q /\ EntryOf(live, q).remaining = live[q].remaining
      BY DEF EntryOf
    <3>2. \A k \in DOMAIN q.levels : left[k] = LevelLeft(EntryOf(live, q), k)
      BY <2>2, <2>3
    <3>3. SumOver(left, DOMAIN q.levels) = live[q].remaining
      BY <1>4, <3>1, <3>2, LevelsLeave
    <3>. QED  BY <1>4, <2>2, <3>2, <3>3
  <2>7. PICK h : h = [s \in T |-> s.level]
    OBVIOUS
  <2>8. PICK g : g = [k \in K |-> IF \E s \in T : s.level = k THEN left[k] ELSE 0]
    OBVIOUS
  <2>9. /\ h \in [T -> K] /\ \A r, s \in T : h[r] = h[s] => r = s
        /\ \A s \in T : h[s] = s.level
    BY <2>5, <2>7
  <2>10. \A s \in T : room[s] \in Int /\ room[s] = g[h[s]]
    BY <2>5, <2>6, <2>8, <2>9
  <2>11. \A k \in K : (\A s \in T : h[s] # k) => g[k] = 0
    BY <2>8, <2>9
  <2>12. IsFiniteSet(T)
    <3>1. T \in SUBSET segments /\ IsFiniteSet(segments)
      BY <1>6, <2>1 DEF Listed
    <3>. QED  BY <3>1, FS_Subset
  <2>13. SumOver(room, T) = SumOver(g, K)
    BY <2>2, <2>9, <2>10, <2>11, <2>12, SumReindexed
  <2>14. \A k \in K : g[k] \in Int /\ left[k] \in Int /\ g[k] <= left[k]
    BY <2>6, <2>8
  <2>15. SumOver(g, K) <= SumOver(left, K)
    BY <2>2, <2>14, SumMonotone
  <2>16. Room(segments, q) = SumOver(room, T)
    BY <2>1, <2>4 DEF Room
  <2>. QED  BY <2>6, <2>13, <2>15, <2>16
<1>. QED  BY <1>6, <1>7, <1>8

-----------------------------------------------------------------------------
(* What a taker is offered. *)

Rest(book, live) ==
  [x \in DOMAIN book \cup DOMAIN live |->
     IF x \in DOMAIN book THEN book[x].remaining ELSE live[x].remaining]

(* Every segment is of an order or a quote that is left, of another maker, *)
(* on the other side, at a price of its own that the taker crosses; and    *)
(* none is offered beyond what is left of it.                              *)
OfferedBy(taker, s, rest) ==
  /\ s.of \in DOMAIN rest /\ s.left = rest[s.of]
  /\ s.of.maker # taker.maker /\ s.of.side # taker.side /\ Crosses(taker, s.price)
  /\ s.of \in Orders => s.price = s.of.price
  /\ s.of \in Quotes => \E level \in Range(s.of.levels) : s.price = level.price

Offered(taker, segments, rest) ==
  /\ Listed(segments)
  /\ \A s \in segments : OfferedBy(taker, s, rest)
  /\ \A x \in DOMAIN rest : Room(segments, x) <= rest[x]

LEMMA OfferedTogether ==
  ASSUME NEW taker, NEW rest, NEW one, NEW two, NEW all, all = one \cup two,
         Offered(taker, one, rest), \A s \in one : s.venue = "book",
         Offered(taker, two, rest), \A s \in two : s.venue = "solver"
  PROVE  Offered(taker, all, rest)
<1>1. Listed(one) /\ Listed(two)
  BY DEF Offered
<1>2. IsFiniteSet(all)
  BY <1>1, FS_Union DEF Listed
<1>3. \A s \in one : s.of \in Orders /\ s.of \notin Quotes
  BY <1>1, SignedFields DEF Listed
<1>4. \A s \in two : s.of \in Quotes /\ s.of \notin Orders
  BY <1>1, SignedFields DEF Listed
<1>5. Listed(all)
  <2>1. all \subseteq Segments
    BY <1>1 DEF Listed
  <2>2. ASSUME NEW s \in all, NEW u \in all, s.venue = u.venue, s.sequence = u.sequence, s.level = u.level
        PROVE  s = u
    <3>1. (s \in one /\ u \in one) \/ (s \in two /\ u \in two)
      BY <2>2
    <3>. QED  BY <2>2, <3>1, <1>1 DEF Listed
  <2>3. \A s \in all : /\ s.available > 0
                       /\ s.venue = "book" => s.of \in Orders /\ s.available <= s.of.base
                       /\ s.venue = "solver" => s.of \in Quotes
    BY <1>1 DEF Listed
  <2>. QED  BY <1>2, <2>1, <2>2, <2>3 DEF Listed
<1>6. \A s \in all : OfferedBy(taker, s, rest)
  BY DEF Offered
<1>7. ASSUME NEW x \in DOMAIN rest PROVE Room(all, x) <= rest[x]
  <2>1. PICK f, g, h : /\ f = [s \in all |-> s.available] /\ g = [s \in one |-> s.available]
                       /\ h = [s \in two |-> s.available]
    OBVIOUS
  <2>2. PICK S : S = {s \in all : s.of = x}
    OBVIOUS
  <2>3. Room(all, x) = SumOver(f, S)
    BY <2>1, <2>2 DEF Room
  <2>4. S \in SUBSET all /\ IsFiniteSet(S)
    BY <1>2, <2>2, FS_Subset
  <2>5. CASE x \in Orders
    <3>1. S = {s \in one : s.of = x}
      BY <1>4, <2>2, <2>5
    <3>2. \A s \in S : f[s] = g[s]
      BY <2>1, <3>1
    <3>3. SumOver(f, S) = SumOver(g, S)
      BY <2>4, <3>2, SumEqual
    <3>4. Room(one, x) = SumOver(g, S)
      BY <2>1, <3>1 DEF Room
    <3>5. Room(one, x) <= rest[x]
      BY DEF Offered
    <3>. QED  BY <2>3, <3>3, <3>4, <3>5
  <2>6. CASE x \notin Orders
    <3>1. S = {s \in two : s.of = x}
      BY <1>3, <2>2, <2>6
    <3>2. \A s \in S : f[s] = h[s]
      BY <2>1, <3>1
    <3>3. SumOver(f, S) = SumOver(h, S)
      BY <2>4, <3>2, SumEqual
    <3>4. Room(two, x) = SumOver(h, S)
      BY <2>1, <3>1 DEF Room
    <3>5. Room(two, x) <= rest[x]
      BY DEF Offered
    <3>. QED  BY <2>3, <3>3, <3>4, <3>5
  <2>. QED  BY <2>5, <2>6
<1>. QED  BY <1>5, <1>6, <1>7 DEF Offered

LEMMA SegmentsOffered ==
  ASSUME NEW book, BookFit(book), NEW live, LiveFit(live), NEW taker \in Orders, NEW t,
         NEW rest, rest = Rest(book, live),
         NEW makers, makers = BookSegments(taker, Entries(book), t),
         NEW solvers, solvers = SolverSegments(taker, Entries(live), t)
  PROVE  /\ Offered(taker, {}, rest) /\ Offered(taker, makers, rest)
         /\ Offered(taker, solvers, rest) /\ Offered(taker, makers \cup solvers, rest)
         /\ \A s \in makers : s.venue = "book"
         /\ \A s \in solvers : s.venue = "solver"
<1>1. /\ DOMAIN rest = DOMAIN book \cup DOMAIN live
      /\ \A x \in DOMAIN book : rest[x] = book[x].remaining /\ x \in Orders /\ rest[x] \in Nat
      /\ \A x \in DOMAIN live : rest[x] = live[x].remaining /\ x \in Quotes /\ rest[x] \in Nat
  <2>1. DOMAIN rest = DOMAIN book \cup DOMAIN live
    BY DEF Rest
  <2>2. \A x \in DOMAIN book : /\ rest[x] = book[x].remaining /\ x \in Orders
                               /\ book[x].remaining \in 1..x.base /\ x.base \in Nat
    BY SignedFields DEF Rest, BookFit
  <2>3. \A x \in DOMAIN live : /\ rest[x] = live[x].remaining /\ x \in Quotes
                               /\ live[x].remaining \in 1..x.capacity /\ x.capacity \in Nat
    <3>1. \A x \in DOMAIN live : x \in Quotes /\ x \notin Orders
      BY SignedFields DEF LiveFit
    <3>2. \A x \in DOMAIN live : x \notin DOMAIN book
      BY <3>1, <2>2
    <3>3. \A x \in DOMAIN live : rest[x] = live[x].remaining
      BY <3>2 DEF Rest
    <3>. QED  BY <3>1, <3>3, SignedFields DEF LiveFit
  <2>. QED  BY <2>1, <2>2, <2>3
<1>2. Orders \cap Quotes = {}
  BY SignedFields
<1>3. \A segments, x : {s \in segments : s.of = x} = {} => Room(segments, x) = 0
  BY SumEmpty DEF Room
<1>4. Offered(taker, {}, rest)
  <2>1. Listed({})
    BY FS_EmptySet DEF Listed
  <2>2. \A x \in DOMAIN rest : Room({}, x) <= rest[x]
    BY <1>1, <1>3
  <2>. QED  BY <2>1, <2>2 DEF Offered
<1>5. /\ Listed(makers)
      /\ \A s \in makers :
           /\ s.of \in DOMAIN book /\ s = BookSegment(book, s.of, s.available)
           /\ s.available \in Nat /\ s.available <= book[s.of].remaining
           /\ s.of.maker # taker.maker /\ s.of.side # taker.side /\ Crosses(taker, s.of.price)
  BY BookSegmentsAre
<1>6. ASSUME NEW s \in makers
      PROVE  /\ s.venue = "book" /\ s.sequence = book[s.of].sequence /\ s.level = 0
             /\ s.price = s.of.price /\ s.left = book[s.of].remaining
  <2>1. PICK of, number, price, available, left :
          of = s.of /\ number = book[s.of].sequence /\ price = s.of.price /\ available = s.available
          /\ left = book[s.of].remaining
    OBVIOUS
  <2>2. s = [venue |-> "book", of |-> of, sequence |-> number, level |-> 0,
             price |-> price, available |-> available, left |-> left]
    BY <1>5, <2>1 DEF BookSegment
  <2>. QED  BY <2>1, <2>2
<1>7. Offered(taker, makers, rest)
  <2>1. ASSUME NEW s \in makers PROVE OfferedBy(taker, s, rest)
    <3>1. s.of \in DOMAIN rest /\ s.left = rest[s.of] /\ s.of \in Orders /\ s.of \notin Quotes
      BY <1>1, <1>2, <1>5, <1>6
    <3>. QED  BY <3>1, <1>5, <1>6 DEF OfferedBy
  <2>2. ASSUME NEW x \in DOMAIN rest PROVE Room(makers, x) <= rest[x]
    <3>1. PICK f, S : f = [s \in makers |-> s.available] /\ S = {s \in makers : s.of = x}
      OBVIOUS
    <3>2. Room(makers, x) = SumOver(f, S)
      BY <3>1 DEF Room
    <3>3. CASE S = {}
      BY <1>1, <3>2, <3>3, SumEmpty
    <3>4. CASE S # {}
      <4>1. PICK s \in S : TRUE
        BY <3>4
      <4>2. S \ {s} = {}
        <5>1. ASSUME NEW u \in S PROVE u = s
          <6>1. /\ u \in makers /\ s \in makers /\ u.venue = s.venue
                /\ u.sequence = s.sequence /\ u.level = s.level
            BY <1>6, <3>1
          <6>. QED  BY <1>5, <6>1 DEF Listed
        <5>. QED  BY <5>1
      <4>3. S \in SUBSET makers /\ IsFiniteSet(makers)
        BY <1>5, <3>1 DEF Listed
      <4>4. IsFiniteSet(S)
        BY <4>3, FS_Subset
      <4>5. f[s] = s.available /\ f[s] \in Int /\ s.of = x /\ s.available <= book[x].remaining /\ x \in DOMAIN book
        BY <1>5, <3>1
      <4>6. SumOver(f, S) = f[s]
        BY <4>2, <4>4, <4>5, SumOfOne
      <4>. QED  BY <1>1, <3>2, <4>5, <4>6
    <3>. QED  BY <3>3, <3>4
  <2>. QED  BY <1>5, <2>1, <2>2 DEF Offered
<1>8. /\ Listed(solvers)
      /\ \A s \in solvers :
           /\ s.venue = "solver" /\ s.of \in DOMAIN live /\ s.left = live[s.of].remaining
           /\ s.of.maker # taker.maker /\ s.of.side # taker.side /\ Crosses(taker, s.price)
           /\ \E level \in Range(s.of.levels) : s.price = level.price
      /\ \A q \in DOMAIN live : Room(solvers, q) <= live[q].remaining
  BY SolverSegmentsAre
<1>9. Offered(taker, solvers, rest)
  <2>1. ASSUME NEW s \in solvers PROVE OfferedBy(taker, s, rest)
    <3>1. s.of \in DOMAIN rest /\ s.left = rest[s.of] /\ s.of \in Quotes /\ s.of \notin Orders
      BY <1>1, <1>2, <1>8
    <3>. QED  BY <3>1, <1>8 DEF OfferedBy
  <2>2. ASSUME NEW x \in DOMAIN rest PROVE Room(solvers, x) <= rest[x]
    <3>1. CASE x \in DOMAIN live
      BY <1>1, <1>8, <3>1
    <3>2. CASE x \notin DOMAIN live
      <4>1. {s \in solvers : s.of = x} = {}
        BY <1>8, <3>2
      <4>. QED  BY <1>1, <1>3, <4>1
    <3>. QED  BY <3>1, <3>2
  <2>. QED  BY <1>8, <2>1, <2>2 DEF Offered
<1>. QED  BY <1>4, <1>6, <1>7, <1>8, <1>9, OfferedTogether

(* What is filled is what is taken of each.                                *)
LEMMA FillsTogether ==
  ASSUME NEW n \in Nat, NEW fills, DOMAIN fills = 1..n, NEW D, IsFiniteSet(D),
         \A i \in 1..n : fills[i].segment.of \in D /\ fills[i].amount \in Int,
         NEW taken, \A x \in D : taken[x] = TakenFrom(fills, x)
  PROVE  Filled(fills) = SumOver(taken, D)
<1>1. PICK amount : amount = Amounts(fills)
  OBVIOUS
<1>2. \A i \in 1..n : amount[i] = fills[i].amount /\ amount[i] \in Int
  BY <1>1 DEF Amounts
<1>3. PICK class : class = [i \in 1..n |-> fills[i].segment.of]
  OBVIOUS
<1>4. class \in [1..n -> D]
  BY <1>3
<1>5. PICK of : of = [x \in D |-> {i \in 1..n : class[i] = x}]
  OBVIOUS
<1>6. \A x \in D : of[x] = {i \in 1..n : fills[i].segment.of = x}
  BY <1>3, <1>5
<1>7. \A x \in D : taken[x] = SumOver(amount, of[x])
  BY <1>1, <1>6 DEF TakenFrom
<1>8. IsFiniteSet(1..n)
  BY FS_Interval
<1>9. \A x \in D : of[x] = {i \in 1..n : class[i] = x}
  BY <1>5
<1>10. SumOver(amount, 1..n) = SumOver(taken, D)
  <2>1. PICK S : S = 1..n
    OBVIOUS
  <2>2. /\ IsFiniteSet(S) /\ class \in [S -> D] /\ \A i \in S : amount[i] \in Int
        /\ \A x \in D : of[x] = {i \in S : class[i] = x}
    BY <1>2, <1>4, <1>8, <1>9, <2>1
  <2>3. SumOver(amount, S) = SumOver(taken, D)
    BY <1>7, <2>2, SumByClass
  <2>. QED  BY <2>1, <2>3
<1>. QED  BY <1>1, <1>10 DEF Filled

(* Fills of what is offered take something of what is left of each, and    *)
(* fill at most what the taker needs.                                      *)
LEMMA FillsTake ==
  ASSUME NEW taker, taker.base \in Nat, NEW rest, IsFiniteSet(DOMAIN rest),
         \A x \in DOMAIN rest : rest[x] \in Nat,
         NEW segments, Offered(taker, segments, rest), NEW part \in SUBSET segments,
         NEW fills, Filling(taker, part, fills)
  PROVE  /\ Len(fills) \in Nat /\ DOMAIN fills = 1..Len(fills)
         /\ \A i \in DOMAIN fills :
              /\ fills[i].segment \in segments /\ fills[i].segment.of \in DOMAIN rest
              /\ fills[i].amount \in Nat /\ fills[i].amount > 0
              /\ TakenFrom(fills, fills[i].segment.of) > 0
         /\ \A x : TakenFrom(fills, x) \in Nat
         /\ \A x \in DOMAIN rest : TakenFrom(fills, x) <= rest[x]
         /\ \A x : (\A i \in DOMAIN fills : fills[i].segment.of # x) => TakenFrom(fills, x) = 0
         /\ Filled(fills) \in Nat /\ Filled(fills) <= taker.base
<1>1. Listed(segments) /\ Listed(part)
  BY ListedPart DEF Offered
<1>2. fills \in FillsOf(part)
  BY DEF Filling
<1>3. PICK n \in Nat : n = Len(fills) /\ DOMAIN fills = 1..n
  BY <1>2, FillsHaveSegments
<1>4. \A i \in 1..n : /\ fills[i].segment \in part /\ fills[i].amount \in Nat /\ fills[i].amount > 0
                      /\ fills[i].segment \in segments
  BY <1>2, <1>3, FillsHaveSegments
<1>5. \A i \in 1..n : fills[i].segment.of \in DOMAIN rest
  BY <1>4 DEF Offered, OfferedBy
<1>6. PICK line : line = Capped(taker.side, part)
  OBVIOUS
<1>7. line \in Seq(part) /\ \A i, j \in DOMAIN line : i < j => Before(taker.side, line[i], line[j])
  BY <1>1, <1>6, CappedLists
<1>8. \A i, j \in DOMAIN line : line[i] = line[j] => i = j
  <2>. SUFFICES ASSUME NEW i \in DOMAIN line, NEW j \in DOMAIN line, line[i] = line[j], i # j PROVE FALSE
    OBVIOUS
  <2>1. i \in Int /\ j \in Int /\ line[i] \in Segments
    BY <1>1, <1>7 DEF Listed
  <2>2. Before(taker.side, line[i], line[i])
    BY <1>7, <2>1
  <2>. QED  BY <2>1, <2>2, BeforeOrders
<1>9. Allots(line, taker.base, fills)
  BY <1>6 DEF Filling
<1>10. \A x : TakenFrom(fills, x) \in Nat /\ TakenFrom(fills, x) <= Room(part, x)
  BY <1>1, <1>2, <1>7, <1>8, <1>9, TakenWithinRoom
<1>11. ASSUME NEW x \in DOMAIN rest PROVE TakenFrom(fills, x) <= rest[x]
  <2>1. PICK f, g, S, T : /\ f = [s \in part |-> s.available] /\ g = [s \in segments |-> s.available]
                          /\ S = {s \in part : s.of = x} /\ T = {s \in segments : s.of = x}
    OBVIOUS
  <2>2. Room(part, x) = SumOver(f, S) /\ Room(segments, x) = SumOver(g, T)
    BY <2>1 DEF Room
  <2>3. IsFiniteSet(segments) /\ T \in SUBSET segments /\ S \in SUBSET T /\ S \in SUBSET segments
    BY <1>1, <2>1 DEF Listed
  <2>4. IsFiniteSet(S) /\ IsFiniteSet(T)
    BY <2>3, FS_Subset
  <2>5. \A s \in T : g[s] \in Nat
    <3>1. \A s \in segments : s.available \in Nat
      BY <1>1 DEF Listed, Segments
    <3>. QED  BY <2>1, <2>3, <3>1
  <2>6. \A s \in S : f[s] = g[s]
    BY <2>1
  <2>7. SumOver(f, S) = SumOver(g, S)
    BY <2>4, <2>6, SumEqual
  <2>8. SumOver(g, S) <= SumOver(g, T)
    BY <2>3, <2>4, <2>5, SumOfPart
  <2>9. SumOver(g, S) \in Nat /\ SumOver(g, T) \in Nat
    BY <2>3, <2>4, <2>5, SumNatural
  <2>10. Room(segments, x) <= rest[x] /\ rest[x] \in Nat
    BY DEF Offered
  <2>11. TakenFrom(fills, x) \in Nat /\ TakenFrom(fills, x) <= Room(part, x)
    BY <1>10
  <2>. QED  BY <2>2, <2>7, <2>8, <2>9, <2>10, <2>11
<1>12. PICK amount : amount = Amounts(fills)
  OBVIOUS
<1>13. \A i \in 1..n : amount[i] = fills[i].amount /\ amount[i] \in Nat /\ amount[i] > 0
  BY <1>3, <1>4, <1>12 DEF Amounts
<1>14. IsFiniteSet(1..n)
  BY FS_Interval
<1>15. ASSUME NEW i \in 1..n PROVE TakenFrom(fills, fills[i].segment.of) > 0
  <2>1. PICK S : S = {j \in 1..n : fills[j].segment.of = fills[i].segment.of}
    OBVIOUS
  <2>2. TakenFrom(fills, fills[i].segment.of) = SumOver(amount, S)
    BY <1>3, <1>12, <2>1 DEF TakenFrom
  <2>3. S \in SUBSET (1..n) /\ i \in S /\ S \ {i} \in SUBSET (1..n)
    BY <2>1
  <2>4. IsFiniteSet(S) /\ IsFiniteSet(S \ {i})
    BY <1>14, <2>3, FS_Subset
  <2>5. SumOver(amount, S) = amount[i] + SumOver(amount, S \ {i})
    <3>1. \A j \in S : amount[j] \in Int
      BY <1>13, <2>3
    <3>. QED  BY <2>3, <2>4, <3>1, SumMember
  <2>6. SumOver(amount, S \ {i}) \in Nat
    <3>1. \A j \in S \ {i} : amount[j] \in Nat
      BY <1>13, <2>3
    <3>. QED  BY <2>4, <3>1, SumNatural
  <2>. QED  BY <1>13, <2>2, <2>5, <2>6
<1>16. Filled(fills) = SumOver(amount, 1..n)
  BY <1>3, <1>12 DEF Filled
<1>17. Filled(fills) \in Nat
  BY <1>13, <1>14, <1>16, SumNatural
<1>18. Filled(fills) <= taker.base
  BY <1>9 DEF Allots
<1>19. ASSUME NEW x, \A i \in 1..n : fills[i].segment.of # x PROVE TakenFrom(fills, x) = 0
  <2>1. {i \in DOMAIN fills : fills[i].segment.of = x} = {}
    BY <1>3, <1>19
  <2>. QED  BY <2>1, SumEmpty DEF TakenFrom
<1>. QED  BY <1>3, <1>4, <1>5, <1>10, <1>11, <1>15, <1>17, <1>18, <1>19

-----------------------------------------------------------------------------
(* Which route is selected. *)

Ranked(taker, c) ==
  /\ Filled(c.fills) \in Int /\ Transfer(taker, c) \in Int /\ Len(c.fills) \in Int
  /\ c.kind \in {"book", "solver", "combined"}

(* Of two candidates of different kinds one is better, and to be better is *)
(* transitive.                                                             *)
LEMMA BetterOrders ==
  ASSUME NEW taker, NEW c, Ranked(taker, c), NEW d, Ranked(taker, d), NEW e, Ranked(taker, e)
  PROVE  /\ c.kind # d.kind => CandidateIsBetter(taker, c, d) \/ CandidateIsBetter(taker, d, c)
         /\ CandidateIsBetter(taker, c, d) /\ CandidateIsBetter(taker, d, e) =>
              CandidateIsBetter(taker, c, e)
<1>1. PICK f \in Int, g \in Int, h \in Int :
        f = Filled(c.fills) /\ g = Filled(d.fills) /\ h = Filled(e.fills)
  BY DEF Ranked
<1>2. PICK t \in Int, u \in Int, v \in Int :
        t = Transfer(taker, c) /\ u = Transfer(taker, d) /\ v = Transfer(taker, e)
  BY DEF Ranked
<1>3. PICK l \in Int, m \in Int, n \in Int : l = Len(c.fills) /\ m = Len(d.fills) /\ n = Len(e.fills)
  BY DEF Ranked
<1>4. PICK i \in Int, j \in Int, k \in Int :
        /\ i = Rank[c.kind] /\ j = Rank[d.kind] /\ k = Rank[e.kind]
        /\ c.kind # d.kind => i # j
  BY DEF Ranked, Rank
<1>5. CandidateIsBetter(taker, c, d) <=>
         \/ f > g
         \/ f = g /\ \/ Cheaper(taker.side, t, u)
                     \/ t = u /\ (l < m \/ (l = m /\ i < j))
  BY <1>1, <1>2, <1>3, <1>4, Zenon DEF CandidateIsBetter
<1>6. CandidateIsBetter(taker, d, c) <=>
         \/ g > f
         \/ g = f /\ \/ Cheaper(taker.side, u, t)
                     \/ u = t /\ (m < l \/ (m = l /\ j < i))
  BY <1>1, <1>2, <1>3, <1>4, Zenon DEF CandidateIsBetter
<1>7. CandidateIsBetter(taker, d, e) <=>
         \/ g > h
         \/ g = h /\ \/ Cheaper(taker.side, u, v)
                     \/ u = v /\ (m < n \/ (m = n /\ j < k))
  BY <1>1, <1>2, <1>3, <1>4, Zenon DEF CandidateIsBetter
<1>10. CandidateIsBetter(taker, c, e) <=>
         \/ f > h
         \/ f = h /\ \/ Cheaper(taker.side, t, v)
                     \/ t = v /\ (l < n \/ (l = n /\ i < k))
  BY <1>1, <1>2, <1>3, <1>4, Zenon DEF CandidateIsBetter
<1>8. CASE taker.side = "buy"
  BY <1>4, <1>5, <1>6, <1>7, <1>8, <1>10 DEF Cheaper
<1>9. CASE taker.side # "buy"
  BY <1>4, <1>5, <1>6, <1>7, <1>9, <1>10 DEF Cheaper
<1>. QED  BY <1>8, <1>9

(* The best of some candidates is one of them.                             *)
LEMMA BestIsOne ==
  ASSUME NEW taker, NEW x, NEW y, NEW z, Ranked(taker, x), Ranked(taker, y), Ranked(taker, z),
         x.kind = "book", y.kind = "solver", z.kind = "combined",
         NEW E \in SUBSET {x, y, z}, E # {}
  PROVE  Best(taker, E) \in E
<1>. DEFINE B(c, d) == CandidateIsBetter(taker, c, d)
<1>1. \A c, d \in {x, y, z} : c = d \/ B(c, d) \/ B(d, c)
  BY BetterOrders
<1>2. \A c, d, e \in {x, y, z} : B(c, d) /\ B(d, e) => B(c, e)
  BY BetterOrders
<1>3. Best(taker, E) = CHOOSE c \in E : \A d \in E \ {c} : B(c, d)
  BY DEF Best
<1>. HIDE DEF B
<1>4. \E c \in E : \A d \in E \ {c} : B(c, d)
  <2>1. CASE x \in E /\ y \in E /\ z \in E
    BY <1>1, <1>2, <2>1
  <2>2. CASE x \notin E
    BY <1>1, <2>2
  <2>3. CASE y \notin E
    BY <1>1, <2>3
  <2>4. CASE z \notin E
    BY <1>1, <2>4
  <2>. QED  BY <2>1, <2>2, <2>3, <2>4
<1>. QED  BY <1>3, <1>4

(* A route of segments that are offered, which leave out an order only     *)
(* with all of them, or because it cannot be settled.                      *)
Routed(taker, makers, rest, fills) ==
  \E segments : \E part \in SUBSET segments :
     /\ Offered(taker, segments, rest)
     /\ (\A s \in segments : s.venue = "solver") \/ makers \subseteq segments
     /\ \A s \in segments : s.venue = "book" => s \in makers
     /\ KeepsOrders(taker, segments, part)
     /\ Filling(taker, part, fills)

LEMMA CandidateRouted ==
  ASSUME NEW taker \in Orders, NEW rest, IsFiniteSet(DOMAIN rest), \A x \in DOMAIN rest : rest[x] \in Nat,
         NEW makers, NEW segments, Offered(taker, segments, rest),
         (\A s \in segments : s.venue = "solver") \/ makers \subseteq segments,
         \A s \in segments : s.venue = "book" => s \in makers,
         NEW kind \in {"book", "solver", "combined"}, NEW c, c = Candidate(kind, taker, segments)
  PROVE  /\ Ranked(taker, c) /\ c.kind = kind
         /\ Filled(c.fills) > 0 => Routed(taker, makers, rest, c.fills)
<1>1. PICK fills : fills = Fills(kind, taker, segments)
  OBVIOUS
<1>2. c.kind = kind /\ c.fills = fills
  BY <1>1 DEF Candidate
<1>3. taker.base \in Nat /\ Listed(segments)
  BY SignedFields DEF Offered
<1>4. fills = <<>> \/ \E part \in SUBSET segments : KeepsOrders(taker, segments, part)
                                                    /\ Filling(taker, part, fills)
  BY <1>1, <1>3, FillsEnd
<1>5. PICK quote : quote = [i \in DOMAIN fills |->
                              QuoteForFill(taker, fills[i].segment.price, fills[i].amount)]
  OBVIOUS
<1>6. Transfer(taker, c) = SumOver(quote, DOMAIN fills)
  BY <1>2, <1>5 DEF Transfer
<1>7. CASE fills = <<>>
  <2>1. DOMAIN fills = {} /\ Len(fills) = 0
    BY <1>7
  <2>2. Filled(fills) = 0 /\ Transfer(taker, c) = 0
    BY <1>6, <2>1, SumEmpty DEF Filled
  <2>. QED  BY <1>2, <2>1, <2>2 DEF Ranked
<1>8. ASSUME NEW part \in SUBSET segments, KeepsOrders(taker, segments, part),
             Filling(taker, part, fills)
      PROVE  /\ Ranked(taker, c) /\ c.kind = kind
             /\ Filled(c.fills) > 0 => Routed(taker, makers, rest, c.fills)
  <2>1. PICK n \in Nat : n = Len(fills) /\ DOMAIN fills = 1..n
    BY <1>3, <1>8, FillsTake
  <2>2. \A i \in 1..n : fills[i].segment \in segments /\ fills[i].amount \in Nat
    BY <1>3, <1>8, <2>1, FillsTake
  <2>3. Filled(fills) \in Nat
    BY <1>3, <1>8, FillsTake
  <2>4. ASSUME NEW i \in 1..n PROVE quote[i] \in Int
    <3>1. PICK price \in Nat, amount \in Nat, product \in Int :
            /\ price = fills[i].segment.price /\ amount = fills[i].amount
            /\ product = amount * price
      <4>1. fills[i].segment.price \in Nat
        BY <1>3, <2>2 DEF Listed, Segments
      <4>. QED  BY <2>2, <4>1
    <3>2. quote[i] = IF taker.side = "buy" THEN DivideUp(product) ELSE DivideDown(product)
      BY <1>5, <2>1, <3>1 DEF QuoteForFill
    <3>3. Scale \in Nat /\ Scale > 0
      BY RoutingConstants
    <3>4. DivideUp(product) \in Int /\ DivideDown(product) \in Int
      BY <3>1, <3>3 DEF DivideUp, DivideDown
    <3>. QED  BY <3>2, <3>4
  <2>5. IsFiniteSet(1..n)
    BY FS_Interval
  <2>6. SumOver(quote, 1..n) \in Int
    BY <2>4, <2>5, SumType
  <2>7. Ranked(taker, c)
    BY <1>2, <1>6, <2>1, <2>3, <2>6 DEF Ranked
  <2>8. Routed(taker, makers, rest, fills)
    BY <1>8 DEF Routed
  <2>. QED  BY <1>2, <2>7, <2>8
<1>. QED  BY <1>4, <1>7, <1>8

LEMMA RestFits ==
  ASSUME NEW book, BookFit(book), NEW live, LiveFit(live), NEW rest, rest = Rest(book, live)
  PROVE  /\ IsFiniteSet(DOMAIN rest) /\ DOMAIN rest = DOMAIN book \cup DOMAIN live
         /\ \A x \in DOMAIN book : rest[x] = book[x].remaining
         /\ \A x \in DOMAIN live : rest[x] = live[x].remaining
         /\ \A x \in DOMAIN rest : rest[x] \in Nat
<1>1. DOMAIN rest = DOMAIN book \cup DOMAIN live
  BY DEF Rest
<1>2. IsFiniteSet(DOMAIN book) /\ IsFiniteSet(DOMAIN live)
  BY DEF BookFit, LiveFit
<1>3. IsFiniteSet(DOMAIN rest)
  BY <1>1, <1>2, FS_Union
<1>4. \A x \in DOMAIN book : rest[x] = book[x].remaining
  BY DEF Rest
<1>5. \A x \in DOMAIN book : x \in Orders /\ book[x].remaining \in Nat
  BY SignedFields DEF BookFit
<1>6. \A x \in DOMAIN live : x \in Quotes /\ x \notin Orders /\ live[x].remaining \in Nat
  BY SignedFields DEF LiveFit
<1>7. \A x \in DOMAIN live : rest[x] = live[x].remaining
  BY <1>5, <1>6 DEF Rest
<1>. QED  BY <1>1, <1>3, <1>4, <1>5, <1>6, <1>7

LEMMA RouteOf ==
  ASSUME NEW book, BookFit(book), NEW live, LiveFit(live), NEW taker \in Orders, NEW t,
         NEW route, route = SelectedRoute(taker, Entries(book), Entries(live), t)
  PROVE  \/ route = NoRoute
         \/ /\ Routed(taker, BookSegments(taker, Entries(book), t), Rest(book, live), route.fills)
            /\ Filled(route.fills) > 0
            /\ taker.tif = "fok" => Filled(route.fills) = taker.base
<1>1. PICK rest, makers, solvers :
        /\ rest = Rest(book, live) /\ makers = BookSegments(taker, Entries(book), t)
        /\ solvers = SolverSegments(taker, Entries(live), t)
  OBVIOUS
<1>2. IsFiniteSet(DOMAIN rest) /\ \A x \in DOMAIN rest : rest[x] \in Nat
  BY <1>1, RestFits
<1>3. /\ Offered(taker, {}, rest) /\ Offered(taker, makers, rest)
      /\ Offered(taker, solvers, rest) /\ Offered(taker, makers \cup solvers, rest)
      /\ \A s \in makers : s.venue = "book"
      /\ \A s \in solvers : s.venue = "solver"
  <2>1. \A r, m, n :
          (r = Rest(book, live) /\ m = BookSegments(taker, Entries(book), t) /\
           n = SolverSegments(taker, Entries(live), t)) =>
          /\ Offered(taker, {}, r) /\ Offered(taker, m, r)
          /\ Offered(taker, n, r) /\ Offered(taker, m \cup n, r)
          /\ \A s \in m : s.venue = "book"
          /\ \A s \in n : s.venue = "solver"
    BY SegmentsOffered
  <2>. QED  BY <1>1, <2>1
<1>4. PICK ofBook, ofSolver :
        /\ ofBook = (IF "clob" \in taker.venues THEN makers ELSE {})
        /\ ofSolver = (IF "solver" \in taker.venues THEN solvers ELSE {})
  OBVIOUS
<1>5. PICK x, y, z : /\ x = Candidate("book", taker, ofBook) /\ y = Candidate("solver", taker, ofSolver)
                     /\ z = Candidate("combined", taker, ofBook \cup ofSolver)
  OBVIOUS
<1>6. \A segments \in {ofBook, ofSolver, ofBook \cup ofSolver} :
        /\ Offered(taker, segments, rest)
        /\ (\A s \in segments : s.venue = "solver") \/ makers \subseteq segments
        /\ \A s \in segments : s.venue = "book" => s \in makers
  <2>1. \A segments \in {{}, makers, solvers, makers \cup solvers} :
          /\ Offered(taker, segments, rest)
          /\ (\A s \in segments : s.venue = "solver") \/ makers \subseteq segments
          /\ \A s \in segments : s.venue = "book" => s \in makers
    BY <1>3
  <2>2. {ofBook, ofSolver, ofBook \cup ofSolver} \subseteq {{}, makers, solvers, makers \cup solvers}
    <3>1. ofBook \in {{}, makers} /\ ofSolver \in {{}, solvers}
      BY <1>4
    <3>2. ofBook \cup ofSolver \in {{}, makers, solvers, makers \cup solvers}
      BY <3>1
    <3>. QED  BY <3>1, <3>2
  <2>. QED  BY <2>1, <2>2
<1>7. /\ Ranked(taker, x) /\ x.kind = "book"
      /\ Filled(x.fills) > 0 => Routed(taker, makers, rest, x.fills)
  <2>1. /\ Offered(taker, ofBook, rest)
        /\ (\A s \in ofBook : s.venue = "solver") \/ makers \subseteq ofBook
        /\ \A s \in ofBook : s.venue = "book" => s \in makers
    BY <1>6
  <2>. QED  BY <1>2, <1>5, <2>1, CandidateRouted
<1>8. /\ Ranked(taker, y) /\ y.kind = "solver"
      /\ Filled(y.fills) > 0 => Routed(taker, makers, rest, y.fills)
  <2>1. /\ Offered(taker, ofSolver, rest)
        /\ (\A s \in ofSolver : s.venue = "solver") \/ makers \subseteq ofSolver
        /\ \A s \in ofSolver : s.venue = "book" => s \in makers
    BY <1>6
  <2>. QED  BY <1>2, <1>5, <2>1, CandidateRouted
<1>9. /\ Ranked(taker, z) /\ z.kind = "combined"
      /\ Filled(z.fills) > 0 => Routed(taker, makers, rest, z.fills)
  BY <1>2, <1>5, <1>6, CandidateRouted
<1>10. PICK candidates, E :
         /\ candidates = {x, y} \cup (IF ofBook # {} /\ ofSolver # {} THEN {z} ELSE {})
         /\ E = {c \in candidates : /\ Filled(c.fills) > 0
                                    /\ taker.tif = "fok" => Filled(c.fills) = taker.base}
  OBVIOUS
<1>11. route = Best(taker, E)
  BY <1>1, <1>4, <1>5, <1>10, Zenon DEF SelectedRoute
<1>12. E \in SUBSET {x, y, z}
  BY <1>10
<1>13. CASE E = {}
  BY <1>11, <1>13 DEF Best
<1>14. CASE E # {}
  <2>1. route \in E
    BY <1>7, <1>8, <1>9, <1>11, <1>12, <1>14, BestIsOne
  <2>2. Filled(route.fills) > 0 /\ (taker.tif = "fok" => Filled(route.fills) = taker.base)
    BY <1>10, <2>1
  <2>3. Routed(taker, makers, rest, route.fills)
    BY <1>7, <1>8, <1>9, <1>12, <2>1, <2>2
  <2>. QED  BY <1>1, <2>2, <2>3
<1>. QED  BY <1>13, <1>14

-----------------------------------------------------------------------------
(* What is traded, and what is left. *)

\* What stands was placed by an event before.
Placed(map) == \A o \in DOMAIN map : Entry(map[o]) /\ map[o].sequence < Sequence

\* What is left of it is its amount less what was traded of it.
Balanced(map) == \A o \in DOMAIN map : map[o].remaining = OfferAmount(o) - Traded(o)

\* A trade is of claimed orders and quotes only.
Settled(e) ==
  /\ e.taker \in claimed /\ e.at \in 1..now
  /\ Filled(e.route.fills) \in Nat
  /\ \A x : TakenFrom(e.route.fills, x) \in Nat
  /\ \A x : x \notin claimed \cup quoteClaims => TakenFrom(e.route.fills, x) = 0

TradesHold ==
  /\ executions \in Seq(Range(executions))
  /\ \A i \in DOMAIN executions : Settled(executions[i])

Bounded ==
  /\ now <= MaxTime
  /\ \A account \in Accounts : epochs[account] <= MaxEpoch
  /\ cancelled \subseteq {NonceKey(o) : o \in claimed}
  /\ DOMAIN receipts \subseteq Requests

(* The book and the quotes are as routing needs them, and with the trades  *)
(* they account for every amount that was signed.                          *)
TradeInv ==
  /\ BookInv /\ Bounded
  /\ BookFit(open) /\ Placed(open) /\ Balanced(open)
  /\ LiveFit(quotes) /\ Placed(quotes) /\ Balanced(quotes)
  /\ TradesHold /\ CapacityKept

LEMMA CapacityLess ==
  ASSUME NEW small, NEW large, IsFiniteSet(DOMAIN large), DOMAIN small \subseteq DOMAIN large,
         \A q \in DOMAIN small :
            small[q].remaining \in Nat /\ small[q].remaining <= large[q].remaining,
         \A q \in DOMAIN large : large[q].remaining \in Nat,
         NEW account
  PROVE  /\ CapacityOf(account, small) \in Nat /\ CapacityOf(account, large) \in Nat
         /\ CapacityOf(account, small) <= CapacityOf(account, large)
<1>1. PICK f, g, S, T :
        /\ f = [q \in DOMAIN small |-> small[q].remaining]
        /\ g = [q \in DOMAIN large |-> large[q].remaining]
        /\ S = {q \in DOMAIN small : q.maker = account}
        /\ T = {q \in DOMAIN large : q.maker = account}
  OBVIOUS
<1>2. CapacityOf(account, small) = SumOver(f, S) /\ CapacityOf(account, large) = SumOver(g, T)
  BY <1>1 DEF CapacityOf
<1>3. T \in SUBSET DOMAIN large /\ S \in SUBSET T
  BY <1>1
<1>4. IsFiniteSet(T) /\ IsFiniteSet(S)
  <2>1. IsFiniteSet(T)
    BY <1>3, FS_Subset
  <2>. QED  BY <1>3, <2>1, FS_Subset
<1>5. \A q \in T : g[q] \in Nat
  BY <1>1
<1>6. \A q \in S : f[q] \in Nat /\ f[q] \in Int /\ g[q] \in Int /\ f[q] <= g[q]
  BY <1>1
<1>7. SumOver(f, S) \in Nat /\ SumOver(g, T) \in Nat
  BY <1>4, <1>5, <1>6, SumNatural
<1>8. SumOver(g, S) \in Nat
  <2>1. \A q \in S : g[q] \in Nat
    BY <1>3, <1>5
  <2>. QED  BY <1>4, <2>1, SumNatural
<1>9. SumOver(f, S) <= SumOver(g, S)
  BY <1>4, <1>6, SumMonotone
<1>10. SumOver(g, S) <= SumOver(g, T)
  BY <1>3, <1>4, <1>5, SumOfPart
<1>. QED  BY <1>2, <1>7, <1>8, <1>9, <1>10

LEMMA BookPart ==
  ASSUME NEW large, BookFit(large), NEW small, DOMAIN small \subseteq DOMAIN large,
         \A o \in DOMAIN small :
            /\ small[o].sequence = large[o].sequence
            /\ small[o].remaining \in Nat /\ small[o].remaining > 0
            /\ small[o].remaining <= large[o].remaining
  PROVE  BookFit(small)
<1>1. DOMAIN small \in SUBSET DOMAIN large /\ IsFiniteSet(DOMAIN large)
  BY DEF BookFit
<1>2. IsFiniteSet(DOMAIN small)
  BY <1>1, FS_Subset
<1>3. ASSUME NEW o \in DOMAIN small
      PROVE  o \in Orders /\ small[o].sequence \in Nat /\ small[o].remaining \in 1..o.base
  <2>1. o \in Orders /\ large[o].sequence \in Nat /\ large[o].remaining \in 1..o.base
    BY <1>1 DEF BookFit
  <2>2. o.base \in Nat
    BY <2>1, SignedFields
  <2>. QED  BY <2>1, <2>2
<1>4. \A o, p \in DOMAIN small : small[o].sequence = small[p].sequence => o = p
  BY <1>1 DEF BookFit
<1>. QED  BY <1>2, <1>3, <1>4 DEF BookFit

LEMMA LivePart ==
  ASSUME NEW large, LiveFit(large), NEW small, DOMAIN small \subseteq DOMAIN large,
         \A q \in DOMAIN small :
            /\ small[q].sequence = large[q].sequence
            /\ small[q].remaining \in Nat /\ small[q].remaining > 0
            /\ small[q].remaining <= large[q].remaining
  PROVE  LiveFit(small)
<1>1. DOMAIN small \in SUBSET DOMAIN large /\ IsFiniteSet(DOMAIN large)
  BY DEF LiveFit
<1>2. IsFiniteSet(DOMAIN small)
  BY <1>1, FS_Subset
<1>3. ASSUME NEW q \in DOMAIN small
      PROVE  /\ q \in Quotes /\ small[q].sequence \in Nat /\ small[q].remaining \in 1..q.capacity
             /\ CurveFits(q)
  <2>1. /\ q \in Quotes /\ large[q].sequence \in Nat /\ large[q].remaining \in 1..q.capacity
        /\ CurveFits(q)
    BY <1>1 DEF LiveFit
  <2>2. q.capacity \in Nat
    BY <2>1, SignedFields
  <2>. QED  BY <2>1, <2>2
<1>4. \A q, r \in DOMAIN small : small[q].sequence = small[r].sequence => q = r
  BY <1>1 DEF LiveFit
<1>. QED  BY <1>2, <1>3, <1>4 DEF LiveFit

LEMMA AmountsLeft ==
  ASSUME BookFit(open), LiveFit(quotes)
  PROVE  /\ \A o \in DOMAIN open : /\ o \in Orders /\ open[o].sequence \in Nat
                                   /\ open[o].remaining \in Nat /\ open[o].remaining > 0
         /\ \A q \in DOMAIN quotes : /\ q \in Quotes /\ q \notin Orders /\ quotes[q].sequence \in Nat
                                     /\ quotes[q].remaining \in Nat /\ quotes[q].remaining > 0
<1>1. \A o \in DOMAIN open : /\ o \in Orders /\ open[o].sequence \in Nat
                             /\ open[o].remaining \in 1..o.base /\ o.base \in Nat
  BY SignedFields DEF BookFit
<1>2. \A q \in DOMAIN quotes : /\ q \in Quotes /\ q \notin Orders /\ quotes[q].sequence \in Nat
                               /\ quotes[q].remaining \in 1..q.capacity /\ q.capacity \in Nat
  BY SignedFields DEF LiveFit
<1>. QED  BY <1>1, <1>2

(* What stands at a time is fit to be routed to.                           *)
LEMMA StandingFits ==
  ASSUME TradeInv, NEW t
  PROVE  /\ BookFit(Resting(t)) /\ LiveFit(Live(t))
         /\ DOMAIN Resting(t) = {o \in DOMAIN open : ActiveOrder(o, t, Lifecycle)}
         /\ \A o \in DOMAIN Resting(t) : Resting(t)[o] = open[o]
         /\ DOMAIN Live(t) = {q \in DOMAIN quotes : ActiveQuote(q, t, Lifecycle)}
         /\ \A q \in DOMAIN Live(t) : Live(t)[q] = quotes[q]
<1>1. /\ DOMAIN Resting(t) = {o \in DOMAIN open : ActiveOrder(o, t, Lifecycle)}
      /\ \A o \in DOMAIN Resting(t) : Resting(t)[o] = open[o]
      /\ DOMAIN Live(t) = {q \in DOMAIN quotes : ActiveQuote(q, t, Lifecycle)}
      /\ \A q \in DOMAIN Live(t) : Live(t)[q] = quotes[q]
  BY DEF Resting, Live, Restrict
<1>2. BookFit(open) /\ LiveFit(quotes)
  BY DEF TradeInv
<1>3. \A o \in DOMAIN open : open[o].remaining \in Nat /\ open[o].remaining > 0
  BY <1>2, AmountsLeft
<1>4. \A q \in DOMAIN quotes : quotes[q].remaining \in Nat /\ quotes[q].remaining > 0
  BY <1>2, AmountsLeft
<1>5. BookFit(Resting(t))
  BY <1>1, <1>2, <1>3, BookPart
<1>6. LiveFit(Live(t))
  BY <1>1, <1>2, <1>4, LivePart
<1>. QED  BY <1>1, <1>5, <1>6

LEMMA SequenceIs ==
  ASSUME Numbered
  PROVE  Sequence \in Nat
BY FS_CardinalityType DEF Numbered, ReceiptsNumbered, Sequence

(* An event's end keeps the account, if what is to be written keeps it.    *)
LEMMA CommitTrades ==
  ASSUME TradeInv, BookInv', NEW request \in Requests, request \notin DOMAIN receipts,
         NEW t \in 0..MaxTime, NEW status, NEW nextIndex, NEW nextOpen, NEW nextQuotes,
         NEW nextEpochs, NEW nextCancelled,
         Commit(request, t, status, nextIndex, nextOpen, nextQuotes, nextEpochs, nextCancelled),
         \A account \in Accounts : nextEpochs[account] <= MaxEpoch,
         nextCancelled \subseteq {NonceKey(o) : o \in claimed'},
         BookFit(nextOpen), LiveFit(nextQuotes),
         \A o \in DOMAIN nextOpen : /\ Entry(nextOpen[o]) /\ nextOpen[o].sequence <= Sequence
                                    /\ nextOpen[o].remaining = OfferAmount(o) - Traded(o)',
         \A q \in DOMAIN nextQuotes : /\ Entry(nextQuotes[q]) /\ nextQuotes[q].sequence <= Sequence
                                      /\ nextQuotes[q].remaining = OfferAmount(q) - Traded(q)',
         TradesHold', CapacityKept'
  PROVE  TradeInv'
<1>. DEFINE lifecycle == [epochs |-> nextEpochs, cancelled |-> nextCancelled]
            receipt == [sequence |-> Sequence, at |-> t, status |-> status]
<1>1. /\ now' = t /\ epochs' = nextEpochs /\ cancelled' = nextCancelled /\ open' = nextOpen
      /\ quotes' = PruneQuotes(nextQuotes, t, lifecycle)
      /\ receipts' = With(receipts, request, receipt)
  BY DEF Commit
<1>. HIDE DEF lifecycle, receipt
<1>2. DOMAIN receipts' = DOMAIN receipts \cup {request}
  BY <1>1 DEF With
<1>3. IsFiniteSet(DOMAIN receipts) /\ Sequence \in Nat
  BY SequenceIs DEF TradeInv, BookInv, Numbered
<1>4. Sequence' = Sequence + 1
  <2>1. PICK D : D = DOMAIN receipts
    OBVIOUS
  <2>2. Cardinality(D \cup {request}) = Cardinality(D) + 1
    BY <1>3, <2>1, FS_AddElement
  <2>. QED  BY <1>2, <2>1, <2>2 DEF Sequence
<1>5. Bounded'
  <2>1. DOMAIN receipts' \subseteq Requests
    BY <1>2 DEF TradeInv, Bounded
  <2>2. t <= MaxTime
    BY MatcherBounds
  <2>. QED  BY <1>1, <2>1, <2>2 DEF Bounded
<1>6. /\ DOMAIN quotes' \subseteq DOMAIN nextQuotes
      /\ \A q \in DOMAIN quotes' : quotes'[q] = nextQuotes[q]
  <2>1. PICK pruned : pruned = PruneQuotes(nextQuotes, t, lifecycle)
    OBVIOUS
  <2>2. /\ DOMAIN pruned = {q \in DOMAIN nextQuotes :
                              nextQuotes[q].remaining > 0 /\ ActiveQuote(q, t, lifecycle)}
        /\ \A q \in DOMAIN pruned : pruned[q] = nextQuotes[q]
    BY <2>1 DEF PruneQuotes, Restrict
  <2>. QED  BY <1>1, <2>1, <2>2
<1>7. BookFit(open')
  BY <1>1
<1>8. \A q \in DOMAIN nextQuotes : /\ nextQuotes[q].sequence \in Nat
                                   /\ nextQuotes[q].remaining \in Nat /\ nextQuotes[q].remaining > 0
  <2>1. \A q \in DOMAIN nextQuotes : /\ q.capacity \in Nat /\ nextQuotes[q].remaining \in 1..q.capacity
                                     /\ nextQuotes[q].sequence \in Nat
    BY SignedFields DEF LiveFit
  <2>. QED  BY <2>1
<1>9. LiveFit(quotes')
  BY <1>6, <1>8, LivePart
<1>10. \A o \in DOMAIN nextOpen : nextOpen[o].sequence \in Nat
  BY DEF BookFit
<1>11. Placed(open)' /\ Balanced(open)'
  <2>1. \A o \in DOMAIN nextOpen : Entry(nextOpen[o]) /\ nextOpen[o].sequence < Sequence'
    BY <1>3, <1>4, <1>10
  <2>2. \A o \in DOMAIN open' : open'[o].remaining = OfferAmount(o) - Traded(o)'
    BY <1>1
  <2>. QED  BY <1>1, <2>1, <2>2 DEF Placed, Balanced
<1>12. Placed(quotes)' /\ Balanced(quotes)'
  <2>1. \A q \in DOMAIN nextQuotes : Entry(nextQuotes[q]) /\ nextQuotes[q].sequence < Sequence'
    BY <1>3, <1>4, <1>8
  <2>2. \A q \in DOMAIN quotes' : quotes'[q].remaining = OfferAmount(q) - Traded(q)'
    BY <1>6
  <2>. QED  BY <1>6, <2>1, <2>2 DEF Placed, Balanced
<1>. QED  BY <1>5, <1>7, <1>9, <1>11, <1>12 DEF TradeInv

LEMMA TradedIs ==
  ASSUME TradesHold, NEW x
  PROVE  /\ Traded(x) \in Nat
         /\ x \notin claimed \cup quoteClaims => Traded(x) = 0
<1>1. PICK runs, R : runs = executions /\ R = Range(executions)
  OBVIOUS
<1>2. runs \in Seq(R)
  BY <1>1 DEF TradesHold
<1>3. PICK n \in Nat : DOMAIN runs = 1..n
  BY <1>2
<1>4. PICK f : f = [i \in 1..n |-> IF runs[i].taker = x THEN Filled(runs[i].route.fills)
                                   ELSE TakenFrom(runs[i].route.fills, x)]
  OBVIOUS
<1>5. Traded(x) = SumOver(f, 1..n)
  BY <1>1, <1>3, <1>4 DEF Traded
<1>6. \A i \in 1..n : /\ runs[i].taker \in claimed /\ Filled(runs[i].route.fills) \in Nat
                      /\ TakenFrom(runs[i].route.fills, x) \in Nat
                      /\ x \notin claimed \cup quoteClaims => TakenFrom(runs[i].route.fills, x) = 0
  BY <1>1, <1>3 DEF TradesHold, Settled
<1>7. \A i \in 1..n : f[i] \in Nat
  BY <1>4, <1>6
<1>8. IsFiniteSet(1..n)
  BY FS_Interval
<1>9. Traded(x) \in Nat
  BY <1>5, <1>7, <1>8, SumNatural
<1>10. ASSUME x \notin claimed \cup quoteClaims PROVE Traded(x) = 0
  <2>1. \A i \in 1..n : f[i] = 0
    BY <1>4, <1>6, <1>10
  <2>2. SumOver(f, 1..n) = 0 * Cardinality(1..n) /\ Cardinality(1..n) \in Nat
    BY <1>8, <2>1, SumConstant, FS_CardinalityType
  <2>. QED  BY <1>5, <2>2
<1>. QED  BY <1>9, <1>10

LEMMA NothingTraded ==
  ASSUME TradesHold, now \in Nat, now' \in Nat, now <= now', executions' = executions,
         claimed \subseteq claimed', quoteClaims \subseteq quoteClaims'
  PROVE  TradesHold' /\ \A x : Traded(x)' = Traded(x)
<1>1. \A x : Traded(x)' = Traded(x)
  BY DEF Traded
<1>2. ASSUME NEW i \in DOMAIN executions PROVE Settled(executions[i])'
  <2>1. Settled(executions[i])
    BY DEF TradesHold
  <2>2. PICK e : e = executions[i]
    OBVIOUS
  <2>3. e = executions'[i]
    BY <2>2
  <2>. QED  BY <2>1, <2>2, <2>3 DEF Settled
<1>3. executions' \in Seq(Range(executions'))
  BY DEF TradesHold
<1>. QED  BY <1>1, <1>2, <1>3 DEF TradesHold

LEMMA TradeAdds ==
  ASSUME TradesHold, now \in Nat, now' \in Nat, now <= now', NEW e,
         executions' = Append(executions, e),
         claimed \subseteq claimed', quoteClaims \subseteq quoteClaims', Settled(e)'
  PROVE  /\ TradesHold'
         /\ \A x : /\ Traded(x) \in Nat
                   /\ Traded(x)' = Traded(x) + (IF e.taker = x THEN Filled(e.route.fills)
                                                ELSE TakenFrom(e.route.fills, x))
<1>1. PICK old, R, new : old = executions /\ R = Range(executions) /\ new = Append(old, e)
  OBVIOUS
<1>2. old \in Seq(R) /\ executions' = new
  BY <1>1 DEF TradesHold
<1>3. PICK n \in Nat : DOMAIN old = 1..n /\ Len(old) = n
  BY <1>2
<1>4. /\ DOMAIN new = 1..(n + 1) /\ \A i \in 1..n : new[i] = old[i]
      /\ new[n + 1] = e /\ new = [i \in 1..(n + 1) |-> new[i]]
  <2>1. PICK T : T = R \cup {e}
    OBVIOUS
  <2>2. old \in Seq(T) /\ e \in T
    BY <1>2, <2>1
  <2>3. /\ new \in Seq(T) /\ Len(new) = n + 1
        /\ \A i \in 1..n : new[i] = old[i]
        /\ new[n + 1] = e
    BY <1>1, <1>3, <2>2, AppendProperties
  <2>. QED  BY <2>3
<1>5. ASSUME NEW i \in 1..(n + 1) PROVE Settled(new[i])'
  <2>1. CASE i \in 1..n
    <3>1. PICK d : d = new[i]
      OBVIOUS
    <3>2. Settled(d)
      BY <1>1, <1>3, <1>4, <2>1, <3>1 DEF TradesHold
    <3>. QED  BY <3>1, <3>2 DEF Settled
  <2>2. CASE i \notin 1..n
    <3>1. i = n + 1
      BY <2>2
    <3>. QED  BY <1>4, <3>1
  <2>. QED  BY <2>1, <2>2
<1>6. executions' \in Seq(Range(executions'))
  <2>1. PICK T : T = Range(new)
    OBVIOUS
  <2>2. \A i \in 1..(n + 1) : new[i] \in T
    BY <1>4, <2>1 DEF Range
  <2>3. new \in Seq(T)
    BY <1>4, <2>2
  <2>. QED  BY <1>2, <2>1, <2>3
<1>7. TradesHold'
  <2>1. (\A i \in DOMAIN executions : Settled(executions[i]))'
    BY <1>2, <1>4, <1>5 DEF Settled
  <2>. QED  BY <1>6, <2>1 DEF TradesHold
<1>8. ASSUME NEW x
      PROVE  /\ Traded(x) \in Nat
             /\ Traded(x)' = Traded(x) + (IF e.taker = x THEN Filled(e.route.fills)
                                          ELSE TakenFrom(e.route.fills, x))
  <2>1. PICK f, g :
          /\ f = [i \in 1..n |-> IF old[i].taker = x THEN Filled(old[i].route.fills)
                                 ELSE TakenFrom(old[i].route.fills, x)]
          /\ g = [i \in 1..(n + 1) |-> IF new[i].taker = x THEN Filled(new[i].route.fills)
                                       ELSE TakenFrom(new[i].route.fills, x)]
    OBVIOUS
  <2>2. Traded(x) = SumOver(f, 1..n)
    BY <1>1, <1>3, <2>1 DEF Traded
  <2>3. Traded(x)' = SumOver(g, 1..(n + 1))
    BY <1>2, <1>4, <2>1 DEF Traded
  <2>4. Traded(x) \in Nat
    BY TradedIs
  <2>5. \A i \in 1..(n + 1) : g[i] \in Int
    <3>. SUFFICES ASSUME NEW i \in 1..(n + 1) PROVE g[i] \in Int
      OBVIOUS
    <3>1. PICK d : d = new[i]
      OBVIOUS
    <3>2. Filled(d.route.fills) \in Nat /\ TakenFrom(d.route.fills, x) \in Nat
      BY <1>5, <3>1 DEF Settled
    <3>. QED  BY <2>1, <3>1, <3>2
  <2>6. \A i \in 1..n : g[i] = f[i]
    <3>. SUFFICES ASSUME NEW i \in 1..n PROVE g[i] = f[i]
      OBVIOUS
    <3>3. new[i] = old[i]
      BY <1>4
    <3>4. i \in 1..(n + 1)
      OBVIOUS
    <3>1. i \in 1..(n + 1) /\ new[i] = old[i]
      BY <3>3, <3>4
    <3>2. PICK d : d = new[i] /\ d = old[i]
      BY <3>1
    <3>. QED  BY <2>1, <3>1, <3>2
  <2>7. /\ 1..(n + 1) = (1..n) \cup {n + 1} /\ IsFiniteSet(1..n) /\ n + 1 \notin 1..n
        /\ n + 1 \in 1..(n + 1) /\ 1..n \subseteq 1..(n + 1)
    <3>1. 1..(n + 1) = (1..n) \cup {n + 1}
      BY OneLonger
    <3>2. IsFiniteSet(1..n)
      BY FS_Interval
    <3>. QED  BY <3>1, <3>2
  <2>8. SumOver(g, (1..n) \cup {n + 1}) = g[n + 1] + SumOver(g, 1..n)
    BY <2>5, <2>7, SumInsert
  <2>9. SumOver(f, 1..n) = SumOver(g, 1..n)
    BY <2>6, <2>7, SumEqual
  <2>10. g[n + 1] = (IF e.taker = x THEN Filled(e.route.fills) ELSE TakenFrom(e.route.fills, x))
    BY <1>4, <2>1, <2>7
  <2>11. g[n + 1] \in Int
    BY <2>5, <2>7
  <2>12. Traded(x)' = g[n + 1] + Traded(x)
    BY <2>2, <2>3, <2>7, <2>8, <2>9
  <2>. QED  BY <2>4, <2>10, <2>11, <2>12
<1>. QED  BY <1>7, <1>8

(* An event that trades nothing and only drops orders and quotes keeps the *)
(* account.                                                                *)
LEMMA QuietCommit ==
  ASSUME TradeInv, BookInv', NEW request \in Requests, request \notin DOMAIN receipts,
         NEW t \in 0..MaxTime, now <= t, NEW status, NEW nextIndex, NEW nextOpen, NEW nextQuotes,
         NEW nextEpochs, NEW nextCancelled,
         Commit(request, t, status, nextIndex, nextOpen, nextQuotes, nextEpochs, nextCancelled),
         \A account \in Accounts : nextEpochs[account] <= MaxEpoch,
         nextCancelled \subseteq {NonceKey(o) : o \in claimed},
         DOMAIN nextOpen \subseteq DOMAIN open, \A o \in DOMAIN nextOpen : nextOpen[o] = open[o],
         DOMAIN nextQuotes \subseteq DOMAIN quotes,
         \A q \in DOMAIN nextQuotes : nextQuotes[q] = quotes[q],
         claimed' = claimed, quoteClaims' = quoteClaims, executions' = executions
  PROVE  TradeInv' /\ \A x : Traded(x)' = Traded(x)
<1>1. now' = t /\ now \in Nat /\ t \in Nat
  BY MatcherBounds DEF Commit, TradeInv, BookInv
<1>2. TradesHold' /\ \A x : Traded(x)' = Traded(x)
  BY <1>1, NothingTraded DEF TradeInv
<1>3. /\ BookFit(open) /\ LiveFit(quotes) /\ Placed(open) /\ Placed(quotes)
      /\ Balanced(open) /\ Balanced(quotes) /\ CapacityKept
  BY DEF TradeInv
<1>4. \A o \in DOMAIN open : open[o].sequence \in Nat /\ open[o].remaining \in Nat /\ open[o].remaining > 0
  BY <1>3, AmountsLeft
<1>5. \A q \in DOMAIN quotes :
        quotes[q].sequence \in Nat /\ quotes[q].remaining \in Nat /\ quotes[q].remaining > 0
  BY <1>3, AmountsLeft
<1>6. BookFit(nextOpen)
  BY <1>3, <1>4, BookPart
<1>7. LiveFit(nextQuotes)
  BY <1>3, <1>5, LivePart
<1>8. Sequence \in Nat
  BY SequenceIs DEF TradeInv, BookInv
<1>9. \A o \in DOMAIN nextOpen : /\ Entry(nextOpen[o]) /\ nextOpen[o].sequence <= Sequence
                                 /\ nextOpen[o].remaining = OfferAmount(o) - Traded(o)'
  BY <1>2, <1>3, <1>4, <1>8 DEF Placed, Balanced
<1>10. \A q \in DOMAIN nextQuotes : /\ Entry(nextQuotes[q]) /\ nextQuotes[q].sequence <= Sequence
                                    /\ nextQuotes[q].remaining = OfferAmount(q) - Traded(q)'
  BY <1>2, <1>3, <1>5, <1>8 DEF Placed, Balanced
<1>11. CapacityKept'
  <2>1. /\ DOMAIN quotes' \subseteq DOMAIN quotes
        /\ \A q \in DOMAIN quotes' : quotes'[q] = quotes[q]
    <3>1. PICK lifecycle : lifecycle = [epochs |-> nextEpochs, cancelled |-> nextCancelled]
      OBVIOUS
    <3>2. quotes' = PruneQuotes(nextQuotes, t, lifecycle)
      BY <3>1 DEF Commit
    <3>. QED  BY <3>2 DEF PruneQuotes, Restrict
  <2>2. IsFiniteSet(DOMAIN quotes)
    BY <1>3 DEF LiveFit
  <2>. SUFFICES ASSUME NEW q \in DOMAIN quotes' PROVE CapacityOf(q.maker, quotes') <= MaxCapacity
    BY DEF CapacityKept
  <2>3. PICK before, after : before = quotes /\ after = quotes'
    OBVIOUS
  <2>4. /\ DOMAIN after \subseteq DOMAIN before /\ IsFiniteSet(DOMAIN before)
        /\ \A r \in DOMAIN after : after[r].remaining \in Nat /\ after[r].remaining <= before[r].remaining
        /\ \A r \in DOMAIN before : before[r].remaining \in Nat
    BY <1>5, <2>1, <2>2, <2>3
  <2>5. /\ CapacityOf(q.maker, after) \in Nat /\ CapacityOf(q.maker, before) \in Nat
        /\ CapacityOf(q.maker, after) <= CapacityOf(q.maker, before)
    BY <2>4, CapacityLess
  <2>6. CapacityOf(q.maker, before) <= MaxCapacity
    BY <1>3, <2>1, <2>3 DEF CapacityKept
  <2>. QED  BY <2>3, <2>5, <2>6, MatcherBounds
<1>12. nextCancelled \subseteq {NonceKey(o) : o \in claimed'}
  OBVIOUS
<1>13. TradeInv'
  BY <1>2, <1>6, <1>7, <1>9, <1>10, <1>11, <1>12, CommitTrades
<1>. QED  BY <1>2, <1>13

-----------------------------------------------------------------------------
(* What a route takes of the book and the quotes. *)

\* The fills take no more than is left, of others, at prices they signed.
FillsFit(o, t, fills) ==
  /\ Filled(fills) \in Nat /\ Filled(fills) <= o.base
  /\ o.tif = "fok" => Filled(fills) \in {0, o.base}
  /\ \A x : TakenFrom(fills, x) \in Nat
  /\ \A x : x \notin DOMAIN Resting(t) \cup DOMAIN Live(t) => TakenFrom(fills, x) = 0
  /\ \A x \in DOMAIN Resting(t) : TakenFrom(fills, x) <= open[x].remaining
  /\ \A x \in DOMAIN Live(t) : TakenFrom(fills, x) <= quotes[x].remaining
  /\ \A x : TakenFrom(fills, x) > 0 => x.maker # o.maker /\ OfferMayTrade(o, x)

\* Each fill is of an order that stands, or of a quote and enough of it.
FillsStand(t, fills) ==
  \A s \in {f.segment : f \in Range(fills)} :
     /\ s.venue \in {"book", "solver"}
     /\ s.venue = "book" => s.of \in DOMAIN Resting(t)
     /\ s.venue = "solver" =>
          /\ s.of \in DOMAIN Live(t)
          /\ s.of.minimum <= TakenFrom(fills, s.of) \/ TakenFrom(fills, s.of) = quotes[s.of].remaining

\* What is filled is what is taken of all that stands.
FillsAddUp(t, fills) ==
  LET all == DOMAIN Resting(t) \cup DOMAIN Live(t)
  IN  Filled(fills) = SumOver([x \in all |-> TakenFrom(fills, x)], all)

LEMMA NoRouteTakes ==
  ASSUME TradeInv, NEW o \in Orders, NEW t, NEW fills, fills = <<>>
  PROVE  FillsFit(o, t, fills) /\ FillsStand(t, fills) /\ FillsAddUp(t, fills)
<1>1. DOMAIN fills = {} /\ Range(fills) = {}
  BY DEF Range
<1>2. \A x : TakenFrom(fills, x) = 0
  <2>1. \A x : {i \in DOMAIN fills : fills[i].segment.of = x} = {}
    BY <1>1
  <2>. QED  BY <2>1, SumEmpty DEF TakenFrom
<1>3. Filled(fills) = 0
  BY <1>1, SumEmpty DEF Filled
<1>4. BookFit(Resting(t)) /\ LiveFit(Live(t))
  BY StandingFits
<1>5. /\ \A x \in DOMAIN Resting(t) : Resting(t)[x] = open[x] /\ x \in DOMAIN open
      /\ \A x \in DOMAIN Live(t) : Live(t)[x] = quotes[x] /\ x \in DOMAIN quotes
  BY StandingFits
<1>6. /\ \A x \in DOMAIN Resting(t) : open[x].remaining \in Nat
      /\ \A x \in DOMAIN Live(t) : quotes[x].remaining \in Nat
  BY <1>5, AmountsLeft DEF TradeInv
<1>7. FillsFit(o, t, fills)
  <2>1. o.base \in Nat
    BY SignedFields
  <2>. QED  BY <1>2, <1>3, <1>6, <2>1 DEF FillsFit
<1>8. FillsAddUp(t, fills)
  <2>1. PICK all : all = DOMAIN Resting(t) \cup DOMAIN Live(t)
    OBVIOUS
  <2>2. IsFiniteSet(all)
    BY <1>4, <2>1, FS_Union DEF BookFit, LiveFit
  <2>3. PICK f : f = [x \in all |-> TakenFrom(fills, x)]
    OBVIOUS
  <2>4. SumOver(f, all) = 0 * Cardinality(all) /\ Cardinality(all) \in Nat
    <3>1. \A x \in all : f[x] = 0
      BY <1>2, <2>3
    <3>. QED  BY <2>2, <3>1, SumConstant, FS_CardinalityType
  <2>5. SumOver(f, all) = 0
    BY <2>4
  <2>. QED  BY <1>3, <2>1, <2>3, <2>5 DEF FillsAddUp
<1>9. FillsStand(t, fills)
  BY <1>1 DEF FillsStand
<1>. QED  BY <1>7, <1>8, <1>9

LEMMA RouteTakes ==
  ASSUME TradeInv, NEW o \in Orders, NEW t, NEW route, route = RouteFor(o, t)
  PROVE  /\ FillsFit(o, t, route.fills) /\ FillsStand(t, route.fills)
         /\ FillsAddUp(t, route.fills)
<1>1. PICK book, live, fills, rest :
        /\ book = Resting(t) /\ live = Live(t) /\ fills = route.fills /\ rest = Rest(book, live)
  OBVIOUS
<1>2. /\ BookFit(book) /\ LiveFit(live)
      /\ \A x \in DOMAIN book : book[x] = open[x]
      /\ \A x \in DOMAIN live : live[x] = quotes[x]
  BY <1>1, StandingFits
<1>3. route = SelectedRoute(o, Entries(book), Entries(live), t)
  BY <1>1 DEF RouteFor
<1>4. /\ o.base \in Nat /\ Orders \cap Quotes = {}
      /\ \A q \in Quotes : q.minimum \in Nat
  BY SignedFields
<1>5. CASE route = NoRoute
  <2>1. fills = <<>>
    BY <1>1, <1>5 DEF NoRoute
  <2>. QED  BY <1>1, <2>1, NoRouteTakes
<1>6. ASSUME NEW segments, NEW part \in SUBSET segments, Offered(o, segments, rest),
             Filling(o, part, fills), o.tif = "fok" => Filled(fills) = o.base
      PROVE  FillsFit(o, t, fills) /\ FillsStand(t, fills) /\ FillsAddUp(t, fills)
  <2>1. /\ IsFiniteSet(DOMAIN rest) /\ DOMAIN rest = DOMAIN book \cup DOMAIN live
        /\ \A x \in DOMAIN book : rest[x] = book[x].remaining
        /\ \A x \in DOMAIN live : rest[x] = live[x].remaining
        /\ \A x \in DOMAIN rest : rest[x] \in Nat
    <3>1. IsFiniteSet(DOMAIN rest) /\ DOMAIN rest = DOMAIN book \cup DOMAIN live
      BY <1>1, <1>2, RestFits
    <3>2. \A x \in DOMAIN book : rest[x] = book[x].remaining
      BY <1>1 DEF Rest
    <3>3. \A x \in DOMAIN live : rest[x] = live[x].remaining
      <4>1. \A x \in DOMAIN live : x \notin DOMAIN book
        BY <1>2, <1>4 DEF BookFit, LiveFit
      <4>. QED  BY <1>1, <4>1 DEF Rest
    <3>4. \A x \in DOMAIN rest : rest[x] \in Nat
      BY <1>1, <1>2, RestFits
    <3>. QED  BY <3>1, <3>2, <3>3, <3>4
  <2>a. Len(fills) \in Nat /\ DOMAIN fills = 1..Len(fills)
    BY <1>4, <1>6, <2>1, FillsTake
  <2>2. PICK n \in Nat : DOMAIN fills = 1..n
    BY <2>a
  <2>3. \A i \in 1..n : /\ fills[i].segment \in segments /\ fills[i].segment.of \in DOMAIN rest
                        /\ fills[i].amount \in Nat /\ TakenFrom(fills, fills[i].segment.of) > 0
    BY <1>4, <1>6, <2>1, <2>2, FillsTake
  <2>4. /\ \A x : TakenFrom(fills, x) \in Nat
        /\ \A x \in DOMAIN rest : TakenFrom(fills, x) <= rest[x]
    BY <1>4, <1>6, <2>1, FillsTake
  <2>5. \A x : (\A i \in 1..n : fills[i].segment.of # x) => TakenFrom(fills, x) = 0
    <3>1. \A x : (\A i \in DOMAIN fills : fills[i].segment.of # x) => TakenFrom(fills, x) = 0
      <4>1. \A x : (\A i \in DOMAIN fills : fills[i].segment.of # x) =>
                     {i \in DOMAIN fills : fills[i].segment.of = x} = {}
        OBVIOUS
      <4>. QED  BY <4>1, SumEmpty DEF TakenFrom
    <3>. QED  BY <2>2, <3>1
  <2>6. Filled(fills) \in Nat /\ Filled(fills) <= o.base
    BY <1>4, <1>6, <2>1, FillsTake
  <2>7. ASSUME NEW x, TakenFrom(fills, x) > 0 PROVE x.maker # o.maker /\ OfferMayTrade(o, x)
    <3>1. PICK i \in 1..n : fills[i].segment.of = x
      BY <2>5, <2>7
    <3>2. PICK s \in segments : s = fills[i].segment /\ s.of = x
      BY <2>3, <3>1
    <3>3. OfferedBy(o, s, rest)
      BY <1>6, <3>2 DEF Offered
    <3>4. x \in Orders \/ (x \in Quotes /\ x \notin Orders)
      <4>1. x \in DOMAIN book \/ x \in DOMAIN live
        BY <2>1, <3>2, <3>3 DEF OfferedBy
      <4>2. DOMAIN book \subseteq Orders /\ DOMAIN live \subseteq Quotes
        BY <1>2 DEF BookFit, LiveFit
      <4>. QED  BY <1>4, <4>1, <4>2
    <3>5. x.maker # o.maker /\ x.side # o.side /\ Crosses(o, s.price)
      BY <3>2, <3>3 DEF OfferedBy
    <3>6. CASE x \in Orders
      <4>1. s.price = x.price
        BY <3>2, <3>3, <3>6 DEF OfferedBy
      <4>. QED  BY <3>5, <3>6, <4>1 DEF OfferMayTrade
    <3>7. CASE x \in Quotes /\ x \notin Orders
      <4>1. PICK level \in Range(x.levels) : s.price = level.price
        BY <3>2, <3>3, <3>7 DEF OfferedBy
      <4>. QED  BY <3>5, <3>7, <4>1 DEF OfferMayTrade
    <3>. QED  BY <3>4, <3>6, <3>7
  <2>8. FillsFit(o, t, fills)
    <3>1. \A x \in DOMAIN book : TakenFrom(fills, x) <= open[x].remaining
      BY <1>2, <2>1, <2>4
    <3>2. \A x \in DOMAIN live : TakenFrom(fills, x) <= quotes[x].remaining
      BY <1>2, <2>1, <2>4
    <3>3. \A x : x \notin DOMAIN book \cup DOMAIN live => TakenFrom(fills, x) = 0
      BY <2>1, <2>3, <2>5
    <3>. QED  BY <1>1, <1>6, <2>4, <2>6, <2>7, <3>1, <3>2, <3>3 DEF FillsFit
  <2>9. FillsAddUp(t, fills)
    <3>1. PICK all : all = DOMAIN book \cup DOMAIN live
      OBVIOUS
    <3>2. PICK taken : taken = [x \in all |-> TakenFrom(fills, x)]
      OBVIOUS
    <3>3. /\ IsFiniteSet(all) /\ \A x \in all : taken[x] = TakenFrom(fills, x)
          /\ \A i \in 1..n : fills[i].segment.of \in all /\ fills[i].amount \in Int
      BY <2>1, <2>3, <3>1, <3>2
    <3>4. Filled(fills) = SumOver(taken, all)
      BY <2>2, <3>3, FillsTogether
    <3>. QED  BY <1>1, <3>1, <3>2, <3>4 DEF FillsAddUp
  <2>10. FillsStand(t, fills)
    <3>. SUFFICES ASSUME NEW f \in Range(fills), NEW s, s = f.segment
                  PROVE  /\ s.venue \in {"book", "solver"}
                         /\ s.venue = "book" => s.of \in DOMAIN book
                         /\ s.venue = "solver" =>
                              /\ s.of \in DOMAIN live
                              /\ \/ s.of.minimum <= TakenFrom(fills, s.of)
                                 \/ TakenFrom(fills, s.of) = quotes[s.of].remaining
      BY <1>1 DEF FillsStand
    <3>1. PICK i \in 1..n : f = fills[i]
      BY <2>2 DEF Range
    <3>2. s \in segments /\ s.of \in DOMAIN rest
      BY <2>3, <3>1
    <3>3. /\ s.venue \in {"book", "solver"}
          /\ s.venue = "book" => s.of \in Orders
          /\ s.venue = "solver" => s.of \in Quotes
      <4>1. Listed(segments)
        BY <1>6 DEF Offered
      <4>2. s \in Segments
        BY <3>2, <4>1 DEF Listed
      <4>3. s.venue \in {"book", "solver"}
        BY <4>2 DEF Segments
      <4>. QED  BY <3>2, <4>1, <4>3 DEF Listed
    <3>4. /\ s.venue = "book" => s.of \in DOMAIN book
          /\ s.venue = "solver" => s.of \in DOMAIN live
      BY <1>2, <1>4, <2>1, <3>2, <3>3 DEF BookFit, LiveFit
    <3>5. ASSUME s.venue = "solver"
          PROVE  \/ s.of.minimum <= TakenFrom(fills, s.of)
                 \/ TakenFrom(fills, s.of) = quotes[s.of].remaining
      <4>1. ~ (TakenFrom(fills, s.of) < s.of.minimum /\ TakenFrom(fills, s.of) # s.left)
        <5>1. BelowMinimum(fills) = {}
          BY <1>6 DEF Filling
        <5>. SUFFICES ASSUME TakenFrom(fills, s.of) < s.of.minimum, TakenFrom(fills, s.of) # s.left
                      PROVE  s.of \in BelowMinimum(fills)
          BY <5>1
        <5>. QED  BY <3>5 DEF BelowMinimum
      <4>2. s.left = rest[s.of]
        BY <1>6, <3>2 DEF Offered, OfferedBy
      <4>3. s.left = quotes[s.of].remaining
        BY <1>2, <2>1, <3>4, <3>5, <4>2
      <4>4. s.of.minimum \in Nat /\ TakenFrom(fills, s.of) \in Nat
        BY <1>4, <2>4, <3>3, <3>5
      <4>5. PICK taken \in Nat, m \in Nat : taken = TakenFrom(fills, s.of) /\ m = s.of.minimum
        BY <4>4
      <4>6. taken < m \/ m <= taken
        OBVIOUS
      <4>. QED  BY <4>1, <4>3, <4>5, <4>6
    <3>. QED  BY <3>3, <3>4, <3>5
  <2>. QED  BY <2>8, <2>9, <2>10
<1>7. \/ route = NoRoute
      \/ /\ Routed(o, BookSegments(o, Entries(book), t), rest, fills)
         /\ o.tif = "fok" => Filled(fills) = o.base
  BY <1>1, <1>2, <1>3, RouteOf
<1>8. ASSUME route # NoRoute
      PROVE  FillsFit(o, t, fills) /\ FillsStand(t, fills) /\ FillsAddUp(t, fills)
  <2>1. PICK segments : \E part \in SUBSET segments :
          Offered(o, segments, rest) /\ Filling(o, part, fills)
    BY <1>7, <1>8 DEF Routed
  <2>2. PICK part \in SUBSET segments : Offered(o, segments, rest) /\ Filling(o, part, fills)
    BY <2>1
  <2>. QED  BY <1>6, <1>7, <1>8, <2>2
<1>. QED  BY <1>1, <1>5, <1>8

-----------------------------------------------------------------------------
(* Events that trade nothing. *)

LEMMA CutoverTrades ==
  ASSUME TradeInv, NEW request \in Requests, Cutover(request)
  PROVE  TradeInv' /\ \A x : Traded(x)' = Traded(x)
<1>1. /\ request \notin DOMAIN receipts
      /\ Commit(request, now, "control-authorization-cutover", index, open, quotes, epochs, cancelled)
      /\ claimed' = claimed /\ quoteClaims' = quoteClaims /\ executions' = executions
  BY DEF Cutover
<1>2. PICK t : t = now
  OBVIOUS
<1>3. t \in 0..MaxTime /\ now <= t
  BY <1>2, MatcherBounds DEF TradeInv, BookInv, Bounded
<1>4. BookInv'
  BY CutoverKeeps DEF TradeInv
<1>5. Commit(request, t, "control-authorization-cutover", index, open, quotes, epochs, cancelled)
  BY <1>1, <1>2
<1>6. /\ \A account \in Accounts : epochs[account] <= MaxEpoch
      /\ cancelled \subseteq {NonceKey(o) : o \in claimed}
  BY DEF TradeInv, Bounded
<1>. QED  BY <1>1, <1>3, <1>4, <1>5, <1>6, QuietCommit

LEMMA CancelTrades ==
  ASSUME TradeInv, NEW request \in Requests, NEW o, NEW t \in 1..MaxTime, CancelOrder(request, o, t)
  PROVE  TradeInv' /\ \A x : Traded(x)' = Traded(x)
<1>1. PICK left, cancels : /\ left = Restrict(open, DOMAIN open \ {o})
                           /\ cancels = cancelled \cup {NonceKey(o)}
  OBVIOUS
<1>2. /\ request \notin DOMAIN receipts /\ now <= t /\ o \in DOMAIN index
      /\ Commit(request, t, "cancelled", index, left, quotes, epochs, cancels)
      /\ claimed' = claimed /\ quoteClaims' = quoteClaims /\ executions' = executions
  <2>1. t >= now /\ now \in Nat /\ t \in Nat
    BY MatcherBounds DEF CancelOrder, EventAllowed, TradeInv, BookInv
  <2>. QED  BY <1>1, <2>1 DEF CancelOrder, EventAllowed
<1>3. t \in 0..MaxTime /\ t \in Nat
  BY MatcherBounds
<1>4. BookInv'
  BY <1>3, CancelOrderKeeps DEF TradeInv
<1>5. DOMAIN left \subseteq DOMAIN open /\ \A p \in DOMAIN left : left[p] = open[p]
  BY <1>1 DEF Restrict
<1>6. o \in claimed
  BY <1>2 DEF TradeInv, BookInv, IndexIsLiveBook, BookHolds, Resting, Restrict
<1>7. /\ \A account \in Accounts : epochs[account] <= MaxEpoch
      /\ cancels \subseteq {NonceKey(p) : p \in claimed}
  BY <1>1, <1>6 DEF TradeInv, Bounded
<1>. QED  BY <1>2, <1>3, <1>4, <1>5, <1>7, QuietCommit

LEMMA AdvanceTrades ==
  ASSUME TradeInv, NEW request \in Requests, NEW account \in Accounts, NEW epoch \in 1..MaxEpoch,
         NEW t \in 1..MaxTime, AdvanceEpoch(request, account, epoch, t)
  PROVE  TradeInv' /\ \A x : Traded(x)' = Traded(x)
<1>1. PICK left, offered, raised :
        /\ left = Restrict(open, {o \in DOMAIN open : o.maker # account})
        /\ offered = Restrict(quotes, {q \in DOMAIN quotes : q.maker # account})
        /\ raised = [epochs EXCEPT ![account] = epoch]
  OBVIOUS
<1>2. /\ request \notin DOMAIN receipts /\ now <= t
      /\ Commit(request, t, "epoch-advanced", index, left, offered, raised, cancelled)
      /\ claimed' = claimed /\ quoteClaims' = quoteClaims /\ executions' = executions
  <2>1. t >= now /\ now \in Nat /\ t \in Nat
    BY MatcherBounds DEF AdvanceEpoch, EventAllowed, TradeInv, BookInv
  <2>. QED  BY <1>1, <2>1 DEF AdvanceEpoch, EventAllowed
<1>3. t \in 0..MaxTime /\ t \in Nat /\ epoch \in Nat /\ epoch <= MaxEpoch
  BY MatcherBounds
<1>4. BookInv'
  BY <1>3, AdvanceEpochKeeps DEF TradeInv
<1>5. /\ DOMAIN left \subseteq DOMAIN open /\ \A p \in DOMAIN left : left[p] = open[p]
      /\ DOMAIN offered \subseteq DOMAIN quotes /\ \A q \in DOMAIN offered : offered[q] = quotes[q]
  BY <1>1 DEF Restrict
<1>6. \A other \in Accounts : raised[other] <= MaxEpoch
  BY <1>1, <1>3 DEF TradeInv, BookInv, Bounded
<1>7. cancelled \subseteq {NonceKey(p) : p \in claimed}
  BY DEF TradeInv, Bounded
<1>. QED  BY <1>2, <1>3, <1>4, <1>5, <1>6, <1>7, QuietCommit

LEMMA CancelQuoteTrades ==
  ASSUME TradeInv, NEW request \in Requests, NEW q, NEW t \in 1..MaxTime,
         CancelSolverQuote(request, q, t)
  PROVE  TradeInv' /\ \A x : Traded(x)' = Traded(x)
<1>1. PICK offered : offered = Restrict(quotes, DOMAIN quotes \ {q})
  OBVIOUS
<1>2. /\ request \notin DOMAIN receipts /\ now <= t
      /\ Commit(request, t, "solver-quote-cancelled", index, open, offered, epochs, cancelled)
      /\ claimed' = claimed /\ quoteClaims' = quoteClaims /\ executions' = executions
  <2>1. t >= now /\ now \in Nat /\ t \in Nat
    BY MatcherBounds DEF CancelSolverQuote, EventAllowed, TradeInv, BookInv
  <2>. QED  BY <1>1, <2>1 DEF CancelSolverQuote, EventAllowed
<1>3. t \in 0..MaxTime /\ t \in Nat
  BY MatcherBounds
<1>4. BookInv'
  BY <1>3, CancelQuoteKeeps DEF TradeInv
<1>5. DOMAIN offered \subseteq DOMAIN quotes /\ \A r \in DOMAIN offered : offered[r] = quotes[r]
  BY <1>1 DEF Restrict
<1>6. /\ \A account \in Accounts : epochs[account] <= MaxEpoch
      /\ cancelled \subseteq {NonceKey(o) : o \in claimed}
  BY DEF TradeInv, Bounded
<1>. QED  BY <1>2, <1>3, <1>4, <1>5, <1>6, QuietCommit

(* A quote more is its capacity more for its account.                      *)
LEMMA CapacityGrows ==
  ASSUME NEW live, LiveFit(live), NEW q, q \notin DOMAIN live, NEW full,
         DOMAIN full = DOMAIN live \cup {q}, \A r \in DOMAIN live : full[r] = live[r],
         full[q].remaining \in Nat, NEW account
  PROVE  CapacityOf(account, full)
           = CapacityOf(account, live) + (IF q.maker = account THEN full[q].remaining ELSE 0)
<1>1. PICK f, g, S, T :
        /\ f = [r \in DOMAIN live |-> live[r].remaining]
        /\ g = [r \in DOMAIN full |-> full[r].remaining]
        /\ S = {r \in DOMAIN live : r.maker = account}
        /\ T = {r \in DOMAIN full : r.maker = account}
  OBVIOUS
<1>2. CapacityOf(account, live) = SumOver(f, S) /\ CapacityOf(account, full) = SumOver(g, T)
  BY <1>1 DEF CapacityOf
<1>3. S \in SUBSET DOMAIN live /\ IsFiniteSet(DOMAIN live) /\ q \notin S
  BY <1>1 DEF LiveFit
<1>4. IsFiniteSet(S)
  BY <1>3, FS_Subset
<1>5. \A r \in DOMAIN live : live[r].remaining \in Nat
  <2>1. \A r \in DOMAIN live : r.capacity \in Nat /\ live[r].remaining \in 1..r.capacity
    BY SignedFields DEF LiveFit
  <2>. QED  BY <2>1
<1>6. \A r \in S : f[r] = g[r] /\ f[r] \in Nat
  BY <1>1, <1>5
<1>7. SumOver(f, S) = SumOver(g, S) /\ SumOver(f, S) \in Nat
  BY <1>4, <1>6, SumEqual, SumNatural
<1>8. CASE q.maker = account
  <2>1. T = S \cup {q}
    BY <1>1, <1>8
  <2>2. g[q] = full[q].remaining /\ g[q] \in Int /\ \A r \in S : g[r] \in Int
    BY <1>1, <1>6
  <2>3. SumOver(g, S \cup {q}) = g[q] + SumOver(g, S)
    BY <1>3, <1>4, <2>2, SumInsert
  <2>. QED  BY <1>2, <1>7, <1>8, <2>1, <2>2, <2>3
<1>9. CASE q.maker # account
  <2>1. T = S
    BY <1>1, <1>9
  <2>. QED  BY <1>2, <1>7, <1>9, <2>1
<1>. QED  BY <1>8, <1>9

LEMMA QuoteTrades ==
  ASSUME TradeInv, NEW request \in Requests, NEW q \in Quotes, NEW t \in 1..MaxTime,
         AcceptSolverQuote(request, q, t)
  PROVE  TradeInv' /\ \A x : Traded(x)' = Traded(x)
<1>1. PICK entry, offered : /\ entry = [sequence |-> Sequence, remaining |-> q.capacity]
                            /\ offered = With(quotes, q, entry)
  OBVIOUS
<1>2. /\ request \notin DOMAIN receipts /\ now <= t /\ QuotePolicy(q, t) /\ CapacityFits(q, t)
      /\ \A c \in quoteClaims : NonceKey(c) # NonceKey(q)
      /\ Commit(request, t, "solver-quote-open", index, open, offered, epochs, cancelled)
      /\ claimed' = claimed /\ quoteClaims' = quoteClaims \cup {q} /\ executions' = executions
  <2>1. t >= now /\ now \in Nat /\ t \in Nat
    BY MatcherBounds DEF AcceptSolverQuote, EventAllowed, TradeInv, BookInv
  <2>. QED  BY <1>1, <2>1 DEF AcceptSolverQuote, EventAllowed
<1>3. t \in 0..MaxTime /\ t \in Nat /\ now' = t /\ now \in Nat /\ MaxCapacity \in Nat
  BY <1>2, MatcherBounds DEF Commit, TradeInv, BookInv
<1>4. BookInv'
  BY <1>3, AcceptQuoteKeeps DEF TradeInv
<1>5. /\ BookFit(open) /\ LiveFit(quotes) /\ Placed(open) /\ Placed(quotes)
      /\ Balanced(open) /\ Balanced(quotes) /\ CapacityKept /\ TradesHold
  BY DEF TradeInv
<1>6. TradesHold' /\ \A x : Traded(x)' = Traded(x)
  BY <1>2, <1>3, <1>5, NothingTraded
<1>7. /\ q.capacity \in Nat /\ q.capacity > 0 /\ CurveFits(q) /\ q \notin Orders
      /\ q \notin quoteClaims /\ q \notin claimed
  <2>1. q.capacity \in Nat /\ q.minimum \in 1..q.capacity /\ CurveFits(q) /\ q \notin Orders
    BY <1>2, SignedFields DEF QuotePolicy
  <2>2. q \notin quoteClaims /\ q \notin claimed
    BY <1>2, <2>1 DEF TradeInv, BookInv, ClaimsHeld
  <2>. QED  BY <2>1, <2>2
<1>8. Traded(q) = 0
  BY <1>5, <1>7, TradedIs
<1>9. q \notin DOMAIN quotes
  BY <1>7 DEF TradeInv, BookInv, QuotesLive
<1>10. /\ DOMAIN offered = DOMAIN quotes \cup {q} /\ offered[q] = entry
       /\ \A r \in DOMAIN quotes : offered[r] = quotes[r]
  BY <1>1, <1>9 DEF With
<1>11. entry.sequence = Sequence /\ entry.remaining = q.capacity /\ Entry(entry) /\ Sequence \in Nat
  <2>1. Sequence \in Nat
    BY SequenceIs DEF TradeInv, BookInv
  <2>. QED  BY <1>1, <1>7, <2>1 DEF Entry
<1>12. \A r \in DOMAIN quotes : /\ quotes[r].sequence \in Nat /\ quotes[r].sequence < Sequence
                                /\ Entry(quotes[r])
                                /\ quotes[r].remaining = OfferAmount(r) - Traded(r)
  BY <1>5, AmountsLeft DEF Placed, Balanced
<1>13. LiveFit(offered)
  <2>1. IsFiniteSet(DOMAIN offered)
    <3>1. IsFiniteSet(DOMAIN quotes)
      BY <1>5 DEF LiveFit
    <3>. QED  BY <1>10, <3>1, FS_AddElement
  <2>2. DOMAIN offered \subseteq Quotes
    BY <1>5, <1>10 DEF LiveFit
  <2>3. ASSUME NEW r \in DOMAIN offered
        PROVE  /\ offered[r].sequence \in Nat /\ offered[r].remaining \in 1..r.capacity
               /\ CurveFits(r)
    <3>1. CASE r = q
      BY <1>7, <1>10, <1>11, <3>1
    <3>2. CASE r # q
      BY <1>5, <1>10, <3>2 DEF LiveFit
    <3>. QED  BY <3>1, <3>2
  <2>4. ASSUME NEW r \in DOMAIN offered, NEW s \in DOMAIN offered,
               offered[r].sequence = offered[s].sequence
        PROVE  r = s
    <3>1. CASE r # q /\ s # q
      BY <1>5, <1>10, <2>4, <3>1 DEF LiveFit
    <3>2. \A u \in DOMAIN offered : u # q => offered[u].sequence # Sequence
      BY <1>10, <1>11, <1>12
    <3>. QED  BY <1>10, <1>11, <2>4, <3>1, <3>2
  <2>. QED  BY <2>1, <2>2, <2>3, <2>4 DEF LiveFit
<1>14. \A o \in DOMAIN open : /\ Entry(open[o]) /\ open[o].sequence <= Sequence
                              /\ open[o].remaining = OfferAmount(o) - Traded(o)'
  <2>1. \A o \in DOMAIN open : open[o].sequence \in Nat
    BY <1>5, AmountsLeft
  <2>. QED  BY <1>5, <1>6, <1>11, <2>1 DEF Placed, Balanced
<1>15. \A r \in DOMAIN offered : /\ Entry(offered[r]) /\ offered[r].sequence <= Sequence
                                 /\ offered[r].remaining = OfferAmount(r) - Traded(r)'
  <2>. SUFFICES ASSUME NEW r \in DOMAIN offered
                PROVE  /\ Entry(offered[r]) /\ offered[r].sequence <= Sequence
                       /\ offered[r].remaining = OfferAmount(r) - Traded(r)'
    OBVIOUS
  <2>1. CASE r = q
    BY <1>6, <1>7, <1>8, <1>10, <1>11, <2>1 DEF OfferAmount
  <2>2. CASE r # q
    BY <1>6, <1>10, <1>11, <1>12, <2>2
  <2>. QED  BY <2>1, <2>2
<1>16. CapacityKept'
  <2>1. PICK live, full : live = Live(t) /\ full = [r \in DOMAIN live \cup {q} |-> offered[r]]
    OBVIOUS
  <2>2. /\ LiveFit(live) /\ DOMAIN live = {r \in DOMAIN quotes : ActiveQuote(r, t, Lifecycle)}
        /\ \A r \in DOMAIN live : live[r] = quotes[r]
    BY <2>1, StandingFits
  <2>3. /\ DOMAIN full = DOMAIN live \cup {q} /\ q \notin DOMAIN live
        /\ \A r \in DOMAIN live : full[r] = live[r]
        /\ full[q].remaining = q.capacity
    BY <1>9, <1>10, <1>11, <2>1, <2>2
  <2>4. /\ DOMAIN quotes' \subseteq DOMAIN full
        /\ \A r \in DOMAIN quotes' : quotes'[r] = full[r]
    <3>1. quotes' = PruneQuotes(offered, t, Lifecycle)
      BY <1>2 DEF Commit, Lifecycle
    <3>2. /\ DOMAIN quotes' = {r \in DOMAIN offered : offered[r].remaining > 0 /\ ActiveQuote(r, t, Lifecycle)}
          /\ \A r \in DOMAIN quotes' : quotes'[r] = offered[r]
      BY <3>1 DEF PruneQuotes, Restrict
    <3>3. DOMAIN quotes' \subseteq DOMAIN full
      BY <1>10, <2>2, <2>3, <3>2
    <3>. QED  BY <2>1, <2>3, <3>2, <3>3
  <2>5. \A r \in DOMAIN full : full[r].remaining \in Nat
    <3>1. \A r \in DOMAIN quotes : quotes[r].remaining \in Nat
      BY <1>5, AmountsLeft
    <3>. QED  BY <1>7, <2>2, <2>3, <3>1
  <2>6. IsFiniteSet(DOMAIN full)
    <3>1. IsFiniteSet(DOMAIN live)
      BY <2>2 DEF LiveFit
    <3>. QED  BY <2>3, <3>1, FS_AddElement
  <2>. SUFFICES ASSUME NEW r \in DOMAIN quotes' PROVE CapacityOf(r.maker, quotes') <= MaxCapacity
    BY DEF CapacityKept
  <2>7. PICK account, after : account = r.maker /\ after = quotes'
    OBVIOUS
  <2>8. /\ CapacityOf(account, after) \in Nat /\ CapacityOf(account, full) \in Nat
        /\ CapacityOf(account, after) <= CapacityOf(account, full)
    <3>1. /\ DOMAIN after \subseteq DOMAIN full
          /\ \A s \in DOMAIN after : after[s].remaining \in Nat /\ after[s].remaining <= full[s].remaining
      BY <2>4, <2>5, <2>7
    <3>. QED  BY <2>5, <2>6, <3>1, CapacityLess
  <2>9. CapacityOf(account, full)
          = CapacityOf(account, live) + (IF q.maker = account THEN q.capacity ELSE 0)
    <3>1. full[q].remaining \in Nat
      BY <1>7, <2>3
    <3>2. CapacityOf(account, full)
            = CapacityOf(account, live) + (IF q.maker = account THEN full[q].remaining ELSE 0)
      BY <2>2, <2>3, <3>1, CapacityGrows
    <3>. QED  BY <2>3, <3>2
  <2>10. /\ CapacityOf(account, live) \in Nat /\ CapacityOf(account, quotes) \in Nat
         /\ CapacityOf(account, live) <= CapacityOf(account, quotes)
    <3>1. \A s \in DOMAIN quotes : quotes[s].remaining \in Nat
      BY <1>5, AmountsLeft
    <3>2. IsFiniteSet(DOMAIN quotes) /\ DOMAIN live \subseteq DOMAIN quotes
      BY <1>5, <2>2 DEF LiveFit
    <3>3. \A s \in DOMAIN live : live[s].remaining \in Nat /\ live[s].remaining <= quotes[s].remaining
      BY <2>2, <3>1
    <3>4. PICK before : before = quotes
      OBVIOUS
    <3>. QED  BY <3>1, <3>2, <3>3, <3>4, CapacityLess
  <2>11. CapacityOf(account, full) <= MaxCapacity
    <3>1. CASE q.maker = account
      <4>1. CapacityOf(account, live) + q.capacity <= MaxCapacity
        BY <1>2, <2>1, <3>1 DEF CapacityFits
      <4>. QED  BY <2>9, <3>1, <4>1
    <3>2. CASE q.maker # account
      <4>1. r # q /\ r \in DOMAIN quotes
        BY <2>2, <2>3, <2>4, <2>7, <3>2
      <4>2. CapacityOf(account, quotes) <= MaxCapacity
        BY <1>5, <2>7, <4>1 DEF CapacityKept
      <4>. QED  BY <1>3, <2>9, <2>10, <3>2, <4>2
    <3>. QED  BY <3>1, <3>2
  <2>. QED  BY <1>3, <2>7, <2>8, <2>11
<1>17. /\ \A account \in Accounts : epochs[account] <= MaxEpoch
       /\ cancelled \subseteq {NonceKey(o) : o \in claimed'}
  BY <1>2 DEF TradeInv, Bounded
<1>18. TradeInv'
  BY <1>2, <1>3, <1>4, <1>5, <1>6, <1>13, <1>14, <1>15, <1>16, <1>17, CommitTrades
<1>. QED  BY <1>6, <1>18

-----------------------------------------------------------------------------
(* An order trades. *)

LEMMA AfterRoute ==
  ASSUME NEW whole, NEW part, DOMAIN part \subseteq DOMAIN whole,
         \A x \in DOMAIN part : part[x] = whole[x] /\ Entry(whole[x]) /\ whole[x].remaining \in Nat,
         NEW fills, \A x \in DOMAIN part : TakenFrom(fills, x) \in Nat,
         NEW after, after = AfterFills(part, fills)
  PROVE  /\ DOMAIN after \subseteq DOMAIN part
         /\ \A x \in DOMAIN after :
              /\ Entry(after[x]) /\ after[x].sequence = whole[x].sequence
              /\ after[x].remaining = whole[x].remaining - TakenFrom(fills, x)
              /\ after[x].remaining \in Nat /\ after[x].remaining > 0
              /\ after[x].remaining <= whole[x].remaining
<1>1. DOMAIN after \subseteq DOMAIN part
  BY AfterFillsOf
<1>2. ASSUME NEW x \in DOMAIN after
      PROVE  /\ Entry(after[x]) /\ after[x].sequence = whole[x].sequence
             /\ after[x].remaining = whole[x].remaining - TakenFrom(fills, x)
             /\ after[x].remaining \in Nat /\ after[x].remaining > 0
             /\ after[x].remaining <= whole[x].remaining
  <2>1. x \in DOMAIN part /\ Entry(part[x]) /\ part[x] = whole[x]
    BY <1>1
  <2>2. /\ Entry(after[x]) /\ after[x].sequence = part[x].sequence
        /\ after[x].remaining = part[x].remaining - TakenFrom(fills, x)
    BY <2>1, AfterFillsOf
  <2>3. whole[x].remaining \in Nat /\ TakenFrom(fills, x) \in Nat /\ after[x].remaining > 0
    BY <2>1, <2>2 DEF Entry
  <2>. QED  BY <2>1, <2>2, <2>3
<1>. QED  BY <1>1, <1>2

LEMMA BookOneMore ==
  ASSUME NEW book, BookFit(book), NEW o \in Orders, o \notin DOMAIN book, NEW number \in Nat,
         \A x \in DOMAIN book : book[x].sequence < number,
         NEW entry, entry.sequence = number, entry.remaining \in 1..o.base,
         NEW more, more = With(book, o, entry)
  PROVE  /\ BookFit(more) /\ DOMAIN more = DOMAIN book \cup {o} /\ more[o] = entry
         /\ \A x \in DOMAIN book : more[x] = book[x] /\ x # o
<1>1. /\ DOMAIN more = DOMAIN book \cup {o} /\ more[o] = entry
      /\ \A x \in DOMAIN book : more[x] = book[x] /\ x # o
  BY DEF With
<1>2. IsFiniteSet(DOMAIN more)
  <2>1. IsFiniteSet(DOMAIN book)
    BY DEF BookFit
  <2>. QED  BY <1>1, <2>1, FS_AddElement
<1>3. \A x \in DOMAIN book : /\ x \in Orders /\ book[x].sequence \in Nat
                             /\ book[x].remaining \in 1..x.base
  BY DEF BookFit
<1>4. \A x \in DOMAIN more : /\ x \in Orders /\ more[x].sequence \in Nat
                             /\ more[x].remaining \in 1..x.base
  BY <1>1, <1>3
<1>5. \A x \in DOMAIN book : more[x].sequence # more[o].sequence
  <2>1. \A x \in DOMAIN book : more[x].sequence \in Nat /\ more[x].sequence < number
    BY <1>1, <1>3
  <2>. QED  BY <1>1, <2>1
<1>6. ASSUME NEW x \in DOMAIN more, NEW y \in DOMAIN more, more[x].sequence = more[y].sequence
      PROVE  x = y
  <2>1. CASE x \in DOMAIN book /\ y \in DOMAIN book
    BY <1>1, <1>6, <2>1 DEF BookFit
  <2>. QED  BY <1>1, <1>5, <1>6, <2>1
<1>. QED  BY <1>1, <1>2, <1>4, <1>6 DEF BookFit

LEMMA OrderTrades ==
  ASSUME TradeInv, NEW request \in Requests, NEW o \in Orders, NEW t \in 1..MaxTime,
         AcceptOrder(request, o, t)
  PROVE  /\ TradeInv'
         /\ \A x : /\ Traded(x) \in Nat
                   /\ Traded(x)' = Traded(x) + (IF o = x THEN Filled(RouteFor(o, t).fills)
                                                ELSE TakenFrom(RouteFor(o, t).fills, x))
<1>1. PICK route, fills : route = RouteFor(o, t) /\ fills = route.fills
  OBVIOUS
<1>2. PICK remaining, book, entry, offered :
        /\ remaining = o.base - Filled(fills)
        /\ book = AfterFills(Resting(t), fills)
        /\ entry = [sequence |-> Sequence, remaining |-> remaining]
        /\ offered = AfterFills(Live(t), fills)
  OBVIOUS
<1>3. PICK listed, nextOpen, status :
        /\ listed = With([c \in DOMAIN index |-> index[c] - TakenFrom(fills, c)], o, remaining)
        /\ nextOpen = IF Rests(o, remaining) THEN With(book, o, entry) ELSE book
        /\ status = OrderStatus(o, route, remaining)
  OBVIOUS
<1>4. PICK e : e = [taker |-> o, at |-> t, route |-> route]
  OBVIOUS
<1>5. /\ request \notin DOMAIN receipts /\ now <= t
      /\ Commit(request, t, status, listed, nextOpen, offered, epochs, cancelled)
      /\ \A c \in claimed : NonceKey(c) # NonceKey(o)
      /\ executions' = Append(executions, e)
      /\ claimed' = claimed \cup {o} /\ quoteClaims' = quoteClaims
  <2>1. t >= now /\ now \in Nat /\ t \in Nat
    BY MatcherBounds DEF AcceptOrder, EventAllowed, TradeInv, BookInv
  <2>2. request \notin DOMAIN receipts /\ \A c \in claimed : NonceKey(c) # NonceKey(o)
    BY DEF AcceptOrder, EventAllowed, Admissible, NonceFree
  <2>3. claimed' = claimed \cup {o} /\ quoteClaims' = quoteClaims
    BY DEF AcceptOrder
  <2>4. /\ Commit(request, t, status, listed, nextOpen, offered, epochs, cancelled)
        /\ executions' = Append(executions, e)
    BY <1>1, <1>2, <1>3, <1>4 DEF AcceptOrder
  <2>. QED  BY <2>1, <2>2, <2>3, <2>4
<1>6. t \in 0..MaxTime /\ t \in Nat /\ now' = t /\ now \in Nat /\ t > 0
  BY <1>5, MatcherBounds DEF Commit, TradeInv, BookInv
<1>7. BookInv'
  BY <1>6, AcceptOrderKeeps DEF TradeInv
<1>8. /\ BookFit(open) /\ LiveFit(quotes) /\ Placed(open) /\ Placed(quotes)
      /\ Balanced(open) /\ Balanced(quotes) /\ CapacityKept /\ TradesHold
  BY DEF TradeInv
<1>9. FillsFit(o, t, fills)
  BY <1>1, RouteTakes
<1>10. /\ Filled(fills) \in Nat /\ Filled(fills) <= o.base
       /\ \A x : TakenFrom(fills, x) \in Nat
       /\ \A x : x \notin DOMAIN Resting(t) \cup DOMAIN Live(t) => TakenFrom(fills, x) = 0
  BY <1>9 DEF FillsFit
<1>11. /\ BookFit(Resting(t)) /\ LiveFit(Live(t))
       /\ DOMAIN Resting(t) \subseteq DOMAIN open
       /\ \A x \in DOMAIN Resting(t) : Resting(t)[x] = open[x]
       /\ DOMAIN Live(t) \subseteq DOMAIN quotes
       /\ \A x \in DOMAIN Live(t) : Live(t)[x] = quotes[x]
  BY StandingFits
<1>12. /\ DOMAIN open \subseteq claimed /\ DOMAIN quotes \subseteq quoteClaims
       /\ o \notin claimed /\ o \notin quoteClaims
  <2>1. o \notin Quotes
    BY SignedFields
  <2>2. DOMAIN open \subseteq claimed /\ DOMAIN quotes \subseteq quoteClaims /\ quoteClaims \subseteq Quotes
    BY DEF TradeInv, BookInv, BookHolds, QuotesLive, ClaimsHeld
  <2>. QED  BY <1>5, <2>1, <2>2
<1>13. Settled(e)'
  <2>1. e.taker = o /\ e.at = t /\ e.route.fills = fills
    BY <1>1, <1>4
  <2>2. o \in claimed' /\ t \in 1..now'
    BY <1>5, <1>6
  <2>3. \A x : x \notin claimed' \cup quoteClaims' => TakenFrom(fills, x) = 0
    BY <1>5, <1>10, <1>11, <1>12
  <2>. QED  BY <1>10, <2>1, <2>2, <2>3 DEF Settled
<1>14. /\ TradesHold'
       /\ \A x : /\ Traded(x) \in Nat
                 /\ Traded(x)' = Traded(x) + (IF o = x THEN Filled(fills) ELSE TakenFrom(fills, x))
  <2>1. e.taker = o /\ e.route.fills = fills
    BY <1>1, <1>4
  <2>2. claimed \subseteq claimed' /\ quoteClaims \subseteq quoteClaims' /\ now <= now' /\ now' \in Nat
    BY <1>5, <1>6
  <2>3. /\ TradesHold'
        /\ \A x : /\ Traded(x) \in Nat
                  /\ Traded(x)' = Traded(x) + (IF e.taker = x THEN Filled(e.route.fills)
                                               ELSE TakenFrom(e.route.fills, x))
    BY <1>5, <1>6, <1>8, <1>13, <2>2, TradeAdds
  <2>. QED  BY <2>1, <2>3
<1>15. /\ \A x \in DOMAIN open : /\ Entry(open[x]) /\ open[x].remaining \in Nat
                                 /\ open[x].sequence \in Nat /\ open[x].sequence < Sequence
                                 /\ open[x].remaining = OfferAmount(x) - Traded(x)
       /\ \A x \in DOMAIN quotes : /\ Entry(quotes[x]) /\ quotes[x].remaining \in Nat
                                   /\ quotes[x].sequence \in Nat /\ quotes[x].sequence < Sequence
                                   /\ quotes[x].remaining = OfferAmount(x) - Traded(x)
       /\ Sequence \in Nat
  <2>1. Sequence \in Nat
    BY SequenceIs DEF TradeInv, BookInv
  <2>. QED  BY <1>8, <2>1, AmountsLeft DEF Placed, Balanced
<1>16. /\ DOMAIN book \subseteq DOMAIN Resting(t)
       /\ \A x \in DOMAIN book :
            /\ Entry(book[x]) /\ book[x].sequence = open[x].sequence
            /\ book[x].remaining = open[x].remaining - TakenFrom(fills, x)
            /\ book[x].remaining \in Nat /\ book[x].remaining > 0
            /\ book[x].remaining <= open[x].remaining
  <2>1. PICK whole, part : whole = open /\ part = Resting(t)
    OBVIOUS
  <2>2. /\ DOMAIN part \subseteq DOMAIN whole /\ book = AfterFills(part, fills)
        /\ \A x \in DOMAIN part : /\ part[x] = whole[x] /\ Entry(whole[x])
                                  /\ whole[x].remaining \in Nat /\ TakenFrom(fills, x) \in Nat
    BY <1>2, <1>10, <1>11, <1>15, <2>1
  <2>3. /\ DOMAIN book \subseteq DOMAIN part
        /\ \A x \in DOMAIN book :
             /\ Entry(book[x]) /\ book[x].sequence = whole[x].sequence
             /\ book[x].remaining = whole[x].remaining - TakenFrom(fills, x)
             /\ book[x].remaining \in Nat /\ book[x].remaining > 0
             /\ book[x].remaining <= whole[x].remaining
    BY <2>2, AfterRoute
  <2>. QED  BY <2>1, <2>3
<1>17. /\ DOMAIN offered \subseteq DOMAIN Live(t)
       /\ \A x \in DOMAIN offered :
            /\ Entry(offered[x]) /\ offered[x].sequence = quotes[x].sequence
            /\ offered[x].remaining = quotes[x].remaining - TakenFrom(fills, x)
            /\ offered[x].remaining \in Nat /\ offered[x].remaining > 0
            /\ offered[x].remaining <= quotes[x].remaining
  <2>1. PICK whole, part : whole = quotes /\ part = Live(t)
    OBVIOUS
  <2>2. /\ DOMAIN part \subseteq DOMAIN whole /\ offered = AfterFills(part, fills)
        /\ \A x \in DOMAIN part : /\ part[x] = whole[x] /\ Entry(whole[x])
                                  /\ whole[x].remaining \in Nat /\ TakenFrom(fills, x) \in Nat
    BY <1>2, <1>10, <1>11, <1>15, <2>1
  <2>3. /\ DOMAIN offered \subseteq DOMAIN part
        /\ \A x \in DOMAIN offered :
             /\ Entry(offered[x]) /\ offered[x].sequence = whole[x].sequence
             /\ offered[x].remaining = whole[x].remaining - TakenFrom(fills, x)
             /\ offered[x].remaining \in Nat /\ offered[x].remaining > 0
             /\ offered[x].remaining <= whole[x].remaining
    BY <2>2, AfterRoute
  <2>. QED  BY <2>1, <2>3
<1>18. BookFit(book)
  <2>1. DOMAIN book \subseteq DOMAIN open
    BY <1>11, <1>16
  <2>. QED  BY <1>8, <1>16, <2>1, BookPart
<1>19. LiveFit(offered)
  <2>1. DOMAIN offered \subseteq DOMAIN quotes
    BY <1>11, <1>17
  <2>. QED  BY <1>8, <1>17, <2>1, LivePart
<1>20. \A x \in DOMAIN book : /\ Entry(book[x]) /\ book[x].sequence < Sequence
                              /\ book[x].remaining = OfferAmount(x) - Traded(x)'
  <2>. SUFFICES ASSUME NEW x \in DOMAIN book
                PROVE  /\ Entry(book[x]) /\ book[x].sequence < Sequence
                       /\ book[x].remaining = OfferAmount(x) - Traded(x)'
    OBVIOUS
  <2>1. x \in DOMAIN open /\ x # o
    BY <1>11, <1>12, <1>16
  <2>2. Traded(x)' = Traded(x) + TakenFrom(fills, x) /\ Traded(x) \in Nat /\ TakenFrom(fills, x) \in Nat
    BY <1>10, <1>14, <2>1
  <2>3. open[x].remaining = OfferAmount(x) - Traded(x) /\ open[x].remaining \in Nat
    BY <1>15, <2>1
  <2>4. OfferAmount(x) \in Nat
    BY <1>8, <2>1, SignedFields DEF OfferAmount, BookFit
  <2>. QED  BY <1>15, <1>16, <2>1, <2>2, <2>3, <2>4
<1>21. \A x \in DOMAIN offered : /\ Entry(offered[x]) /\ offered[x].sequence <= Sequence
                                 /\ offered[x].remaining = OfferAmount(x) - Traded(x)'
  <2>. SUFFICES ASSUME NEW x \in DOMAIN offered
                PROVE  /\ Entry(offered[x]) /\ offered[x].sequence <= Sequence
                       /\ offered[x].remaining = OfferAmount(x) - Traded(x)'
    OBVIOUS
  <2>1. x \in DOMAIN quotes /\ x # o
    BY <1>11, <1>12, <1>17
  <2>2. Traded(x)' = Traded(x) + TakenFrom(fills, x) /\ Traded(x) \in Nat /\ TakenFrom(fills, x) \in Nat
    BY <1>10, <1>14, <2>1
  <2>3. quotes[x].remaining = OfferAmount(x) - Traded(x) /\ quotes[x].remaining \in Nat
    BY <1>15, <2>1
  <2>4. OfferAmount(x) \in Nat
    BY <1>8, <2>1, SignedFields DEF OfferAmount, LiveFit
  <2>. QED  BY <1>15, <1>17, <2>1, <2>2, <2>3, <2>4
<1>22. /\ BookFit(nextOpen)
       /\ \A x \in DOMAIN nextOpen : /\ Entry(nextOpen[x]) /\ nextOpen[x].sequence <= Sequence
                                     /\ nextOpen[x].remaining = OfferAmount(x) - Traded(x)'
  <2>1. \A x \in DOMAIN book : book[x].sequence \in Nat
    BY <1>18 DEF BookFit
  <2>2. CASE Rests(o, remaining)
    <3>1. /\ entry.sequence = Sequence /\ entry.remaining = remaining
          /\ remaining \in 1..o.base /\ Entry(entry)
      <4>1. o.base \in Nat /\ remaining > 0
        BY <2>2, SignedFields DEF Rests
      <4>2. entry.sequence = Sequence /\ entry.remaining = remaining /\ DOMAIN entry = {"sequence", "remaining"}
        BY <1>2
      <4>3. remaining \in 1..o.base
        BY <1>2, <1>10, <4>1
      <4>. QED  BY <4>1, <4>2, <4>3 DEF Entry
    <3>2. o \notin DOMAIN book
      BY <1>11, <1>12, <1>16
    <3>3. nextOpen = With(book, o, entry)
      BY <1>3, <2>2
    <3>4. /\ BookFit(nextOpen) /\ DOMAIN nextOpen = DOMAIN book \cup {o} /\ nextOpen[o] = entry
          /\ \A x \in DOMAIN book : nextOpen[x] = book[x] /\ x # o
      <4>1. \A x \in DOMAIN book : book[x].sequence < Sequence
        BY <1>20
      <4>2. PICK number \in Nat : number = Sequence
        BY <1>15
      <4>. QED  BY <1>18, <3>1, <3>2, <3>3, <4>1, <4>2, BookOneMore
    <3>5. entry.remaining = OfferAmount(o) - Traded(o)'
      <4>1. Traded(o) = 0
        BY <1>8, <1>12, TradedIs
      <4>2. Traded(o)' = Filled(fills)
        BY <1>10, <1>14, <4>1
      <4>. QED  BY <1>2, <3>1, <4>2 DEF OfferAmount
    <3>. QED  BY <1>15, <1>20, <2>1, <3>1, <3>4, <3>5
  <2>3. CASE ~ Rests(o, remaining)
    <3>1. nextOpen = book
      BY <1>3, <2>3
    <3>. QED  BY <1>15, <1>18, <1>20, <2>1, <3>1
  <2>. QED  BY <2>2, <2>3
<1>23. CapacityKept'
  <2>1. /\ DOMAIN quotes' \subseteq DOMAIN offered
        /\ \A r \in DOMAIN quotes' : quotes'[r] = offered[r]
    <3>1. PICK lifecycle : lifecycle = [epochs |-> epochs, cancelled |-> cancelled]
      OBVIOUS
    <3>2. quotes' = PruneQuotes(offered, t, lifecycle)
      BY <1>5, <3>1 DEF Commit
    <3>. QED  BY <3>2 DEF PruneQuotes, Restrict
  <2>. SUFFICES ASSUME NEW r \in DOMAIN quotes' PROVE CapacityOf(r.maker, quotes') <= MaxCapacity
    BY DEF CapacityKept
  <2>2. PICK before, after : before = quotes /\ after = quotes'
    OBVIOUS
  <2>3. IsFiniteSet(DOMAIN before)
    BY <1>8, <2>2 DEF LiveFit
  <2>4. /\ DOMAIN after \subseteq DOMAIN before
        /\ \A s \in DOMAIN after : after[s].remaining \in Nat /\ after[s].remaining <= before[s].remaining
        /\ \A s \in DOMAIN before : before[s].remaining \in Nat
    BY <1>11, <1>15, <1>17, <2>1, <2>2
  <2>5. /\ CapacityOf(r.maker, after) \in Nat /\ CapacityOf(r.maker, before) \in Nat
        /\ CapacityOf(r.maker, after) <= CapacityOf(r.maker, before)
    BY <2>3, <2>4, CapacityLess
  <2>6. CapacityOf(r.maker, before) <= MaxCapacity
    BY <1>8, <2>2, <2>4 DEF CapacityKept
  <2>. QED  BY <2>2, <2>5, <2>6, MatcherBounds
<1>24. /\ \A account \in Accounts : epochs[account] <= MaxEpoch
       /\ cancelled \subseteq {NonceKey(p) : p \in claimed'}
  BY <1>5 DEF TradeInv, Bounded
<1>25. TradeInv'
  BY <1>5, <1>6, <1>7, <1>14, <1>19, <1>21, <1>22, <1>23, <1>24, CommitTrades
<1>. QED  BY <1>1, <1>14, <1>25

-----------------------------------------------------------------------------
LEMMA TradeStep ==
  ASSUME TradeInv, [MatcherNext]_matcherVars
  PROVE  TradeInv'
<1>1. CASE MatcherNext
  <2>1. PICK request \in Requests :
          \/ Cutover(request)
          \/ \E t \in 1..MaxTime :
                \/ \E o \in Orders : AcceptOrder(request, o, t)
                \/ \E o \in DOMAIN index : CancelOrder(request, o, t)
                \/ \E account \in Accounts, e \in 1..MaxEpoch : AdvanceEpoch(request, account, e, t)
                \/ \E q \in Quotes : AcceptSolverQuote(request, q, t)
                \/ \E q \in DOMAIN quotes : CancelSolverQuote(request, q, t)
    BY <1>1 DEF MatcherNext, MatcherEvent
  <2>. QED  BY <2>1, CutoverTrades, OrderTrades, CancelTrades, AdvanceTrades, QuoteTrades,
                CancelQuoteTrades
<1>2. CASE UNCHANGED matcherVars
  <2>1. /\ UNCHANGED <<now, epochs, cancelled, claimed, index, open, quotes>>
        /\ UNCHANGED <<withdrawn, quoteClaims, signers, executions, receipts>>
    BY <1>2 DEF matcherVars, bookVars, quoteVars
  <2>2. BookInv'
    BY <1>2, BookStep DEF TradeInv
  <2>3. Bounded'
    BY <2>1 DEF TradeInv, Bounded
  <2>4. TradesHold' /\ \A x : Traded(x)' = Traded(x)
    <3>1. now' \in Nat /\ now <= now' /\ claimed \subseteq claimed' /\ quoteClaims \subseteq quoteClaims'
      BY <2>1 DEF TradeInv, BookInv
    <3>2. TradesHold /\ now \in Nat
      BY DEF TradeInv, BookInv
    <3>. QED  BY <2>1, <3>1, <3>2, NothingTraded
  <2>5. Sequence' = Sequence
    BY <2>1 DEF Sequence
  <2>6. BookFit(open)' /\ LiveFit(quotes)' /\ Placed(open)' /\ Placed(quotes)'
    BY <2>1, <2>5 DEF TradeInv, Placed
  <2>7. Balanced(open)' /\ Balanced(quotes)'
    BY <2>1, <2>4 DEF TradeInv, Balanced
  <2>8. CapacityKept'
    BY <2>1 DEF TradeInv, CapacityKept
  <2>. QED  BY <2>2, <2>3, <2>4, <2>6, <2>7, <2>8 DEF TradeInv
<1>. QED  BY <1>1, <1>2

LEMMA TradeFirst == MatcherInit => TradeInv
<1>. SUFFICES ASSUME MatcherInit PROVE TradeInv
  OBVIOUS
<1>1. /\ now = 0 /\ epochs = [a \in Accounts |-> 0] /\ cancelled = {}
      /\ open = <<>> /\ quotes = <<>> /\ executions = <<>> /\ receipts = <<>>
  BY DEF MatcherInit
<1>2. DOMAIN open = {} /\ DOMAIN quotes = {} /\ DOMAIN executions = {} /\ DOMAIN receipts = {}
  BY <1>1
<1>3. BookInv
  BY BookFirst
<1>4. Bounded
  BY <1>1, <1>2, MatcherBounds DEF Bounded
<1>5. BookFit(open) /\ LiveFit(quotes) /\ Placed(open) /\ Placed(quotes)
  BY <1>2, FS_EmptySet DEF BookFit, LiveFit, Placed
<1>6. Balanced(open) /\ Balanced(quotes) /\ CapacityKept
  BY <1>2 DEF Balanced, CapacityKept
<1>7. TradesHold
  BY <1>1, <1>2 DEF TradesHold
<1>. QED  BY <1>3, <1>4, <1>5, <1>6, <1>7 DEF TradeInv

LEMMA TradeAlways == MatcherSpec => []TradeInv
<1>. QED  BY TradeFirst, TradeStep, PTL DEF MatcherSpec

LEMMA MatcherTyped ==
  ASSUME TradeInv
  PROVE  MatcherTypeOK
<1>1. BookInv /\ Bounded /\ BookFit(open) /\ LiveFit(quotes) /\ TradesHold
  BY DEF TradeInv
<1>2. now \in 0..MaxTime /\ epochs \in [Accounts -> 0..MaxEpoch]
  <2>1. now \in Nat /\ now <= MaxTime /\ MaxTime \in Nat /\ MaxEpoch \in Nat
    BY <1>1, MatcherBounds DEF BookInv, Bounded
  <2>2. epochs \in [Accounts -> Nat] /\ \A account \in Accounts : epochs[account] <= MaxEpoch
    BY <1>1 DEF BookInv, Bounded
  <2>3. \A account \in Accounts : epochs[account] \in 0..MaxEpoch
    BY <2>1, <2>2
  <2>. QED  BY <2>1, <2>2, <2>3
<1>3. /\ claimed \subseteq Orders /\ quoteClaims \subseteq Quotes /\ withdrawn \subseteq quoteClaims
      /\ signers \in [Accounts -> Signers \cup {None}]
  BY <1>1 DEF BookInv, ClaimsHeld
<1>4. DOMAIN open \subseteq claimed /\ DOMAIN quotes \subseteq quoteClaims
  BY <1>1 DEF BookInv, BookHolds, QuotesLive
<1>5. /\ \A o \in DOMAIN open : open[o].remaining \in 1..o.base
      /\ \A q \in DOMAIN quotes : quotes[q].remaining \in 1..q.capacity
  BY <1>1 DEF BookFit, LiveFit
<1>6. DOMAIN index \subseteq DOMAIN open /\ \A o \in DOMAIN index : index[o] = open[o].remaining
  BY <1>1 DEF BookInv, IndexIsLiveBook, Resting, Restrict
<1>7. cancelled \subseteq {NonceKey(o) : o \in claimed} /\ DOMAIN receipts \subseteq Requests
  BY <1>1 DEF Bounded
<1>8. \A e \in Range(executions) : e.taker \in claimed /\ e.at \in 1..now
  BY <1>1 DEF TradesHold, Settled, Range
<1>. QED  BY <1>2, <1>3, <1>4, <1>5, <1>6, <1>7, <1>8 DEF MatcherTypeOK

(* Whatever orders, quotes and prices are signed, routing never selects    *)
(* what the matcher then cannot apply: an order that may be accepted is    *)
(* never refused for the counterparties routing found, what remains of     *)
(* each stays within what was signed, and no account offers more than its  *)
(* capacity (persistent-matcher.ts, matcher-routing.ts).                   *)
THEOREM RoutesAreConsumable == MatcherSpec => []RouteConsumable
<1>1. TradeInv => RouteConsumable
  <2>. SUFFICES ASSUME TradeInv PROVE RouteConsumable
    OBVIOUS
  <2>1. ASSUME NEW o \in Orders, NEW t \in now..MaxTime PROVE Consumable(RouteFor(o, t), t)
    <3>1. PICK route : route = RouteFor(o, t)
      OBVIOUS
    <3>2. now \in Nat /\ t \in Nat /\ now <= t
      BY MatcherBounds DEF TradeInv, BookInv
    <3>3. FillsFit(o, t, route.fills) /\ FillsStand(t, route.fills)
      BY <3>1, RouteTakes
    <3>4. /\ DOMAIN Resting(t) = {p \in DOMAIN open : ActiveOrder(p, t, Lifecycle)}
          /\ \A p \in DOMAIN Resting(t) : Resting(t)[p] = open[p]
          /\ DOMAIN Live(t) = {q \in DOMAIN quotes : ActiveQuote(q, t, Lifecycle)}
          /\ \A q \in DOMAIN Live(t) : Live(t)[q] = quotes[q]
      BY StandingFits
    <3>5. ASSUME NEW s \in {f.segment : f \in Range(route.fills)}, s.venue = "book"
          PROVE  s.of \in DOMAIN index /\ TakenFrom(route.fills, s.of) <= Resting(t)[s.of].remaining
      <4>1. s.of \in DOMAIN Resting(t)
        BY <3>3, <3>5 DEF FillsStand
      <4>2. s.of \in DOMAIN open /\ ActiveOrder(s.of, t, Lifecycle) /\ Resting(t)[s.of] = open[s.of]
        BY <3>4, <4>1
      <4>3. TakenFrom(route.fills, s.of) <= open[s.of].remaining
        BY <3>3, <4>1 DEF FillsFit
      <4>4. s.of \in DOMAIN index
        <5>1. Lifecycle.epochs = epochs /\ Lifecycle.cancelled = cancelled
          BY DEF Lifecycle
        <5>. QED  BY <3>2, <4>2, <5>1, ListedBefore DEF TradeInv
      <4>. QED  BY <4>2, <4>3, <4>4
    <3>6. ASSUME NEW s \in {f.segment : f \in Range(route.fills)}, s.venue # "book"
          PROVE  TakenFrom(route.fills, s.of)
                   \in s.of.minimum..Live(t)[s.of].remaining \cup {Live(t)[s.of].remaining}
      <4>1. /\ s.of \in DOMAIN Live(t)
            /\ \/ s.of.minimum <= TakenFrom(route.fills, s.of)
               \/ TakenFrom(route.fills, s.of) = quotes[s.of].remaining
        BY <3>3, <3>6 DEF FillsStand
      <4>2. Live(t)[s.of] = quotes[s.of] /\ s.of \in DOMAIN quotes
        BY <3>4, <4>1
      <4>3. TakenFrom(route.fills, s.of) <= quotes[s.of].remaining /\ TakenFrom(route.fills, s.of) \in Nat
        BY <3>3, <4>1 DEF FillsFit
      <4>4. quotes[s.of].remaining \in Nat
        BY <4>2, AmountsLeft DEF TradeInv
      <4>5. s.of.minimum \in Nat
        BY <4>2, SignedFields DEF TradeInv, LiveFit
      <4>. QED  BY <4>1, <4>2, <4>3, <4>4, <4>5
    <3>. QED  BY <3>1, <3>5, <3>6 DEF Consumable
  <2>2. CapacityKept
    BY DEF TradeInv
  <2>. QED  BY <2>1, <2>2, MatcherTyped DEF RouteConsumable
<1>. QED  BY <1>1, TradeAlways, PTL

-----------------------------------------------------------------------------
(* The promise, event by event. *)

LEMMA PromiseSums ==
  ASSUME NEW f, NEW S
  PROVE  Promise!SumOver(f, S) = SumOver(f, S)
BY DEF Promise!SumOver, SumOver, MapThenSumSet, MapThenFoldSet,
       Promise!MapThenSumSet, Promise!MapThenFoldSet

\* What stands was admitted, is not used up and may rest.
LeftStanding ==
  /\ Standing \subseteq Admitted /\ Admitted \subseteq Orders \cup Quotes
  /\ \A x \in Standing : /\ Traded(x) # OfferAmount(x)
                         /\ x \in Orders => x.tif = "gtc"

LEMMA StandingLeft == TradeInv => LeftStanding
<1>. SUFFICES ASSUME TradeInv PROVE LeftStanding
  OBVIOUS
<1>1. /\ DOMAIN Resting(now) \subseteq DOMAIN open /\ DOMAIN Live(now) \subseteq DOMAIN quotes
  BY StandingFits
<1>2. /\ DOMAIN open \subseteq claimed /\ DOMAIN quotes \subseteq quoteClaims
      /\ claimed \subseteq Orders /\ quoteClaims \subseteq Quotes
      /\ \A o \in DOMAIN open : o.tif = "gtc"
  BY DEF TradeInv, BookInv, BookHolds, QuotesLive, ClaimsHeld
<1>3. Standing \subseteq Admitted /\ Admitted \subseteq Orders \cup Quotes
  BY <1>1, <1>2 DEF Standing, Admitted
<1>4. ASSUME NEW x \in Standing
      PROVE  Traded(x) # OfferAmount(x) /\ (x \in Orders => x.tif = "gtc")
  <2>1. x \in DOMAIN open \/ x \in DOMAIN quotes
    BY <1>1, <1>4 DEF Standing
  <2>2. Traded(x) \in Nat
    BY TradedIs DEF TradeInv
  <2>3. CASE x \in DOMAIN open
    <3>1. /\ open[x].remaining = OfferAmount(x) - Traded(x)
          /\ open[x].remaining \in Nat /\ open[x].remaining > 0
      BY <2>3, AmountsLeft DEF TradeInv, Balanced
    <3>. QED  BY <1>2, <2>2, <2>3, <3>1
  <2>4. CASE x \in DOMAIN quotes
    <3>1. /\ quotes[x].remaining = OfferAmount(x) - Traded(x)
          /\ quotes[x].remaining \in Nat /\ quotes[x].remaining > 0 /\ x \notin Orders
      BY <2>4, AmountsLeft DEF TradeInv, Balanced
    <3>. QED  BY <2>2, <3>1
  <2>. QED  BY <2>1, <2>3, <2>4
<1>. QED  BY <1>3, <1>4 DEF LeftStanding

LEMMA StandingLeftNext == TradeInv' => LeftStanding'
BY StandingLeft, PTL

(* An event that admits and trades nothing can only end what stands.       *)
LEMMA QuietWithdraws ==
  ASSUME BookInv, BookInv', MatcherNext, LeftStanding, LeftStanding',
         Admitted' = Admitted, \A x : Traded(x)' = Traded(x)
  PROVE  Promise!Withdraw
<1>1. PICK gone : gone = Standing \ Standing'
  OBVIOUS
<1>2. \A x \in Admitted \ Standing : x \in Admitted' \ Standing'
  BY StaysGone
<1>3. Standing \subseteq Admitted /\ Standing' \subseteq Admitted'
  BY DEF LeftStanding
<1>4. gone \in SUBSET Standing /\ Standing' = Standing \ gone
  BY <1>1, <1>2, <1>3
<1>5. Admitted' \ Standing' = (Admitted \ Standing) \cup gone
  BY <1>1, <1>2, <1>3
<1>6. [x \in Orders \cup Quotes |-> Traded(x)]' = [x \in Orders \cup Quotes |-> Traded(x)]
  OBVIOUS
<1>. QED  BY <1>4, <1>5, <1>6 DEF Promise!Withdraw, Admitted

(* An offer that trades with what stands, within what is left of it.       *)
LEMMA AdmitsOffer ==
  ASSUME BookInv, BookInv', MatcherNext, LeftStanding, LeftStanding',
         NEW o \in (Orders \cup Quotes) \ Admitted, Admitted' = Admitted \cup {o},
         \A x \in Admitted : OfferNonce(x) # OfferNonce(o),
         OfferAmount(o) \in Nat,
         NEW with \in SUBSET Standing, OfferTif(o) = "quote" => with = {},
         NEW take \in [with -> 1..OfferAmount(o)],
         NEW total \in Nat, total = SumOver(take, with), total <= OfferAmount(o),
         OfferTif(o) = "fok" => total \in {0, OfferAmount(o)},
         \A x \in with : /\ x.maker # o.maker /\ OfferMayTrade(o, x)
                         /\ take[x] <= OfferAmount(x) - Traded(x)
                         /\ OfferAmount(x) \in Nat /\ Traded(x) \in Nat,
         \A x \in Orders \cup Quotes :
            Traded(x)' = IF x = o THEN total
                         ELSE IF x \in with THEN Traded(x) + take[x] ELSE Traded(x)
  PROVE  Promise!Admit
<1>1. PICK stays \in BOOLEAN : stays <=> o \in Standing'
  <2>1. CASE o \in Standing'
    BY <2>1, Zenon
  <2>2. CASE o \notin Standing'
    BY <2>2, Zenon
  <2>. QED  BY <2>1, <2>2, Zenon
<1>2. PICK gone : gone = Standing \ Standing'
  OBVIOUS
<1>3. \A x \in Admitted \ Standing : x \in Admitted' \ Standing'
  BY StaysGone
<1>4. Standing \subseteq Admitted /\ Standing' \subseteq Admitted' /\ o \notin Admitted
  BY DEF LeftStanding
<1>5. gone \in SUBSET Standing /\ Standing' \ {o} = Standing \ gone /\ o \notin Standing
  BY <1>2, <1>3, <1>4
<1>6. Standing' = (Standing \ gone) \cup (IF stays THEN {o} ELSE {})
  BY <1>1, <1>5
<1>7. Admitted' \ Standing' = (Admitted \ Standing) \cup gone \cup (IF stays THEN {} ELSE {o})
  <2>1. CASE stays
    BY <1>1, <1>2, <1>3, <1>4, <2>1
  <2>2. CASE ~stays
    BY <1>1, <1>2, <1>3, <1>4, <2>2
  <2>. QED  BY <2>1, <2>2
<1>8. {x \in with : take[x] = OfferAmount(x) - Traded(x)} \subseteq gone
  <2>. SUFFICES ASSUME NEW x \in with, take[x] = OfferAmount(x) - Traded(x) PROVE x \in gone
    OBVIOUS
  <2>1. x \in Standing /\ x \in Admitted /\ x # o /\ x \in Orders \cup Quotes
    BY <1>4 DEF LeftStanding
  <2>2. Traded(x)' = Traded(x) + take[x] /\ OfferAmount(x) \in Nat /\ Traded(x) \in Nat
    BY <2>1
  <2>3. Traded(x)' = OfferAmount(x)
    BY <2>2
  <2>4. x \notin Standing'
    BY <2>3 DEF LeftStanding, OfferAmount
  <2>. QED  BY <1>2, <2>1, <2>4
<1>9. stays => OfferTif(o) \in {"gtc", "quote"} /\ total < OfferAmount(o)
  <2>. SUFFICES ASSUME stays PROVE OfferTif(o) \in {"gtc", "quote"} /\ total < OfferAmount(o)
    OBVIOUS
  <2>1. o \in Standing'
    BY <1>1
  <2>2. Traded(o)' # OfferAmount(o) /\ (o \in Orders => o.tif = "gtc")
    BY <2>1 DEF LeftStanding, OfferAmount
  <2>3. Traded(o)' = total
    OBVIOUS
  <2>4. OfferTif(o) \in {"gtc", "quote"}
    BY <2>2 DEF OfferTif
  <2>. QED  BY <2>2, <2>3, <2>4
<1>10. PICK before, after : /\ before = [x \in Orders \cup Quotes |-> Traded(x)]
                            /\ after = [x \in Orders \cup Quotes |-> Traded(x)]'
  OBVIOUS
<1>11. /\ \A x \in Orders \cup Quotes : before[x] = Traded(x)
       /\ after = [x \in Orders \cup Quotes |-> IF x = o THEN total
                                                ELSE IF x \in with THEN before[x] + take[x]
                                                ELSE before[x]]
  BY <1>10
<1>12. \A x \in with : x \in Orders \cup Quotes
  BY <1>4 DEF LeftStanding
<1>13. Standing \cup (Admitted \ Standing) = Admitted /\ o \in Standing' \cup (Admitted' \ Standing')
  BY <1>4
<1>14. Promise!AdmitOffer(o, with, take, stays)
  <2>1. total = Promise!SumOver(take, with)
    BY PromiseSums
  <2>2. total \in 0..OfferAmount(o)
    OBVIOUS
  <2>3. \A x \in with : /\ x.maker # o.maker /\ OfferMayTrade(o, x)
                        /\ take[x] <= OfferAmount(x) - before[x]
    BY <1>11, <1>12
  <2>4. {x \in with : take[x] = OfferAmount(x) - before[x]} \subseteq gone
    BY <1>8, <1>11, <1>12
  <2>5. \A x \in Standing \cup (Admitted \ Standing) : OfferNonce(x) # OfferNonce(o)
    BY <1>13
  <2>6. /\ o \in Promise!Seen' /\ \A x \in Promise!Seen : OfferNonce(x) # OfferNonce(o)
    BY <1>13, <2>5 DEF Promise!Seen, Admitted
  <2>7. \E g \in SUBSET Standing :
           /\ {x \in with : take[x] = Promise!Left(x)} \subseteq g
           /\ Standing' = (Standing \ g) \cup (IF stays THEN {o} ELSE {})
           /\ ((claimed \cup quoteClaims) \ Standing)'
                = ((claimed \cup quoteClaims) \ Standing) \cup g \cup (IF stays THEN {} ELSE {o})
    BY <1>5, <1>6, <1>7, <1>10, <2>4 DEF Promise!Left, Admitted
  <2>8. \A x \in with : /\ OfferOwner(x) # OfferOwner(o)
                        /\ OfferMayTrade(o, x)
                        /\ take[x] <= Promise!Left(x)
    BY <1>10, <2>3 DEF Promise!Left, OfferOwner
  <2>9. [x \in Orders \cup Quotes |-> Traded(x)]'
          = [x \in Orders \cup Quotes |-> IF x = o THEN total
                                          ELSE IF x \in with
                                            THEN [y \in Orders \cup Quotes |-> Traded(y)][x] + take[x]
                                          ELSE [y \in Orders \cup Quotes |-> Traded(y)][x]]
    BY <1>10, <1>11
  <2>. QED  BY <1>9, <2>1, <2>2, <2>6, <2>7, <2>8, <2>9 DEF Promise!AdmitOffer
<1>15. o \in (Orders \cup Quotes) \ Promise!Seen
  BY <1>13 DEF Promise!Seen, Admitted
<1>. QED  BY <1>14, <1>15 DEF Promise!Admit

-----------------------------------------------------------------------------
LEMMA QuoteAdmits ==
  ASSUME TradeInv, TradeInv', MatcherNext, NEW request \in Requests, NEW q \in Quotes,
         NEW t \in 1..MaxTime, AcceptSolverQuote(request, q, t)
  PROVE  Promise!Admit
<1>1. /\ quoteClaims' = quoteClaims \cup {q} /\ claimed' = claimed
      /\ \A c \in quoteClaims : NonceKey(c) # NonceKey(q)
  BY DEF AcceptSolverQuote
<1>2. BookInv /\ BookInv' /\ LeftStanding /\ LeftStanding'
  BY StandingLeft, StandingLeftNext DEF TradeInv
<1>3. q \notin Orders /\ q \in (Orders \cup Quotes)
  BY SignedFields
<1>4. claimed \subseteq Orders /\ quoteClaims \subseteq Quotes /\ Orders \cap Quotes = {}
  BY <1>2, SignedFields DEF BookInv, ClaimsHeld
<1>5. q \in (Orders \cup Quotes) \ Admitted /\ Admitted' = Admitted \cup {q}
  BY <1>1, <1>3, <1>4 DEF Admitted
<1>6. \A x \in Admitted : OfferNonce(x) # OfferNonce(q)
  <2>. SUFFICES ASSUME NEW x \in Admitted PROVE OfferNonce(x) # OfferNonce(q)
    OBVIOUS
  <2>1. PICK quote, other \in BOOLEAN : (quote <=> q \in Orders) /\ (other <=> x \in Orders)
    <3>1. CASE x \in Orders
      BY <1>3, <3>1, Zenon
    <3>2. CASE x \notin Orders
      BY <1>3, <3>2, Zenon
    <3>. QED  BY <3>1, <3>2, Zenon
  <2>. QED  BY <1>1, <1>3, <1>4 DEF OfferNonce, Admitted
<1>7. OfferAmount(q) \in Nat /\ OfferTif(q) = "quote"
  BY <1>3, SignedFields DEF OfferAmount, OfferTif
<1>8. PICK with, take, total : with = {} /\ take = [x \in {} |-> 0] /\ total = 0
  OBVIOUS
<1>9. /\ with \in SUBSET Standing /\ take \in [with -> 1..OfferAmount(q)]
      /\ total \in Nat /\ total = SumOver(take, with) /\ total <= OfferAmount(q)
      /\ total \in {0, OfferAmount(q)}
  <2>1. SumOver(take, with) = 0
    BY <1>8, SumEmpty
  <2>. QED  BY <1>7, <1>8, <2>1
<1>10. \A x \in Orders \cup Quotes :
          Traded(x)' = IF x = q THEN total
                       ELSE IF x \in with THEN Traded(x) + take[x] ELSE Traded(x)
  <2>1. \A x : Traded(x)' = Traded(x)
    BY QuoteTrades
  <2>2. Traded(q) = 0
    BY <1>5, TradedIs DEF TradeInv, Admitted
  <2>. QED  BY <1>8, <2>1, <2>2
<1>11. \A x \in with : FALSE
  BY <1>8
<1>12. \A x \in with : /\ x.maker # q.maker /\ OfferMayTrade(q, x)
                       /\ take[x] <= OfferAmount(x) - Traded(x)
                       /\ OfferAmount(x) \in Nat /\ Traded(x) \in Nat
  BY <1>11
<1>13. OfferTif(q) = "fok" => total \in {0, OfferAmount(q)}
  BY <1>9
<1>. QED  BY <1>2, <1>5, <1>6, <1>7, <1>8, <1>9, <1>10, <1>12, <1>13, AdmitsOffer

LEMMA OrderAdmits ==
  ASSUME TradeInv, MatcherNext, NEW request \in Requests, NEW o \in Orders,
         NEW t \in 1..MaxTime, AcceptOrder(request, o, t)
  PROVE  Promise!Admit
<1>1. PICK route, fills : route = RouteFor(o, t) /\ fills = route.fills
  OBVIOUS
<1>2. /\ TradeInv'
      /\ \A x : /\ Traded(x) \in Nat
                /\ Traded(x)' = Traded(x) + (IF o = x THEN Filled(fills) ELSE TakenFrom(fills, x))
  BY <1>1, OrderTrades
<1>3. BookInv /\ BookInv' /\ LeftStanding /\ LeftStanding'
  BY <1>2, StandingLeft, StandingLeftNext DEF TradeInv
<1>4. /\ claimed' = claimed \cup {o} /\ quoteClaims' = quoteClaims
      /\ \A c \in claimed : NonceKey(c) # NonceKey(o)
      /\ now <= t
  <2>1. claimed' = claimed \cup {o} /\ quoteClaims' = quoteClaims
    BY DEF AcceptOrder
  <2>2. (\A c \in claimed : NonceKey(c) # NonceKey(o)) /\ t >= now
    BY DEF AcceptOrder, EventAllowed, Admissible, NonceFree
  <2>3. now \in Nat /\ t \in Nat
    BY <1>3, MatcherBounds DEF BookInv
  <2>. QED  BY <2>1, <2>2, <2>3
<1>5. /\ claimed \subseteq Orders /\ quoteClaims \subseteq Quotes /\ Orders \cap Quotes = {}
      /\ DOMAIN open \subseteq claimed /\ DOMAIN quotes \subseteq quoteClaims
  BY <1>3, SignedFields DEF BookInv, ClaimsHeld, BookHolds, QuotesLive
<1>6. o \in (Orders \cup Quotes) \ Admitted /\ Admitted' = Admitted \cup {o}
  BY <1>4, <1>5 DEF Admitted
<1>7. \A x \in Admitted : OfferNonce(x) # OfferNonce(o)
  <2>. SUFFICES ASSUME NEW x \in Admitted PROVE OfferNonce(x) # OfferNonce(o)
    OBVIOUS
  <2>1. PICK order, other \in BOOLEAN : (order <=> o \in Orders) /\ (other <=> x \in Orders)
    <3>1. CASE x \in Orders
      BY <3>1, Zenon
    <3>2. CASE x \notin Orders
      BY <3>2, Zenon
    <3>. QED  BY <3>1, <3>2, Zenon
  <2>2. x \in claimed \/ x \notin Orders
    BY <1>5 DEF Admitted
  <2>. QED  BY <1>4, <2>2 DEF OfferNonce
<1>8. OfferAmount(o) = o.base /\ o.base \in Nat /\ OfferTif(o) = o.tif /\ OfferTif(o) # "quote"
  BY SignedFields DEF OfferAmount, OfferTif
<1>9. FillsFit(o, t, fills) /\ FillsAddUp(t, fills)
  BY <1>1, RouteTakes
<1>10. PICK all : all = DOMAIN Resting(t) \cup DOMAIN Live(t)
  OBVIOUS
<1>11. /\ DOMAIN Resting(t) = {p \in DOMAIN open : ActiveOrder(p, t, Lifecycle)}
       /\ DOMAIN Live(t) = {q \in DOMAIN quotes : ActiveQuote(q, t, Lifecycle)}
  BY StandingFits
<1>12. all \subseteq Standing
  <2>1. now \in Nat /\ t \in Nat
    BY <1>3, MatcherBounds DEF BookInv
  <2>2. DOMAIN Resting(now) = {p \in DOMAIN open : ActiveOrder(p, now, Lifecycle)}
        /\ DOMAIN Live(now) = {q \in DOMAIN quotes : ActiveQuote(q, now, Lifecycle)}
    BY StandingFits
  <2>3. ASSUME NEW p \in DOMAIN Resting(t) PROVE p \in DOMAIN Resting(now)
    <3>1. p \in DOMAIN open /\ p \in Orders /\ ActiveOrder(p, t, Lifecycle)
      BY <1>5, <1>11
    <3>2. ActiveOrder(p, now, Lifecycle)
      BY <1>4, <2>1, <3>1, ActiveBefore
    <3>. QED  BY <2>2, <3>1, <3>2
  <2>4. ASSUME NEW q \in DOMAIN Live(t) PROVE q \in DOMAIN Live(now)
    <3>1. q \in DOMAIN quotes
      BY <1>11
    <3>2. ActiveQuote(q, now, Lifecycle)
      BY <1>3, <3>1 DEF BookInv, QuotesLive
    <3>. QED  BY <2>2, <3>1, <3>2
  <2>. QED  BY <1>10, <2>3, <2>4 DEF Standing
<1>13. IsFiniteSet(all)
  <2>1. IsFiniteSet(DOMAIN Resting(t)) /\ IsFiniteSet(DOMAIN Live(t))
    BY StandingFits DEF BookFit, LiveFit
  <2>. QED  BY <1>10, <2>1, FS_Union
<1>14. PICK with : with = {x \in all : TakenFrom(fills, x) > 0}
  OBVIOUS
<1>15. PICK take : take = [x \in with |-> TakenFrom(fills, x)]
  OBVIOUS
<1>16. /\ Filled(fills) \in Nat /\ Filled(fills) <= o.base
       /\ o.tif = "fok" => Filled(fills) \in {0, o.base}
       /\ \A x : TakenFrom(fills, x) \in Nat
       /\ \A x : x \notin all => TakenFrom(fills, x) = 0
       /\ \A x : TakenFrom(fills, x) > 0 => x.maker # o.maker /\ OfferMayTrade(o, x)
  BY <1>9, <1>10 DEF FillsFit
<1>17. Filled(fills) = SumOver(take, with)
  <2>1. PICK whole : whole = [x \in all |-> TakenFrom(fills, x)]
    OBVIOUS
  <2>2. Filled(fills) = SumOver(whole, all)
    BY <1>9, <1>10, <2>1 DEF FillsAddUp
  <2>3. with \in SUBSET all
    BY <1>14
  <2>4. /\ \A x \in with : take[x] \in Int /\ whole[x] = take[x]
        /\ \A x \in all \ with : whole[x] = 0
    BY <1>14, <1>15, <1>16, <2>1
  <2>5. SumOver(take, with) = SumOver(whole, all)
    BY <1>13, <2>3, <2>4, SumWithin
  <2>. QED  BY <2>2, <2>5
<1>18. ASSUME NEW x \in with
       PROVE  /\ x.maker # o.maker /\ OfferMayTrade(o, x)
              /\ take[x] <= OfferAmount(x) - Traded(x)
              /\ OfferAmount(x) \in Nat /\ Traded(x) \in Nat
              /\ take[x] \in 1..OfferAmount(o)
  <2>1. x \in all /\ take[x] = TakenFrom(fills, x) /\ take[x] \in Nat /\ take[x] > 0
    BY <1>14, <1>15, <1>16
  <2>2. x \in Orders \cup Quotes
    BY <1>3, <1>12, <2>1 DEF LeftStanding
  <2>3. OfferAmount(x) \in Nat /\ Traded(x) \in Nat
    BY <1>2, <2>2, SignedFields DEF OfferAmount
  <2>4. take[x] <= OfferAmount(x) - Traded(x)
    <3>1. CASE x \in DOMAIN Resting(t)
      <4>1. x \in DOMAIN open /\ take[x] <= open[x].remaining
        BY <1>9, <1>11, <2>1, <3>1 DEF FillsFit
      <4>. QED  BY <4>1 DEF TradeInv, Balanced
    <3>2. CASE x \in DOMAIN Live(t)
      <4>1. x \in DOMAIN quotes /\ take[x] <= quotes[x].remaining
        BY <1>9, <1>11, <2>1, <3>2 DEF FillsFit
      <4>. QED  BY <4>1 DEF TradeInv, Balanced
    <3>. QED  BY <1>10, <2>1, <3>1, <3>2
  <2>5. take[x] <= o.base
    <3>1. PICK whole : whole = [y \in all |-> TakenFrom(fills, y)]
      OBVIOUS
    <3>2. Filled(fills) = SumOver(whole, all)
      BY <1>9, <1>10, <3>1 DEF FillsAddUp
    <3>3. (\A y \in all : whole[y] \in Int /\ whole[y] \in Nat) /\ whole[x] = take[x]
      BY <1>16, <2>1, <3>1
    <3>4. SumOver(whole, all) = whole[x] + SumOver(whole, all \ {x})
      BY <1>13, <2>1, <3>3, SumMember
    <3>5. SumOver(whole, all \ {x}) \in Nat
      <4>1. IsFiniteSet(all \ {x})
        BY <1>13, FS_Subset
      <4>. QED  BY <3>3, <4>1, SumNatural
    <3>. QED  BY <1>8, <1>16, <2>1, <3>2, <3>3, <3>4, <3>5
  <2>. QED  BY <1>8, <1>16, <2>1, <2>3, <2>4, <2>5
<1>19. PICK total : total = Filled(fills)
  OBVIOUS
<1>20. \A x \in Orders \cup Quotes :
          Traded(x)' = IF x = o THEN total
                       ELSE IF x \in with THEN Traded(x) + take[x] ELSE Traded(x)
  <2>. SUFFICES ASSUME NEW x \in Orders \cup Quotes
                PROVE  Traded(x)' = IF x = o THEN total
                                    ELSE IF x \in with THEN Traded(x) + take[x] ELSE Traded(x)
    OBVIOUS
  <2>1. Traded(x) \in Nat
    BY <1>2
  <2>2. CASE x = o
    <3>1. Traded(o) = 0
      BY <1>6, TradedIs DEF TradeInv, Admitted
    <3>2. Traded(o)' = Traded(o) + Filled(fills)
      BY <1>2
    <3>. QED  BY <1>16, <1>19, <2>2, <3>1, <3>2
  <2>3. CASE x # o
    <3>1. Traded(x)' = Traded(x) + TakenFrom(fills, x)
      BY <1>2, <2>3
    <3>2. x \notin with => TakenFrom(fills, x) = 0
      BY <1>14, <1>16
    <3>. QED  BY <1>15, <2>1, <2>3, <3>1, <3>2
  <2>. QED  BY <2>2, <2>3
<1>21. with \in SUBSET Standing /\ take \in [with -> 1..OfferAmount(o)]
  BY <1>12, <1>14, <1>15, <1>18
<1>22. /\ total \in Nat /\ total = SumOver(take, with) /\ total <= OfferAmount(o)
       /\ OfferTif(o) = "fok" => total \in {0, OfferAmount(o)}
  BY <1>8, <1>16, <1>17, <1>19
<1>23. \A x \in with : /\ x.maker # o.maker /\ OfferMayTrade(o, x)
                       /\ take[x] <= OfferAmount(x) - Traded(x)
                       /\ OfferAmount(x) \in Nat /\ Traded(x) \in Nat
  BY <1>18
<1>. QED  BY <1>3, <1>6, <1>7, <1>8, <1>20, <1>21, <1>22, <1>23, AdmitsOffer

LEMMA PromiseStep ==
  ASSUME TradeInv, TradeInv', [MatcherNext]_matcherVars
  PROVE  [Promise!ExchangeNext]_(Promise!exchangeVars)
<1>1. CASE MatcherNext
  <2>1. PICK request \in Requests :
          \/ Cutover(request)
          \/ \E t \in 1..MaxTime :
                \/ \E o \in Orders : AcceptOrder(request, o, t)
                \/ \E o \in DOMAIN index : CancelOrder(request, o, t)
                \/ \E account \in Accounts, e \in 1..MaxEpoch : AdvanceEpoch(request, account, e, t)
                \/ \E q \in Quotes : AcceptSolverQuote(request, q, t)
                \/ \E q \in DOMAIN quotes : CancelSolverQuote(request, q, t)
    BY <1>1 DEF MatcherNext, MatcherEvent
  <2>2. BookInv /\ BookInv' /\ LeftStanding /\ LeftStanding'
    BY StandingLeft, StandingLeftNext DEF TradeInv
  <2>3. CASE Cutover(request)
    <3>1. Admitted' = Admitted
      BY <2>3 DEF Cutover, Admitted
    <3>2. \A x : Traded(x)' = Traded(x)
      BY <2>3, CutoverTrades
    <3>. QED  BY <1>1, <2>2, <3>1, <3>2, QuietWithdraws DEF Promise!ExchangeNext
  <2>4. ASSUME NEW t \in 1..MaxTime, NEW o \in Orders, AcceptOrder(request, o, t)
        PROVE  Promise!Admit
    BY <1>1, <2>4, OrderAdmits
  <2>5. ASSUME NEW t \in 1..MaxTime, NEW o \in DOMAIN index, CancelOrder(request, o, t)
        PROVE  Promise!Withdraw
    <3>1. Admitted' = Admitted
      BY <2>5 DEF CancelOrder, Admitted
    <3>2. \A x : Traded(x)' = Traded(x)
      BY <2>5, CancelTrades
    <3>. QED  BY <1>1, <2>2, <3>1, <3>2, QuietWithdraws
  <2>6. ASSUME NEW t \in 1..MaxTime, NEW account \in Accounts, NEW e \in 1..MaxEpoch,
               AdvanceEpoch(request, account, e, t)
        PROVE  Promise!Withdraw
    <3>1. Admitted' = Admitted
      BY <2>6 DEF AdvanceEpoch, Admitted
    <3>2. \A x : Traded(x)' = Traded(x)
      BY <2>6, AdvanceTrades
    <3>. QED  BY <1>1, <2>2, <3>1, <3>2, QuietWithdraws
  <2>7. ASSUME NEW t \in 1..MaxTime, NEW q \in Quotes, AcceptSolverQuote(request, q, t)
        PROVE  Promise!Admit
    BY <1>1, <2>7, QuoteAdmits
  <2>8. ASSUME NEW t \in 1..MaxTime, NEW q \in DOMAIN quotes, CancelSolverQuote(request, q, t)
        PROVE  Promise!Withdraw
    <3>1. Admitted' = Admitted
      BY <2>8 DEF CancelSolverQuote, Admitted
    <3>2. \A x : Traded(x)' = Traded(x)
      BY <2>8, CancelQuoteTrades
    <3>. QED  BY <1>1, <2>2, <3>1, <3>2, QuietWithdraws
  <2>. QED  BY <2>1, <2>3, <2>4, <2>5, <2>6, <2>7, <2>8 DEF Promise!ExchangeNext
<1>2. CASE UNCHANGED matcherVars
  <2>1. /\ UNCHANGED <<now, epochs, cancelled, claimed, index, open, quotes>>
        /\ UNCHANGED <<withdrawn, quoteClaims, signers, executions, receipts>>
    BY <1>2 DEF matcherVars, bookVars, quoteVars
  <2>2. Standing' = Standing
    BY <2>1 DEF Standing, Resting, Live, ActiveOrder, ActiveQuote, Lifecycle
  <2>3. \A x : Traded(x)' = Traded(x)
    BY <2>1 DEF Traded
  <2>4. [x \in Orders \cup Quotes |-> Traded(x)]' = [x \in Orders \cup Quotes |-> Traded(x)]
    BY <2>3
  <2>. QED  BY <2>1, <2>2, <2>4 DEF Promise!exchangeVars
<1>. QED  BY <1>1, <1>2

LEMMA PromiseFirst == MatcherInit => Promise!ExchangeInit
<1>. SUFFICES ASSUME MatcherInit PROVE Promise!ExchangeInit
  OBVIOUS
<1>1. TradeInv
  BY TradeFirst
<1>2. claimed = {} /\ quoteClaims = {} /\ open = <<>> /\ quotes = <<>>
  BY DEF MatcherInit
<1>3. Standing = {}
  <2>1. DOMAIN open = {} /\ DOMAIN quotes = {}
    BY <1>2
  <2>. QED  BY <1>1, <2>1, StandingFits DEF Standing
<1>4. \A x : Traded(x) = 0
  BY <1>1, <1>2, TradedIs DEF TradeInv
<1>. QED  BY <1>2, <1>3, <1>4 DEF Promise!ExchangeInit

(* Every event of the matcher is a step of what it promises: whatever is   *)
(* signed, an order trades with what stands, of others, within its amount  *)
(* and its price, nothing trades again once it is gone, and every nonce is *)
(* admitted once (persistent-matcher.ts, matcher-routing.ts,               *)
(* order-lifecycle.ts).                                                    *)
THEOREM MatcherKeepsPromise == MatcherSpec => MatcherIsExchange
<1>1. TradeInv /\ TradeInv' /\ [MatcherNext]_matcherVars
        => [Promise!ExchangeNext]_(Promise!exchangeVars)
  BY PromiseStep
<1>. QED  BY <1>1, PromiseFirst, TradeAlways, PTL DEF MatcherSpec, MatcherIsExchange, Promise!ExchangeSpec

-----------------------------------------------------------------------------
(* Price, then time. *)

(* With an order of the book, a route has all of every better one that the *)
(* taker crosses and that can be rounded.                                  *)
LEMMA BetterIsTaken ==
  ASSUME NEW book, BookFit(book), NEW taker \in Orders, NEW t, NEW rest, NEW fills,
         Routed(taker, BookSegments(taker, Entries(book), t), rest, fills),
         NEW s \in {f.segment : f \in Range(fills)}, s.venue = "book",
         NEW p \in DOMAIN book, p.expiry > t, p.tif = "gtc", p.side # taker.side,
         p.maker # taker.maker, Crosses(taker, p.price),
         \/ Cheaper(taker.side, p.price, s.price)
         \/ p.price = s.price /\ book[p].sequence < s.sequence,
         \A n \in 1..p.base : Materializes(taker, p.price, n)
  PROVE  TakenFrom(fills, p) \in Nat /\ TakenFrom(fills, p) >= book[p].remaining
<1>1. PICK makers : makers = BookSegments(taker, Entries(book), t)
  OBVIOUS
<1>2. PICK segments : \E part \in SUBSET segments :
         /\ Offered(taker, segments, rest)
         /\ (\A x \in segments : x.venue = "solver") \/ makers \subseteq segments
         /\ \A x \in segments : x.venue = "book" => x \in makers
         /\ KeepsOrders(taker, segments, part)
         /\ Filling(taker, part, fills)
  BY <1>1 DEF Routed
<1>3. PICK part \in SUBSET segments :
         /\ Offered(taker, segments, rest)
         /\ (\A x \in segments : x.venue = "solver") \/ makers \subseteq segments
         /\ \A x \in segments : x.venue = "book" => x \in makers
         /\ KeepsOrders(taker, segments, part)
         /\ Filling(taker, part, fills)
  BY <1>2
<1>4. Listed(segments) /\ Listed(part)
  BY <1>3, ListedPart DEF Offered
<1>5. PICK line : line = Capped(taker.side, part)
  OBVIOUS
<1>6. fills \in FillsOf(part) /\ Allots(line, taker.base, fills)
  BY <1>3, <1>5 DEF Filling
<1>7. PICK n \in Nat : n = Len(fills) /\ DOMAIN fills = 1..n
  BY <1>6, FillsHaveSegments
<1>8. \A i \in 1..n : fills[i].segment \in part /\ fills[i].amount \in Nat /\ fills[i].amount > 0
  BY <1>6, <1>7, FillsHaveSegments
<1>9. PICK i \in 1..n : fills[i].segment = s
  BY <1>7 DEF Range
<1>10. s \in part /\ s \in segments /\ s \in makers
  BY <1>3, <1>8, <1>9
<1>11. makers \subseteq segments
  BY <1>3, <1>10
<1>12. PICK q : q = BookSegment(book, p, book[p].remaining)
  OBVIOUS
<1>13. /\ q.of = p /\ q.price = p.price /\ q.venue = "book" /\ q.sequence = book[p].sequence
       /\ q.available = book[p].remaining /\ q.level = 0
  BY <1>12 DEF BookSegment
<1>14. q \in makers
  BY <1>1, <1>10, <1>12, BookSegmentsAre
<1>15. q \in segments /\ q \in part
  <2>1. Rounds(taker, q)
    BY <1>13 DEF Rounds
  <2>. QED  BY <1>3, <1>11, <1>13, <1>14, <2>1 DEF KeepsOrders
<1>16. Before(taker.side, q, s)
  BY <1>13 DEF Before
<1>17. line \in Seq(part) /\ i \in DOMAIN line /\ fills[i].segment = line[i] /\ n <= Len(line)
  <2>1. line \in Seq(part)
    BY <1>4, <1>5, CappedLists
  <2>2. n <= Len(line) /\ fills[i].segment = line[i]
    BY <1>6, <1>7 DEF Allots
  <2>3. Len(line) \in Nat /\ DOMAIN line = 1..Len(line)
    BY <2>1
  <2>. QED  BY <2>1, <2>2, <2>3
<1>18. PICK j \in DOMAIN line : j < i /\ line[j] = q
  BY <1>4, <1>5, <1>9, <1>13, <1>15, <1>16, <1>17, CappedLists
<1>19. j \in 1..n /\ fills[j].segment = q /\ fills[j].amount = book[p].remaining
  <2>1. j \in 1..Len(line) /\ Len(line) \in Nat
    BY <1>17
  <2>2. j \in 1..n
    BY <1>18, <2>1
  <2>3. fills[j].segment = line[j] /\ fills[j].amount = line[j].available
    BY <1>6, <1>7, <1>18, <2>2 DEF Allots
  <2>. QED  BY <1>13, <1>18, <2>2, <2>3
<1>20. PICK S, amounts : /\ S = {k \in DOMAIN fills : fills[k].segment.of = p}
                         /\ amounts = Amounts(fills)
  OBVIOUS
<1>21. IsFiniteSet(S) /\ j \in S /\ S \subseteq 1..n
  <2>1. IsFiniteSet(1..n)
    BY FS_Interval
  <2>2. S \subseteq 1..n /\ j \in S
    BY <1>7, <1>13, <1>19, <1>20
  <2>. QED  BY <2>1, <2>2, FS_Subset
<1>22. \A k \in S : amounts[k] = fills[k].amount /\ amounts[k] \in Nat /\ amounts[k] \in Int
  BY <1>7, <1>8, <1>20, <1>21 DEF Amounts
<1>23. TakenFrom(fills, p) = SumOver(amounts, S)
  BY <1>20 DEF TakenFrom
<1>24. SumOver(amounts, S) = amounts[j] + SumOver(amounts, S \ {j})
  BY <1>21, <1>22, SumMember
<1>25. SumOver(amounts, S \ {j}) \in Nat
  <2>1. IsFiniteSet(S \ {j})
    BY <1>21, FS_Subset
  <2>. QED  BY <1>22, <2>1, SumNatural
<1>. QED  BY <1>19, <1>21, <1>22, <1>23, <1>24, <1>25

LEMMA BetterLeaves ==
  ASSUME TradeInv, NEW request \in Requests, NEW o \in Orders, NEW t \in 1..MaxTime,
         AcceptOrder(request, o, t)
  PROVE  PriceThenTime
<1>1. PICK route, fills : route = RouteFor(o, t) /\ fills = route.fills
  OBVIOUS
<1>2. PICK remaining, book, entry, nextOpen, e :
        /\ remaining = o.base - Filled(fills)
        /\ book = AfterFills(Resting(t), fills)
        /\ entry = [sequence |-> Sequence, remaining |-> remaining]
        /\ nextOpen = IF Rests(o, remaining) THEN With(book, o, entry) ELSE book
        /\ e = [taker |-> o, at |-> t, route |-> route]
  OBVIOUS
<1>3. open' = nextOpen /\ executions' = Append(executions, e)
  BY <1>1, <1>2 DEF AcceptOrder, Commit
<1>4. e.taker = o /\ e.at = t /\ e.route = route
  BY <1>2
<1>5. Last(executions') = e
  <2>1. PICK past : past = executions
    OBVIOUS
  <2>2. past \in Seq(Range(past))
    BY <2>1 DEF TradeInv, TradesHold
  <2>3. /\ Len(Append(past, e)) = Len(past) + 1 /\ Len(past) \in Nat
        /\ Append(past, e)[Len(past) + 1] = e
    BY <2>2
  <2>. QED  BY <1>3, <2>1, <2>3 DEF Last
<1>6. PICK resting : resting = Resting(t)
  OBVIOUS
<1>7. /\ BookFit(resting) /\ LiveFit(Live(t))
      /\ DOMAIN resting = {x \in DOMAIN open : ActiveOrder(x, t, Lifecycle)}
      /\ \A x \in DOMAIN resting : resting[x] = open[x]
  BY <1>6, StandingFits
<1>8. DOMAIN book \subseteq DOMAIN resting
      /\ \A x \in DOMAIN book : resting[x].remaining - TakenFrom(fills, x) > 0
  <2>1. \A x \in DOMAIN resting : DOMAIN resting[x] = {"sequence", "remaining"}
    BY <1>7 DEF TradeInv, Placed, Entry
  <2>2. PICK after : after = [x \in DOMAIN resting |->
                       [resting[x] EXCEPT !.remaining = @ - TakenFrom(fills, x)]]
    OBVIOUS
  <2>3. book = Restrict(after, {x \in DOMAIN after : after[x].remaining > 0})
    BY <1>2, <1>6, <2>2 DEF AfterFills
  <2>4. DOMAIN book = {x \in DOMAIN resting : after[x].remaining > 0}
    BY <2>2, <2>3 DEF Restrict
  <2>5. \A x \in DOMAIN resting : after[x].remaining = resting[x].remaining - TakenFrom(fills, x)
    BY <2>1, <2>2
  <2>. QED  BY <2>4, <2>5
<1>9. DOMAIN nextOpen \subseteq DOMAIN book \cup {o}
  BY <1>2 DEF With
<1>10. o \notin DOMAIN open
  <2>1. DOMAIN open \subseteq claimed
    BY DEF TradeInv, BookInv, BookHolds
  <2>2. \A x \in claimed : NonceKey(x) # NonceKey(o)
    BY DEF AcceptOrder, Admissible, NonceFree
  <2>. QED  BY <2>1, <2>2
<1>11. ASSUME NEW s \in {f.segment : f \in {g \in Range(fills) : g.segment.venue = "book"}},
              NEW p \in DOMAIN resting, p.side # o.side, p.maker # o.maker, Crosses(o, p.price),
              \/ Cheaper(o.side, p.price, s.price)
              \/ p.price = s.price /\ open[p].sequence < s.sequence,
              \A n \in 1..p.base : Materializes(o, p.price, n)
       PROVE  p \notin DOMAIN open'
  <2>1. s \in {f.segment : f \in Range(fills)} /\ s.venue = "book"
    BY <1>11
  <2>2. fills # <<>>
    BY <2>1 DEF Range
  <2>3. route = SelectedRoute(o, Entries(resting), Entries(Live(t)), t)
    BY <1>1, <1>6 DEF RouteFor
  <2>4. route # NoRoute
    BY <1>1, <2>2 DEF NoRoute
  <2>5. Routed(o, BookSegments(o, Entries(resting), t), Rest(resting, Live(t)), fills)
    <3>1. PICK live : live = Live(t)
      OBVIOUS
    <3>2. BookFit(resting) /\ LiveFit(live) /\ route = SelectedRoute(o, Entries(resting), Entries(live), t)
      BY <1>7, <2>3, <3>1
    <3>3. Routed(o, BookSegments(o, Entries(resting), t), Rest(resting, live), route.fills)
      BY <2>4, <3>2, RouteOf
    <3>. QED  BY <1>1, <3>1, <3>3
  <2>6. /\ p.expiry > t /\ p.tif = "gtc" /\ p \in DOMAIN open /\ p # o
        /\ resting[p] = open[p]
    BY <1>7, <1>10 DEF ActiveOrder, TradeInv, BookInv, BookHolds
  <2>7. PICK rest : rest = Rest(resting, Live(t))
    OBVIOUS
  <2>8. Routed(o, BookSegments(o, Entries(resting), t), rest, fills)
    BY <2>5, <2>7
  <2>9. \/ Cheaper(o.side, p.price, s.price)
        \/ p.price = s.price /\ resting[p].sequence < s.sequence
    BY <1>11, <2>6
  <2>10. TakenFrom(fills, p) \in Nat /\ TakenFrom(fills, p) >= resting[p].remaining
    BY <1>7, <1>11, <2>1, <2>6, <2>8, <2>9, BetterIsTaken
  <2>11. resting[p].remaining \in Nat
    BY <2>6, AmountsLeft DEF TradeInv
  <2>12. p \notin DOMAIN book
    BY <1>8, <2>10, <2>11
  <2>. QED  BY <1>3, <1>9, <2>6, <2>12
<1>. DEFINE crossed == {p \in DOMAIN Resting(t) : /\ p.side # o.side /\ p.maker # o.maker
                                                  /\ Crosses(o, p.price)}
            makers == {[of |-> p, sequence |-> open[p].sequence, price |-> p.price] : p \in crossed}
<1>12. \A m \in {f.segment : f \in {g \in Range(fills) : g.segment.venue = "book"}} :
       \A s \in makers :
          (\/ Cheaper(o.side, s.price, m.price)
           \/ s.price = m.price /\ s.sequence < m.sequence)
          /\ (\A n \in 1..s.of.base : Materializes(o, s.price, n)) => s.of \notin DOMAIN open'
  <2>. SUFFICES ASSUME NEW m \in {f.segment : f \in {g \in Range(fills) : g.segment.venue = "book"}},
                       NEW s \in makers,
                       \/ Cheaper(o.side, s.price, m.price)
                       \/ s.price = m.price /\ s.sequence < m.sequence,
                       \A n \in 1..s.of.base : Materializes(o, s.price, n)
                PROVE  s.of \notin DOMAIN open'
    OBVIOUS
  <2>1. PICK p \in crossed : s = [of |-> p, sequence |-> open[p].sequence, price |-> p.price]
    OBVIOUS
  <2>2. s.of = p /\ s.sequence = open[p].sequence /\ s.price = p.price
    BY <2>1
  <2>3. p \in DOMAIN resting /\ p.side # o.side /\ p.maker # o.maker /\ Crosses(o, p.price)
    BY <1>6, <2>1
  <2>4. /\ \/ Cheaper(o.side, p.price, m.price)
           \/ p.price = m.price /\ open[p].sequence < m.sequence
        /\ \A n \in 1..p.base : Materializes(o, p.price, n)
    BY <2>2
  <2>. QED  BY <1>11, <2>2, <2>3, <2>4
<1>. QED  BY <1>1, <1>4, <1>5, <1>12 DEF PriceThenTime

(* However many orders rest and however the route is chosen, an order of   *)
(* the book trades only once every other order the taker crosses with a    *)
(* better price, or as good and earlier, is used up, if all that could be  *)
(* taken of it can be rounded (price-time.ts, matcher-routing.ts).         *)
THEOREM BetterTradesFirst == MatcherSpec => BetterFirst
<1>1. ASSUME TradeInv, MatcherNext PROVE PriceThenTime
  <2>1. PICK request \in Requests :
          \/ Cutover(request)
          \/ \E t \in 1..MaxTime :
                \/ \E o \in Orders : AcceptOrder(request, o, t)
                \/ \E o \in DOMAIN index : CancelOrder(request, o, t)
                \/ \E account \in Accounts, e \in 1..MaxEpoch : AdvanceEpoch(request, account, e, t)
                \/ \E q \in Quotes : AcceptSolverQuote(request, q, t)
                \/ \E q \in DOMAIN quotes : CancelSolverQuote(request, q, t)
    BY <1>1 DEF MatcherNext, MatcherEvent
  <2>2. CASE \E t \in 1..MaxTime : \E o \in Orders : AcceptOrder(request, o, t)
    BY <1>1, <2>2, BetterLeaves
  <2>3. CASE executions' = executions
    BY <2>3 DEF PriceThenTime
  <2>. QED  BY <2>1, <2>2, <2>3
             DEF Cutover, CancelOrder, AdvanceEpoch, AcceptSolverQuote, CancelSolverQuote
<1>2. TradeInv /\ [MatcherNext]_matcherVars => [PriceThenTime]_matcherVars
  BY <1>1
<1>. QED  BY <1>2, TradeAlways, PTL DEF MatcherSpec, BetterFirst

-----------------------------------------------------------------------------
(* What the promise means to those who sign. *)

\* No offer ever traded more than was signed, a fill-or-kill order all or nothing.
KeptWithin ==
  \A x \in Orders \cup Quotes :
     /\ Traded(x) <= OfferAmount(x)
     /\ OfferTif(x) = "fok" => Traded(x) \in {0, OfferAmount(x)}

LEMMA TradedNatural == TradeInv => \A x : Traded(x) \in Nat
BY TradedIs DEF TradeInv

LEMMA TradedNaturalNext == TradeInv' => (\A x : Traded(x) \in Nat)'
BY TradedNatural, PTL

(* An offer trades when it is admitted, or while it stands.                *)
LEMMA TradesWhileStanding ==
  ASSUME TradeInv, TradeInv', [MatcherNext]_matcherVars, NEW x \in Orders \cup Quotes
  PROVE  \/ Traded(x)' = Traded(x)
         \/ /\ x \notin Admitted
            /\ Traded(x)' \in 0..OfferAmount(x)
            /\ OfferTif(x) = "fok" => Traded(x)' \in {0, OfferAmount(x)}
         \/ x \in Standing /\ Traded(x)' <= OfferAmount(x)
<1>1. [Promise!ExchangeNext]_(Promise!exchangeVars)
  BY PromiseStep
<1>2. PICK before, after : /\ before = [y \in Orders \cup Quotes |-> Traded(y)]
                           /\ after = [y \in Orders \cup Quotes |-> Traded(y)]'
  OBVIOUS
<1>3. before[x] = Traded(x) /\ after[x] = Traded(x)'
  BY <1>2
<1>4. Standing \subseteq Admitted /\ Traded(x) \in Nat /\ Traded(x)' \in Nat /\ OfferAmount(x) \in Nat
  <2>1. Standing \subseteq Admitted
    BY StandingLeft DEF LeftStanding
  <2>2. Traded(x) \in Nat
    BY TradedIs DEF TradeInv
  <2>3. Traded(x)' \in Nat
    BY TradedNaturalNext
  <2>4. OfferAmount(x) \in Nat
    BY SignedFields DEF OfferAmount
  <2>. QED  BY <2>1, <2>2, <2>3, <2>4
<1>5. CASE UNCHANGED Promise!exchangeVars
  BY <1>2, <1>3, <1>5 DEF Promise!exchangeVars
<1>6. CASE Promise!Withdraw
  BY <1>2, <1>3, <1>6 DEF Promise!Withdraw
<1>7. CASE Promise!Admit
  <2>1. PICK o \in (Orders \cup Quotes) \ Promise!Seen, stays \in BOOLEAN :
          \E with \in SUBSET Standing : \E take \in [with -> 1..OfferAmount(o)] :
             Promise!AdmitOffer(o, with, take, stays)
    BY <1>7 DEF Promise!Admit
  <2>2. PICK with \in SUBSET Standing : \E take \in [with -> 1..OfferAmount(o)] :
          Promise!AdmitOffer(o, with, take, stays)
    BY <2>1
  <2>3. PICK take \in [with -> 1..OfferAmount(o)] : Promise!AdmitOffer(o, with, take, stays)
    BY <2>2
  <2>4. PICK total : total = Promise!SumOver(take, with)
    OBVIOUS
  <2>5. /\ total \in 0..OfferAmount(o)
        /\ OfferTif(o) = "fok" => total \in {0, OfferAmount(o)}
    BY <2>3, <2>4 DEF Promise!AdmitOffer
  <2>6. \A y \in with : take[y] <= OfferAmount(y) - before[y]
    BY <1>2, <2>3 DEF Promise!AdmitOffer, Promise!Left
  <2>7. after = [y \in Orders \cup Quotes |-> IF y = o THEN total
                                              ELSE IF y \in with THEN before[y] + take[y]
                                              ELSE before[y]]
    BY <1>2, <2>3, <2>4 DEF Promise!AdmitOffer
  <2>8. o \notin Admitted
    BY <1>4, <2>1 DEF Promise!Seen, Admitted
  <2>9. CASE x = o
    BY <1>3, <2>5, <2>7, <2>8, <2>9
  <2>10. CASE x # o /\ x \in with
    <3>1. after[x] = before[x] + take[x] /\ take[x] \in Int /\ take[x] <= OfferAmount(x) - before[x]
      <4>1. take[x] \in 1..OfferAmount(o)
        BY <2>10
      <4>2. OfferAmount(o) \in Nat
        BY SignedFields DEF OfferAmount
      <4>. QED  BY <2>6, <2>7, <2>10, <4>1, <4>2
    <3>. QED  BY <1>3, <1>4, <2>10, <3>1
  <2>11. CASE x # o /\ x \notin with
    BY <1>3, <2>7, <2>11
  <2>. QED  BY <2>9, <2>10, <2>11
<1>. QED  BY <1>1, <1>5, <1>6, <1>7 DEF Promise!ExchangeNext

LEMMA KeptStep ==
  ASSUME TradeInv, TradeInv', [MatcherNext]_matcherVars, KeptWithin
  PROVE  KeptWithin'
<1>. SUFFICES ASSUME NEW x \in Orders \cup Quotes
              PROVE  /\ Traded(x)' <= OfferAmount(x)
                     /\ OfferTif(x) = "fok" => Traded(x)' \in {0, OfferAmount(x)}
  BY DEF KeptWithin, OfferAmount, OfferTif
<1>1. x \in Standing => OfferTif(x) # "fok"
  BY StandingLeft DEF LeftStanding, OfferTif
<1>2. OfferAmount(x) \in Nat
  BY SignedFields DEF OfferAmount
<1>. QED  BY <1>1, <1>2, TradesWhileStanding DEF KeptWithin

(* Whatever is signed and in whatever order it comes: over all the events  *)
(* no offer trades more than its signer agreed to, a fill-or-kill order    *)
(* all or nothing, no nonce admits two offers, what stands may rest and    *)
(* is not used up, and what is gone trades no more (persistent-matcher.ts).*)
THEOREM SignersAreKept ==
  MatcherSpec => /\ [](Promise!NeverOverfilled /\ Promise!FillOrKill /\ Promise!NonceOnce)
                 /\ Promise!GoneForGood
<1>1. MatcherInit => KeptWithin
  <2>. SUFFICES ASSUME MatcherInit PROVE KeptWithin
    OBVIOUS
  <2>1. claimed = {} /\ quoteClaims = {}
    BY DEF MatcherInit
  <2>2. \A x : Traded(x) = 0
    BY <2>1, TradeFirst, TradedIs DEF TradeInv
  <2>3. \A x \in Orders \cup Quotes : OfferAmount(x) \in Nat
    BY SignedFields DEF OfferAmount
  <2>. QED  BY <2>2, <2>3 DEF KeptWithin
<1>2. TradeInv /\ KeptWithin => Promise!NeverOverfilled /\ Promise!FillOrKill /\ Promise!NonceOnce
  <2>. SUFFICES ASSUME TradeInv, KeptWithin
                PROVE  Promise!NeverOverfilled /\ Promise!FillOrKill /\ Promise!NonceOnce
    OBVIOUS
  <2>1. Promise!NeverOverfilled
    BY DEF KeptWithin, Promise!NeverOverfilled
  <2>2. Promise!FillOrKill
    <3>. SUFFICES ASSUME NEW x \in Orders \cup Quotes
                  PROVE  /\ OfferTif(x) = "fok" => Traded(x) \in {0, OfferAmount(x)}
                         /\ x \in Standing => /\ OfferTif(x) \in {"gtc", "quote"}
                                              /\ Traded(x) < OfferAmount(x)
      BY DEF Promise!FillOrKill
    <3>1. x \in Standing => OfferTif(x) \in {"gtc", "quote"} /\ Traded(x) # OfferAmount(x)
      BY StandingLeft DEF LeftStanding, OfferTif
    <3>2. Traded(x) \in Nat /\ OfferAmount(x) \in Nat
      BY TradedIs, SignedFields DEF TradeInv, OfferAmount
    <3>. QED  BY <3>1, <3>2 DEF KeptWithin
  <2>3. Promise!NonceOnce
    <3>1. /\ claimed \subseteq Orders /\ quoteClaims \subseteq Quotes /\ Orders \cap Quotes = {}
          /\ Holds(claimed) /\ Holds(quoteClaims)
      BY SignedFields DEF TradeInv, BookInv, ClaimsHeld
    <3>2. Promise!Seen = claimed \cup quoteClaims
      BY StandingLeft DEF Promise!Seen, LeftStanding, Admitted
    <3>3. ASSUME NEW x \in claimed \cup quoteClaims, NEW y \in claimed \cup quoteClaims,
                 OfferNonce(x) = OfferNonce(y)
          PROVE  x = y
      <4>1. PICK one \in BOOLEAN, other \in BOOLEAN : (one <=> x \in Orders) /\ (other <=> y \in Orders)
        <5>1. CASE x \in Orders /\ y \in Orders
          BY <5>1, Zenon
        <5>2. CASE x \in Orders /\ y \notin Orders
          BY <5>2, Zenon
        <5>3. CASE x \notin Orders /\ y \in Orders
          BY <5>3, Zenon
        <5>4. CASE x \notin Orders /\ y \notin Orders
          BY <5>4, Zenon
        <5>. QED  BY <5>1, <5>2, <5>3, <5>4, Zenon
      <4>2. (x \in Orders) = (y \in Orders) /\ NonceKey(x) = NonceKey(y)
        BY <3>3 DEF OfferNonce
      <4>. QED  BY <3>1, <4>2 DEF Holds
    <3>. QED  BY <3>2, <3>3 DEF Promise!NonceOnce
  <2>. QED  BY <2>1, <2>2, <2>3
<1>3. TradeInv /\ TradeInv' /\ [MatcherNext]_matcherVars => [Promise!GoneStays]_(Promise!exchangeVars)
  <2>. SUFFICES ASSUME TradeInv, TradeInv', [MatcherNext]_matcherVars,
                       ~ UNCHANGED Promise!exchangeVars,
                       NEW x \in (claimed \cup quoteClaims) \ Standing
                PROVE  /\ x \in ((claimed \cup quoteClaims) \ Standing)' \ Standing'
                       /\ [p \in Orders \cup Quotes |-> Traded(p)]'[x]
                            = [p \in Orders \cup Quotes |-> Traded(p)][x]
    BY DEF Promise!GoneStays
  <2>1. x \in Orders \cup Quotes
    BY StandingLeft DEF LeftStanding, Admitted
  <2>2. Traded(x)' = Traded(x)
    BY <2>1, TradesWhileStanding DEF Admitted
  <2>3. MatcherNext
    <3>1. CASE UNCHANGED matcherVars
      <4>1. /\ UNCHANGED <<now, epochs, cancelled, claimed, index, open, quotes>>
            /\ UNCHANGED <<withdrawn, quoteClaims, signers, executions, receipts>>
        BY <3>1 DEF matcherVars, bookVars, quoteVars
      <4>2. Standing' = Standing
        BY <4>1 DEF Standing, Resting, Live, ActiveOrder, ActiveQuote, Lifecycle
      <4>3. [y \in Orders \cup Quotes |-> Traded(y)]' = [y \in Orders \cup Quotes |-> Traded(y)]
        BY <4>1 DEF Traded
      <4>. QED  BY <4>1, <4>2, <4>3 DEF Promise!exchangeVars
    <3>. QED  BY <3>1
  <2>4. x \in Admitted' \ Standing'
    BY <2>3, StaysGone DEF TradeInv, Admitted
  <2>5. [p \in Orders \cup Quotes |-> Traded(p)]'[x] = Traded(x)'
    BY <2>1
  <2>. QED  BY <2>1, <2>2, <2>4, <2>5 DEF Admitted
<1>4. TradeInv /\ TradeInv' /\ [MatcherNext]_matcherVars /\ KeptWithin => KeptWithin'
  BY KeptStep
<1>5. MatcherSpec => [](Promise!NeverOverfilled /\ Promise!FillOrKill /\ Promise!NonceOnce)
  BY <1>1, <1>2, <1>4, TradeAlways, PTL DEF MatcherSpec
<1>6. MatcherSpec => Promise!GoneForGood
  BY <1>3, TradeAlways, PTL DEF MatcherSpec, Promise!GoneForGood
<1>. QED  BY <1>5, <1>6

-----------------------------------------------------------------------------
(* What the promise of Exchange entails, for any offers, amounts, owners    *)
(* and prices.                                                             *)

(* What the four rest on: an offer is either standing or spent, and one    *)
(* that was never admitted has not traded.                                 *)
Ledger ==
  /\ standing \subseteq Offers
  /\ spent \subseteq Offers
  /\ filled \in [Offers -> Nat]
  /\ standing \cap spent = {}
  /\ \A o \in Offers \ Seen : filled[o] = 0

(* An admission in the shape the proofs use: o trades total and each of    *)
(* with trades something it has left.                                      *)
Admission(o, with, total, stays) ==
  /\ o \in Offers \ Seen
  /\ with \subseteq standing
  /\ total \in 0..Amount(o)
  /\ Tif(o) = "fok" => total \in {0, Amount(o)}
  /\ stays => Tif(o) \in {"gtc", "quote"} /\ total < Amount(o)
  /\ \A c \in Seen : Nonce(c) # Nonce(o)
  /\ filled'[o] = total
  /\ filled' \in [Offers -> Nat]
  /\ \A c \in Offers \ ({o} \cup with) : filled'[c] = filled[c]
  /\ \A c \in with : filled'[c] \in (filled[c] + 1)..Amount(c)
  /\ \A c \in with : filled'[c] = Amount(c) => c \notin standing'
  /\ standing' \subseteq standing \cup (IF stays THEN {o} ELSE {})
  /\ spent \subseteq spent'
  /\ spent' \cap standing' = {}
  /\ Seen' = Seen \cup {o}

LEMMA AdmitShape ==
  ASSUME \A o \in Offers : Amount(o) \in Nat, Ledger, Admit
  PROVE  \E o \in Offers, with \in SUBSET standing, total \in Nat, stays \in BOOLEAN :
            Admission(o, with, total, stays)
<1>1. PICK o \in Offers \ Seen, stays \in BOOLEAN, with \in SUBSET standing :
        \E take \in [with -> 1..Amount(o)] : AdmitOffer(o, with, take, stays)
  BY DEF Admit
<1>2. PICK take \in [with -> 1..Amount(o)] : AdmitOffer(o, with, take, stays)
  BY <1>1
<1> DEFINE total == SumOver(take, with)
<1>3. /\ \A c \in Seen : Nonce(c) # Nonce(o)
      /\ \A c \in with : take[c] <= Left(c)
      /\ total \in 0..Amount(o)
      /\ Tif(o) = "fok" => total \in {0, Amount(o)}
      /\ stays => Tif(o) \in {"gtc", "quote"} /\ total < Amount(o)
      /\ filled' = [c \in Offers |-> IF c = o THEN total
                                     ELSE IF c \in with THEN filled[c] + take[c]
                                     ELSE filled[c]]
  BY <1>2 DEF AdmitOffer
<1>4. PICK gone \in SUBSET standing :
        /\ {c \in with : take[c] = Left(c)} \subseteq gone
        /\ standing' = (standing \ gone) \cup (IF stays THEN {o} ELSE {})
        /\ spent' = spent \cup gone \cup (IF stays THEN {} ELSE {o})
  BY <1>2 DEF AdmitOffer
<1> HIDE DEF total
<1>5. /\ o \in Offers /\ o \notin standing /\ o \notin spent
      /\ standing \subseteq Offers
      /\ Amount(o) \in Nat
      /\ total \in Nat
  BY <1>3 DEF Ledger, Seen
<1>6. ASSUME NEW c \in with
      PROVE  /\ c \in Offers /\ c # o
             /\ take[c] \in Nat \ {0}
             /\ filled[c] \in Nat /\ Amount(c) \in Nat
             /\ filled'[c] = filled[c] + take[c]
             /\ take[c] <= Amount(c) - filled[c]
  <2>1. c \in Offers /\ c # o
    BY <1>5
  <2>2. take[c] \in 1..Amount(o)
    OBVIOUS
  <2>3. filled[c] \in Nat /\ Amount(c) \in Nat
    BY <2>1 DEF Ledger
  <2>4. filled'[c] = filled[c] + take[c]
    BY <2>1, <1>3
  <2>5. take[c] <= Amount(c) - filled[c]
    BY <1>3 DEF Left
  <2>6. QED
    BY <1>5, <2>1, <2>2, <2>3, <2>4, <2>5
<1>7. \A c \in with : filled'[c] \in (filled[c] + 1)..Amount(c)
  BY <1>6
<1>8. ASSUME NEW c \in with, filled'[c] = Amount(c)
      PROVE  c \notin standing'
  <2>1. take[c] = Left(c)
    BY <1>6, <1>8 DEF Left
  <2>2. c \in gone /\ c # o
    BY <2>1, <1>4, <1>6
  <2>3. QED
    BY <2>2, <1>4
<1>9. \A c \in with : filled[c] + take[c] \in Nat
  BY <1>6
<1>10. /\ filled'[o] = total
       /\ filled' \in [Offers -> Nat]
       /\ \A c \in Offers \ ({o} \cup with) : filled'[c] = filled[c]
  BY <1>3, <1>5, <1>9 DEF Ledger
<1>11. /\ standing' \subseteq standing \cup (IF stays THEN {o} ELSE {})
       /\ spent \subseteq spent'
       /\ spent' \cap standing' = {}
       /\ Seen' = Seen \cup {o}
  BY <1>4, <1>5 DEF Ledger, Seen
<1>12. Admission(o, with, total, stays)
  BY <1>3, <1>5, <1>7, <1>8, <1>10, <1>11 DEF Admission
<1>13. QED
  BY <1>5, <1>12

-----------------------------------------------------------------------------
LEMMA LedgerStep ==
  ASSUME \A o \in Offers : Amount(o) \in Nat, Ledger, [ExchangeNext]_exchangeVars
  PROVE  Ledger'
<1>1. CASE Admit
  <2>1. PICK o \in Offers, with \in SUBSET standing, total \in Nat, stays \in BOOLEAN :
           Admission(o, with, total, stays)
    BY <1>1, AdmitShape
  <2>2. standing' \subseteq Offers /\ spent' \subseteq Offers /\ standing' \cap spent' = {}
    BY <2>1 DEF Admission, Ledger, Seen
  <2>3. ASSUME NEW c \in Offers \ Seen'
        PROVE  filled'[c] = 0
    <3>1. c \in Offers \ ({o} \cup with) /\ c \in Offers \ Seen
      BY <2>1, <2>3 DEF Admission, Ledger, Seen
    <3>2. QED
      BY <3>1, <2>1 DEF Admission, Ledger
  <2>4. QED
    BY <2>1, <2>2, <2>3 DEF Admission, Ledger
<1>2. CASE Withdraw
  BY <1>2 DEF Withdraw, Ledger, Seen
<1>3. CASE UNCHANGED exchangeVars
  BY <1>3 DEF exchangeVars, Ledger, Seen
<1>4. QED
  BY <1>1, <1>2, <1>3 DEF ExchangeNext

(* The ledger of offers holds always.                                      *)
THEOREM LedgerAlways ==
  ASSUME \A o \in Offers : Amount(o) \in Nat
  PROVE  ExchangeSpec => []Ledger
<1>1. ExchangeInit => Ledger
  BY DEF ExchangeInit, Ledger, Seen
<1>2. Ledger /\ [ExchangeNext]_exchangeVars => Ledger'
  BY LedgerStep
<1>3. QED
  BY <1>1, <1>2, PTL DEF ExchangeSpec

(* Over all the orders that ever take from it, an offer never trades more  *)
(* than its signer agreed to (persistent-matcher.ts).                      *)
THEOREM OffersAreNotOverfilled ==
  ASSUME \A o \in Offers : Amount(o) \in Nat
  PROVE  ExchangeSpec => []NeverOverfilled
<1>1. ExchangeInit => NeverOverfilled
  BY DEF ExchangeInit, NeverOverfilled
<1>2. Ledger /\ NeverOverfilled /\ [ExchangeNext]_exchangeVars => NeverOverfilled'
  <2> SUFFICES ASSUME Ledger, NeverOverfilled, [ExchangeNext]_exchangeVars
               PROVE  NeverOverfilled'
    OBVIOUS
  <2>1. CASE Admit
    <3>1. PICK o \in Offers, with \in SUBSET standing, total \in Nat, stays \in BOOLEAN :
             Admission(o, with, total, stays)
      BY <2>1, AdmitShape
    <3>2. ASSUME NEW c \in Offers
          PROVE  filled'[c] <= Amount(c)
      <4>1. CASE c = o
        BY <4>1, <3>1 DEF Admission
      <4>2. CASE c \in with /\ c # o
        BY <4>2, <3>1 DEF Admission, Ledger
      <4>3. CASE c \in Offers \ ({o} \cup with)
        BY <4>3, <3>1 DEF Admission, NeverOverfilled
      <4>4. QED
        BY <4>1, <4>2, <4>3
    <3>3. QED
      BY <3>2 DEF NeverOverfilled
  <2>2. CASE Withdraw \/ UNCHANGED exchangeVars
    BY <2>2 DEF Withdraw, exchangeVars, NeverOverfilled
  <2>3. QED
    BY <2>1, <2>2 DEF ExchangeNext
<1>3. QED
  BY <1>1, <1>2, LedgerAlways, PTL DEF ExchangeSpec

(* A fill-or-kill order is filled whole or not at all, and neither it nor  *)
(* an immediate-or-cancel order ever rests where a later taker could fill  *)
(* it again; what is filled does not rest either.                          *)
THEOREM FillOrKillHolds ==
  ASSUME \A o \in Offers : Amount(o) \in Nat
  PROVE  ExchangeSpec => []FillOrKill
<1>1. ExchangeInit => FillOrKill
  BY DEF ExchangeInit, FillOrKill
<1>2. Ledger /\ FillOrKill /\ [ExchangeNext]_exchangeVars => FillOrKill'
  <2> SUFFICES ASSUME Ledger, FillOrKill, [ExchangeNext]_exchangeVars
               PROVE  FillOrKill'
    OBVIOUS
  <2>1. CASE Admit
    <3>1. PICK o \in Offers, with \in SUBSET standing, total \in Nat, stays \in BOOLEAN :
             Admission(o, with, total, stays)
      BY <2>1, AdmitShape
    <3> DEFINE Kept(c) ==
          /\ Tif(c) = "fok" => filled'[c] \in {0, Amount(c)}
          /\ c \in standing' => Tif(c) \in {"gtc", "quote"} /\ filled'[c] < Amount(c)
    <3>2. ASSUME NEW c \in Offers
          PROVE  Kept(c)
      <4>1. CASE c = o
        BY <4>1, <3>1 DEF Admission, Seen
      <4>2. CASE c \in with /\ c # o
        <5>1. Tif(c) \in {"gtc", "quote"}
          BY <4>2, <3>1 DEF FillOrKill
        <5>2. filled'[c] <= Amount(c) /\ filled'[c] \in Nat /\ Amount(c) \in Nat
          BY <4>2, <3>1 DEF Admission, Ledger
        <5>3. QED
          BY <4>2, <5>1, <5>2, <3>1 DEF Admission
      <4>3. CASE c \in Offers \ ({o} \cup with)
        BY <4>3, <3>1 DEF Admission, FillOrKill
      <4>4. QED
        BY <4>1, <4>2, <4>3
    <3>3. QED
      BY <3>2 DEF FillOrKill
  <2>2. CASE Withdraw \/ UNCHANGED exchangeVars
    BY <2>2 DEF Withdraw, exchangeVars, FillOrKill
  <2>3. QED
    BY <2>1, <2>2 DEF ExchangeNext
<1>3. QED
  BY <1>1, <1>2, LedgerAlways, PTL DEF ExchangeSpec

(* A nonce admits one offer, also after that offer is gone.                *)
THEOREM NonceAdmitsOnce ==
  ASSUME \A o \in Offers : Amount(o) \in Nat
  PROVE  ExchangeSpec => []NonceOnce
<1>1. ExchangeInit => NonceOnce
  BY DEF ExchangeInit, NonceOnce, Seen
<1>2. Ledger /\ NonceOnce /\ [ExchangeNext]_exchangeVars => NonceOnce'
  <2> SUFFICES ASSUME Ledger, NonceOnce, [ExchangeNext]_exchangeVars
               PROVE  NonceOnce'
    OBVIOUS
  <2>1. CASE Admit
    <3>1. PICK o \in Offers, with \in SUBSET standing, total \in Nat, stays \in BOOLEAN :
             Admission(o, with, total, stays)
      BY <2>1, AdmitShape
    <3>2. Seen' = Seen \cup {o} /\ \A c \in Seen : Nonce(c) # Nonce(o)
      BY <3>1 DEF Admission
    <3>3. QED
      BY <3>2 DEF NonceOnce
  <2>2. CASE Withdraw
    <3>1. Seen' = Seen
      BY <2>2 DEF Withdraw, Seen
    <3>2. QED
      BY <3>1 DEF NonceOnce
  <2>3. CASE UNCHANGED exchangeVars
    BY <2>3 DEF exchangeVars, NonceOnce, Seen
  <2>4. QED
    BY <2>1, <2>2, <2>3 DEF ExchangeNext
<1>3. QED
  BY <1>1, <1>2, LedgerAlways, PTL DEF ExchangeSpec

(* What is gone trades no more and does not come back.                     *)
THEOREM GoneStaysGone ==
  ASSUME \A o \in Offers : Amount(o) \in Nat
  PROVE  ExchangeSpec => GoneForGood
<1>1. Ledger /\ [ExchangeNext]_exchangeVars => [GoneStays]_exchangeVars
  <2> SUFFICES ASSUME Ledger, ExchangeNext, NEW o \in spent
               PROVE  o \in spent' \ standing' /\ filled'[o] = filled[o]
    BY DEF GoneStays
  <2>1. CASE Admit
    <3>1. PICK p \in Offers, with \in SUBSET standing, total \in Nat, stays \in BOOLEAN :
             Admission(p, with, total, stays)
      BY <2>1, AdmitShape
    <3>2. o \in Offers \ ({p} \cup with)
      BY <3>1 DEF Admission, Ledger, Seen
    <3>3. QED
      BY <3>1, <3>2 DEF Admission
  <2>2. CASE Withdraw
    BY <2>2 DEF Withdraw, Ledger
  <2>3. QED
    BY <2>1, <2>2 DEF ExchangeNext
<1>2. QED
  BY <1>1, LedgerAlways, PTL DEF ExchangeSpec, GoneForGood
=============================================================================
