---------------------------- MODULE PaperTerminal -----------------------------
(***************************************************************************)
(* The terminal's paper session: local books of two markets, an account    *)
(* for each, the ticket's review of an order, resting orders that expire,  *)
(* TWAP jobs whose slices a timer executes, and the session log that       *)
(* replayLog rebuilds the session from.                                    *)
(*                                                                         *)
(* A handler works on the books and accounts of the last render and        *)
(* replaces them whole; the tape and the log are appended to.  One timer   *)
(* callback executes a slice of every job that is due, all on the same     *)
(* render.  `steady` visitors run one job at a time, watch its market      *)
(* while it runs, and complete a review before its order expires.          *)
(***************************************************************************)
EXTENDS Integers, Sequences, SequencesExt, Absent

CONSTANTS
  PaperMarkets,
  PaperZec, PaperQuote,  \* SESSION_ZEC_ATOMS, SESSION_QUOTE_ATOMS
  QuoteDivisor,          \* QUOTE_COST_DIVISOR
  VenueDepth,            \* the books' fixture: a set of [side, price, size]
  LastPrice,
  Tickets,               \* what the ticket may hold: [side, tif, price, size, expiry]
  SliceCounts,           \* the slicings of a ticket bought over time; 0 is none
  RetainedJobs,          \* TWAP_TERMINAL_JOBS_RETAINED
  MaxPaperOrders, MaxJobs, MaxPaperTime

VARIABLES
  steady,
  onScreen,    \* marketId, the market on screen
  books, accounts,
  tape,        \* every fill of the session; the page keeps the latest 50
  events,      \* the session log
  jobs,        \* twapJobs
  review,      \* the ticket's open review, or None
  nextOrderId,
  paperNow

paperVars == <<steady, onScreen, books, accounts, tape, events, jobs, review, nextOrderId, paperNow>>

-----------------------------------------------------------------------------
(* Amounts and the account.                                                *)

QuoteOf(side, numerator) ==
  IF side = "buy" THEN (numerator + QuoteDivisor - 1) \div QuoteDivisor
  ELSE numerator \div QuoteDivisor

SettlesQuote(size, price) == size * price >= QuoteDivisor

LeastSize(price) == ((QuoteDivisor - 1) \div price) + 1

Collateral(side, size, price) == IF side = "buy" THEN QuoteOf("buy", size * price) ELSE size

FreeFunds(account, side) ==
  IF side = "buy" THEN account.quote - account.heldQuote ELSE account.zec - account.heldZec

Held(account, side, amount) ==
  IF side = "buy" THEN [account EXCEPT !.heldQuote = @ + amount]
  ELSE [account EXCEPT !.heldZec = @ + amount]

(* Fault: a cancelled order frees what it was placed with. *)
ReleasedRoundedDown(account, order) ==
  Held(account, order.side, -(IF order.side = "buy" THEN QuoteOf("sell", order.left * order.price)
                              ELSE order.left))

Released(account, order) ==
  Held(account, order.side, -Collateral(order.side, order.left, order.price))

(* FoldLeft of SequencesExt, each step taken once. *)
Through(Step(_, _), start, seq) ==
  LET after[i \in 0..Len(seq)] ==
        IF i = 0 THEN start
        ELSE CHOOSE next \in {Step(before, seq[i]) : before \in {after[i - 1]}} : TRUE
  IN after[Len(seq)]

SumOf(Measure(_), seq) == Through(LAMBDA sum, x : sum + Measure(x), 0, seq)

Traded(fills) == SumOf(LAMBDA f : f.size, fills)

-----------------------------------------------------------------------------
(* The local book.                                                         *)

Crosses(side, limit, price) == IF side = "buy" THEN limit >= price ELSE limit <= price

Ahead(side, price, other) == IF side = "buy" THEN price >= other ELSE price <= other

(* One maker of the walk over the other side: `left` is what the taker     *)
(* still wants, `stopped` ends the walk.  A trade leaves the maker either  *)
(* nothing or enough to settle.                                            *)
Lesser(a, b) == IF a < b THEN a ELSE b

Leaving(wanted, rest, least) == IF wanted < rest /\ rest - wanted < least THEN rest - least ELSE wanted

Trade(walk, maker, wanted, traded) ==
  [walk EXCEPT !.left = @ - traded,
               !.last = maker.price,
               !.dust = traded < wanted,
               !.stopped = traded < maker.left,
               !.fills = Append(@, [own |-> maker.own, price |-> maker.price, size |-> traded]),
               !.resting = IF traded = maker.left THEN @
                           ELSE Append(@, [maker EXCEPT !.left = @ - traded])]

Meet(order, walk, maker, least, wanted) ==
  IF walk.stopped \/ walk.left = 0 \/ ~Crosses(order.side, order.price, maker.price)
  THEN [walk EXCEPT !.stopped = TRUE, !.resting = Append(@, maker)]
  ELSE IF wanted < least \/ Leaving(wanted, maker.left, least) < least
  THEN [walk EXCEPT !.stopped = TRUE, !.dust = TRUE, !.resting = Append(@, maker)]
  ELSE Trade(walk, maker, wanted, Leaving(wanted, maker.left, least))

Walk(book, order) ==
  Through(LAMBDA walk, maker :
             Meet(order, walk, maker, LeastSize(maker.price), Lesser(walk.left, maker.left)),
           [left |-> order.size, fills |-> <<>>, resting |-> <<>>, last |-> book.last,
            stopped |-> FALSE, dust |-> FALSE],
           IF order.side = "buy" THEN book.asks ELSE book.bids)

Placed(side, resting, order) ==
  SelectSeq(resting, LAMBDA o : Ahead(side, o.price, order.price)) \o <<order>>
    \o SelectSeq(resting, LAMBDA o : ~Ahead(side, o.price, order.price))

Expired(expiry, at) == expiry > 0 /\ at # None /\ at > expiry

(* submitOrder after the walk; `at` is None where the caller has no clock. *)
Walked(book, order, at, walk) ==
  LET Before(side) == IF side = "buy" THEN book.bids ELSE book.asks
      After(side) == IF side = order.side THEN Before(side) ELSE walk.resting
      Rested(side) ==
        IF side # order.side THEN After(side)
        ELSE Placed(side, Before(side),
                    [own |-> order.own, id |-> order.id, side |-> side, price |-> order.price,
                     left |-> walk.left, seq |-> book.seq + 1, expiry |-> order.expiry])
      Outcome(status, bids, asks, seq) ==
        [status |-> status, left |-> walk.left, fills |-> walk.fills,
         book |-> [bids |-> bids, asks |-> asks, seq |-> seq, last |-> walk.last]]
  IN IF Expired(order.expiry, at) \/ ~SettlesQuote(order.size, order.price)
        \/ (order.tif = "FOK" /\ walk.left > 0)
     THEN [status |-> "rejected", left |-> walk.left, fills |-> <<>>, book |-> book]
     ELSE IF walk.left > 0 /\ order.tif # "IOC" /\ ~walk.dust /\ SettlesQuote(walk.left, order.price)
     THEN Outcome("open", Rested("buy"), Rested("sell"), book.seq + 1)
     ELSE Outcome(IF walk.left = 0 THEN "filled" ELSE "cancelled",
                  After("buy"), After("sell"), book.seq)

Submitted(book, order, at) == Walked(book, order, at, Walk(book, order))

CancelledFrom(book, id) ==
  LET Others(orders) == SelectSeq(orders, LAMBDA o : ~(o.own /\ o.id = id))
  IN [book EXCEPT !.bids = Others(@), !.asks = Others(@)]

OwnOrders(book) == SelectSeq(book.bids \o book.asks, LAMBDA o : o.own)

(* applySubmit: the account after the fills and the reservation of what    *)
(* rests, or None when the order is blocked.                               *)
AppliedFills(account, order, result, quote, zec, rests) ==
  IF result.status = "rejected" THEN account
  ELSE IF (result.fills # <<>> /\ quote = 0)
       \/ FreeFunds(account, order.side) < (IF order.side = "buy" THEN quote ELSE zec) + rests
  THEN None
  ELSE Held(IF order.side = "buy"
            THEN [account EXCEPT !.zec = @ + zec, !.quote = @ - quote]
            ELSE [account EXCEPT !.zec = @ - zec, !.quote = @ + quote],
            order.side, rests)

Applied(account, order, result) ==
  AppliedFills(account, order, result,
    QuoteOf(order.side, SumOf(LAMBDA f : f.size * f.price, result.fills)),
    Traded(result.fills),
    IF result.status = "open" THEN Collateral(order.side, result.left, order.price) ELSE 0)

SelfTrades(result) == \E i \in DOMAIN result.fills : result.fills[i].own

-----------------------------------------------------------------------------
(* The session.                                                            *)

SeedBook ==
  Through(LAMBDA book, order : Submitted(book, order, None).book,
           [bids |-> <<>>, asks |-> <<>>, seq |-> 0, last |-> LastPrice],
           SetToSeq({[own |-> FALSE, id |-> 0, tif |-> "GTC", expiry |-> 0,
                      side |-> d.side, price |-> d.price, size |-> d.size] : d \in VenueDepth}))

EmptySession ==
  [books |-> [m \in PaperMarkets |-> SeedBook],
   accounts |-> [m \in PaperMarkets |->
                   [zec |-> PaperZec, quote |-> PaperQuote, heldZec |-> 0, heldQuote |-> 0]]]

PaperInit ==
  /\ steady \in BOOLEAN
  /\ onScreen \in PaperMarkets 
  /\ books = EmptySession.books /\ accounts = EmptySession.accounts
  /\ tape = <<>> /\ events = <<>> /\ jobs = <<>> /\ review = None
  /\ nextOrderId = 1 /\ paperNow = 1

(* replayLog: submissions are replayed without a clock. *)
ReplayCancel(session, m, mine) ==
  IF mine = <<>> THEN session
  ELSE [books |-> [session.books EXCEPT ![m] = CancelledFrom(@, mine[1].id)],
        accounts |-> [session.accounts EXCEPT ![m] = Released(@, mine[1])]]

ReplaySubmit(session, m, result, account) ==
  IF SelfTrades(result) \/ account = None THEN session
  ELSE [books |-> [session.books EXCEPT ![m] = result.book],
        accounts |-> [session.accounts EXCEPT ![m] = account]]

ReplayEvent(session, e) ==
  IF e.kind = "reset" THEN EmptySession
  ELSE IF e.kind = "cancel"
  THEN ReplayCancel(session, e.market,
                    SelectSeq(OwnOrders(session.books[e.market]), LAMBDA o : o.id = e.id))
  ELSE CHOOSE next \in
         {ReplaySubmit(session, e.market, result, Applied(session.accounts[e.market], e.order, result)) :
            result \in {Submitted(session.books[e.market], e.order, None)}} : TRUE

Replayed == Through(ReplayEvent, EmptySession, events)

CancelEvents(m, orders) ==
  [i \in DOMAIN orders |-> [kind |-> "cancel", market |-> m, id |-> orders[i].id]]

(* executeUserOrder for market m, on the book and the account on screen:   *)
(* sweep what expired, then submit.  `wrote` when it replaces the books    *)
(* and accounts of m.                                                      *)
Late(o) == Expired(o.expiry, paperNow)

Swept(book) ==
  [book EXCEPT !.bids = SelectSeq(@, LAMBDA o : ~(o.own /\ Late(o))),
               !.asks = SelectSeq(@, LAMBDA o : ~(o.own /\ Late(o)))]

Refused(m, swept, account, late, nextId) ==
  [rejected |-> TRUE, wrote |-> late # <<>>, book |-> swept, account |-> account,
   events |-> CancelEvents(m, late), fills |-> <<>>, nextId |-> nextId]

Accepted(m, order, applied, late, result) ==
  [rejected |-> result.status = "rejected", wrote |-> TRUE, book |-> result.book,
   account |-> applied, nextId |-> order.id + 1,
   events |-> Append(CancelEvents(m, late), [kind |-> "submit", market |-> m, order |-> order]),
   fills |-> [i \in DOMAIN result.fills |->
                [market |-> m, side |-> order.side, size |-> result.fills[i].size]]]

Answered(m, order, swept, account, late, result, applied) ==
  IF ~SettlesQuote(order.size, order.price)
     \/ FreeFunds(account, order.side) < Collateral(order.side, order.size, order.price)
  THEN Refused(m, swept, account, late, order.id)
  ELSE IF SelfTrades(result) \/ applied = None
  THEN Refused(m, swept, account, late, order.id + 1)
  ELSE Accepted(m, order, applied, late, result)

Executions(m, ticket, id) ==
  {Answered(m, order, swept, account, late, result, Applied(account, order, result)) :
     <<order, swept, account, late, result>> \in
       {<<o, s, Through(Released, accounts[onScreen], l), l, Submitted(s, o, paperNow)>> :
          <<o, s, l>> \in
            {<<[own |-> TRUE, id |-> id, side |-> ticket.side, tif |-> ticket.tif,
                price |-> ticket.price, size |-> ticket.size, expiry |-> ticket.expiry],
               Swept(books[onScreen]), SelectSeq(OwnOrders(books[onScreen]), Late)>>}}}

-----------------------------------------------------------------------------
(* The ticket.  A review is dropped by the render that finds its market,   *)
(* book or account epoch changed; `fresh` where the epoch was raised.      *)

ReviewAfterRender(fresh) ==
  IF onScreen' = onScreen /\ books'[onScreen] = books[onScreen] /\ ~fresh THEN review ELSE None

OpenReview(ticket, slices) ==
  /\ review = None
  /\ Expired(ticket.expiry, paperNow) => slices > 0
  /\ slices > 0 => SettlesQuote(ticket.size \div slices, ticket.price)
  /\ review' = [ticket |-> ticket, slices |-> slices]
  /\ UNCHANGED <<steady, onScreen, books, accounts, tape, events, jobs, nextOrderId,
                 paperNow>>

CompleteReview ==
  /\ review # None
  /\ nextOrderId <= MaxPaperOrders
  /\ review.slices = 0
  /\ steady => ~Expired(review.ticket.expiry, paperNow)
  /\ \E done \in Executions(onScreen, review.ticket, nextOrderId) :
       /\ books' = IF done.wrote THEN [books EXCEPT ![onScreen] = done.book] ELSE books
       /\ accounts' = IF done.wrote THEN [accounts EXCEPT ![onScreen] = done.account] ELSE accounts
       /\ tape' = done.fills \o tape
       /\ events' = events \o done.events
       /\ nextOrderId' = done.nextId
  /\ review' = None
  /\ UNCHANGED <<steady, onScreen, jobs, paperNow>>

(* A slice is due at once, the others one interval apart; earlier slices   *)
(* carry the remainder.                                                    *)
StartTwap ==
  /\ review # None
  /\ review.slices > 0
  /\ Len(jobs) < MaxJobs
  /\ steady => \A i \in DOMAIN jobs : jobs[i].done = jobs[i].slices \/ jobs[i].stopped
  /\ jobs' = Append(jobs, [market |-> onScreen, ticket |-> review.ticket, slices |-> review.slices,
                           start |-> paperNow, done |-> 0, stopped |-> FALSE])
  /\ review' = None
  /\ UNCHANGED <<steady, onScreen, books, accounts, tape, events, nextOrderId, paperNow>>

-----------------------------------------------------------------------------
(* The timer.                                                              *)

Running(job) == job.done < job.slices /\ ~job.stopped

Due(job) == Running(job) /\ paperNow >= job.start + job.done

Slice(job) ==
  LET total == job.ticket.size
  IN [job.ticket EXCEPT !.tif = "IOC", !.expiry = 0,
        !.size = total \div job.slices + IF job.done < total % job.slices THEN 1 ELSE 0]

AfterSlice(session, job, done) ==
  [jobs |-> Append(session.jobs, IF done.rejected THEN [job EXCEPT !.stopped = TRUE]
                                 ELSE [job EXCEPT !.done = @ + 1]),
   books |-> IF done.wrote THEN [books EXCEPT ![job.market] = done.book] ELSE session.books,
   accounts |-> IF done.wrote THEN [accounts EXCEPT ![job.market] = done.account]
                ELSE session.accounts,
   tape |-> done.fills \o session.tape,
   events |-> session.events \o done.events
             \o IF done.rejected THEN CancelEvents(job.market, <<[id |-> 0]>>) ELSE <<>>,
   nextOrderId |-> done.nextId]

ExecuteSlice(session, job) ==
  IF ~Due(job) THEN [session EXCEPT !.jobs = Append(@, job)]
  ELSE CHOOSE next \in {AfterSlice(session, job, done) :
                          done \in Executions(job.market, Slice(job), session.nextOrderId)} : TRUE

Retained(all) ==
  LET ended == SelectSeq(all, LAMBDA j : ~Running(j))
      excess == Len(ended) - RetainedJobs
  IN Through(LAMBDA kept, j :
                IF Running(j) \/ kept.dropped >= excess THEN [kept EXCEPT !.jobs = Append(@, j)]
                ELSE [kept EXCEPT !.dropped = @ + 1],
              [jobs |-> <<>>, dropped |-> 0], all).jobs

Tick ==
  /\ \E i \in DOMAIN jobs : Due(jobs[i])
  /\ nextOrderId <= MaxPaperOrders
  /\ \E session \in {Through(ExecuteSlice,
                       [jobs |-> <<>>, books |-> books, accounts |-> accounts, tape |-> tape,
                        events |-> events, nextOrderId |-> nextOrderId], jobs)} :
       /\ jobs' = Retained(session.jobs)
       /\ books' = session.books /\ accounts' = session.accounts
       /\ tape' = session.tape /\ events' = session.events
       /\ nextOrderId' = session.nextOrderId
  /\ UNCHANGED <<steady, onScreen, paperNow>>
  /\ review' = ReviewAfterRender(FALSE)

CancelTwap(i) ==
  /\ Running(jobs[i])
  /\ jobs' = [jobs EXCEPT ![i].stopped = TRUE]
  /\ events' = Append(events, [kind |-> "cancel", market |-> jobs[i].market, id |-> 0])
  /\ UNCHANGED <<steady, onScreen, books, accounts, tape, review, nextOrderId,
                 paperNow>>

-----------------------------------------------------------------------------
(* The blotter and the rest of the screen.                                 *)

(* one order of the visitor's, or all of them: the latter raises the epoch *)
CancelOrders(orders, all) ==
  /\ orders # <<>>
  /\ books' = [books EXCEPT ![onScreen] = Through(LAMBDA b, o : CancelledFrom(b, o.id), @, orders)]
  /\ accounts' = [accounts EXCEPT ![onScreen] = Through(Released, @, orders)]
  /\ events' = events \o CancelEvents(onScreen, orders)
  /\ UNCHANGED <<steady, onScreen, tape, jobs, nextOrderId, paperNow>>
  /\ review' = ReviewAfterRender(all)

ResetSession ==
  /\ events # <<>>
  /\ books' = EmptySession.books /\ accounts' = EmptySession.accounts
  /\ tape' = <<>>
  /\ events' = <<[kind |-> "reset"]>>  \* what precedes a reset no longer matters to a replay
  /\ nextOrderId' = nextOrderId     \* the ids start again; the model keeps counting to end
  /\ UNCHANGED <<steady, onScreen, jobs, paperNow>>
  /\ review' = None

SelectMarket(m) ==
  /\ m # onScreen
  /\ steady => \A i \in DOMAIN jobs : ~Running(jobs[i])
  /\ onScreen' = m
  /\ UNCHANGED <<steady, books, accounts, tape, events, jobs, nextOrderId, paperNow>>
  /\ review' = ReviewAfterRender(FALSE)

(* the ticket is mounted anew with the feed *)
SelectFeed ==
  /\ review # None /\ review' = None
  /\ UNCHANGED <<steady, onScreen, books, accounts, tape, events, jobs, nextOrderId, paperNow>>

PaperSecond ==
  /\ paperNow < MaxPaperTime
  /\ paperNow' = paperNow + 1
  /\ UNCHANGED <<steady, onScreen, books, accounts, tape, events, jobs, review,
                 nextOrderId>>

PaperNext ==
  \/ \E t \in Tickets, n \in SliceCounts : OpenReview(t, n)
  \/ CompleteReview
  \/ StartTwap
  \/ Tick
  \/ \E i \in DOMAIN jobs : CancelTwap(i)
  \/ \E orders \in {OwnOrders(books[onScreen])} :
       \/ CancelOrders(orders, TRUE)
       \/ \E i \in DOMAIN orders : CancelOrders(<<orders[i]>>, FALSE)
  \/ ResetSession
  \/ \E m \in PaperMarkets : SelectMarket(m)
  \/ SelectFeed
  \/ PaperSecond

-----------------------------------------------------------------------------
(* What the visitor's balances and books show is what happened: an         *)
(* account holds what it began with and what the tape says was traded,     *)
(* reserves the collateral of the orders that rest in its market's book    *)
(* and never more than it has.                                             *)
TapeExplainsAccount ==
  \A m \in PaperMarkets :
    LET own == OwnOrders(books[m])
        Reserved(side) == SumOf(LAMBDA o : Collateral(side, o.left, o.price),
                                SelectSeq(own, LAMBDA o : o.side = side))
    IN /\ accounts[m].zec = PaperZec + SumOf(LAMBDA f : IF f.market # m THEN 0
                                               ELSE IF f.side = "buy" THEN f.size ELSE -f.size, tape)
       /\ accounts[m].heldQuote = Reserved("buy") /\ accounts[m].heldZec = Reserved("sell")
       /\ FreeFunds(accounts[m], "buy") >= 0 /\ FreeFunds(accounts[m], "sell") >= 0

(* For a visitor that keeps to one job on the market on screen, the above  *)
(* holds and replaying the session log rebuilds the books and accounts.       *)
SessionConsistent ==
  steady => /\ TapeExplainsAccount
            /\ Replayed = [books |-> books, accounts |-> accounts]
=============================================================================
