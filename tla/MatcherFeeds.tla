----------------------------- MODULE MatcherFeeds -----------------------------
(***************************************************************************)
(* What the matcher shows the public: pages of solver quotes and of        *)
(* executions behind a cursor, the depth of the book, the tape and the     *)
(* ticker (matcher-feeds.ts and the public endpoints of the matcher        *)
(* server).  A page is cut from the state of the moment, so a reader who   *)
(* follows the cursor reads each page from another state.                  *)
(*                                                                         *)
(* How the matcher chooses a route is in Matcher; here an accepted order   *)
(* takes any of the counterparties it could.                               *)
(***************************************************************************)
EXTENDS Integers, Sequences, FiniteSets, SequencesExt, Sums, Absent

CONSTANTS
  FeedOrders,     \* [side, price, size, expiry]: orders that may be submitted
  FeedQuotes,     \* [side, price, size, expiry]: solver quotes likewise
  FeedPage,      \* the page size a reader asks for
  DepthLevels,    \* the number of levels asked for
  TickerTrades,   \* 1000 in the code: fills the ticker looks back over
  DayLength,      \* 86400 in the code
  FeedDivisor,    \* 10000 in the code
  MaxFeedEvents, MaxFeedTime

ASSUME FeedsAssumption ==
  /\ FeedPage \in Nat \ {0} /\ TickerTrades \in Nat \ {0} /\ FeedDivisor \in Nat \ {0}
  /\ DayLength \in Nat
  /\ FeedOrders \cup FeedQuotes \subseteq
       [side : {"buy", "sell"}, price : Nat, size : Nat, expiry : Nat]

VARIABLES
  feedTime,
  records,          \* the journal: [kind, side, at], numbered from one
  openOrders,       \* [sequence, side, price, remaining, expiry]
  solverQuotes,     \* the same with whether it was cancelled
  executions,       \* [sequence, route]; a route is a sequence of fills, or None
  quoteReader,      \* [after, got, from, done], None before the walk begins
  tapeReader,       \* [after, got]
  ticker            \* the last ticker read

matcherVars == <<records, openOrders, solverQuotes, executions>>
feedVars == <<feedTime, matcherVars, quoteReader, tapeReader, ticker>>

FeedInit ==
  /\ feedTime = 0
  /\ records = <<>> /\ openOrders = {} /\ solverQuotes = {} /\ executions = <<>>
  /\ quoteReader = None
  /\ tapeReader = [after |-> 0, got |-> <<>>]
  /\ ticker = None

-----------------------------------------------------------------------------
(* The matcher.                                                            *)

Opposite(side) == IF side = "buy" THEN "sell" ELSE "buy"

Unexpired(x) == x.expiry > feedTime /\ x.remaining > 0

LiveQuotes == {q \in solverQuotes : Unexpired(q) /\ ~q.cancelled}

Entered(x) ==
  [sequence |-> Len(records) + 1, side |-> x.side, price |-> x.price,
   remaining |-> x.size, expiry |-> x.expiry]

EnteredQuote(x) ==
  [sequence |-> Len(records) + 1, side |-> x.side, price |-> x.price,
   remaining |-> x.size, expiry |-> x.expiry, cancelled |-> FALSE]

Recorded(kind, side) ==
  /\ Len(records) < MaxFeedEvents
  /\ records' = Append(records, [kind |-> kind, side |-> side, at |-> feedTime])

AcceptQuote(quote) ==
  /\ quote.expiry > feedTime
  /\ Recorded("accept-quote", quote.side)
  /\ solverQuotes' = solverQuotes \cup {EnteredQuote(quote)}
  /\ UNCHANGED <<openOrders, executions>>

CancelQuote(q) ==
  /\ ~q.cancelled
  /\ Recorded("cancel-quote", None)
  /\ solverQuotes' = (solverQuotes \ {q}) \cup {[q EXCEPT !.cancelled = TRUE]}
  /\ UNCHANGED <<openOrders, executions>>

Fill(x, size) == [price |-> x.price, size |-> size, counterparty |-> x.sequence]

Taken(S, takenFrom, size) ==
  (S \ takenFrom) \cup {[x EXCEPT !.remaining = @ - size] : x \in takenFrom}

Crosses(order, x) ==
  /\ x.side = Opposite(order.side)
  /\ IF order.side = "buy" THEN x.price <= order.price ELSE x.price >= order.price

(* An order takes one atom from the book, what is left from a quote, both  *)
(* or nothing.  Makers and quotes used up are gone, and a remainder rests. *)
AcceptOrder(order) ==
  /\ order.expiry > feedTime
  /\ Recorded("accept-order", order.side)
  /\ \E makers \in SUBSET {x \in openOrders : Unexpired(x) /\ Crosses(order, x)},
        quotes \in SUBSET {q \in LiveQuotes : Crosses(order, q)} :
       /\ Cardinality(makers) <= 1 /\ Cardinality(quotes) <= 1
       /\ LET left == order.size - Cardinality(makers)
              filled == SetToSeq({Fill(x, 1) : x \in makers})
                          \o SetToSeq({Fill(q, left) : q \in quotes})
              rest == IF quotes = {} /\ left > 0
                      THEN {[Entered(order) EXCEPT !.remaining = left]} ELSE {}
          IN /\ \A q \in quotes : left \in 1..q.remaining
             /\ openOrders' = {x \in Taken(openOrders, makers, 1) \cup rest : x.remaining > 0}
             /\ solverQuotes' = {q \in Taken(solverQuotes, quotes, left) : q.remaining > 0}
             /\ executions' = Append(executions,
                  [sequence |-> Len(records) + 1,
                   route |-> IF makers \cup quotes = {} THEN None ELSE filled])

MatcherMoves ==
  /\ \/ \E quote \in FeedQuotes : AcceptQuote(quote)
     \/ \E q \in LiveQuotes : CancelQuote(q)
     \/ \E order \in FeedOrders : AcceptOrder(order)
  /\ UNCHANGED <<feedTime, quoteReader, tapeReader, ticker>>

FeedTick ==
  /\ feedTime < MaxFeedTime
  /\ feedTime' = feedTime + 1
  /\ UNCHANGED <<matcherVars, quoteReader, tapeReader, ticker>>

-----------------------------------------------------------------------------
(* Pages.                                                                  *)

FirstOf(s, n) == SubSeq(s, 1, IF Len(s) < n THEN Len(s) ELSE n)

(* Fault: the cursor is that of the last match, shown or not.              *)
AfterLastMatch(matching, shown, after) ==
  IF matching = <<>> THEN after ELSE Last(matching).sequence

NextAfter(matching, shown, after) ==
  IF shown = <<>> THEN after ELSE Last(shown).sequence

PageOf(matching, after) ==
  LET shown == FirstOf(matching, FeedPage)
  IN [items |-> shown, nextAfter |-> NextAfter(matching, shown, after),
      hasMore |-> Len(matching) > Len(shown)]

BySequence(S) ==
  CHOOSE s \in [1..Cardinality(S) -> S] :
    \A i, j \in 1..Cardinality(S) : i < j => s[i].sequence < s[j].sequence

QuotePage(after) ==
  PageOf(BySequence({q \in LiveQuotes : q.sequence > after}), after)

ExecutionPage(after) ==
  PageOf(BySequence({e \in Range(executions) : e.sequence > after}), after)

(* A reader walks the quotes from the first page to the one that says      *)
(* there is no more.                                                       *)
BeginQuotes ==
  /\ quoteReader = None
  /\ quoteReader' =
       [after |-> 0, got |-> {}, from |-> {q.sequence : q \in LiveQuotes}, done |-> FALSE]
  /\ UNCHANGED <<feedTime, matcherVars, tapeReader, ticker>>

ReadQuotes ==
  /\ quoteReader # None /\ ~quoteReader.done
  /\ \E page \in {QuotePage(quoteReader.after)} :
       quoteReader' = [quoteReader EXCEPT
         !.after = page.nextAfter, !.done = ~page.hasMore,
         !.got = @ \cup {page.items[i].sequence : i \in DOMAIN page.items}]
  /\ UNCHANGED <<feedTime, matcherVars, tapeReader, ticker>>

ReadExecutions ==
  /\ \E page \in {ExecutionPage(tapeReader.after)} :
       tapeReader' = [after |-> page.nextAfter, got |-> tapeReader.got \o page.items]
  /\ UNCHANGED <<feedTime, matcherVars, quoteReader, ticker>>

-----------------------------------------------------------------------------
(* Depth, tape and ticker.                                                 *)

(* One level a price, the best first, and no more than were asked for.     *)
Levels(side) ==
  LET live == {x \in openOrders : x.side = side /\ Unexpired(x)}
      At(price) == {x \in live : x.price = price}
      level == {[price |-> p, size |-> SumOver([x \in At(p) |-> x.remaining], At(p)),
                 orderCount |-> Cardinality(At(p))] : p \in {x.price : x \in live}}
  IN FirstOf(SetToSortSeq(level, LAMBDA x, y : IF side = "buy" THEN x.price > y.price
                                                               ELSE x.price < y.price),
             DepthLevels)

PublicDepth == [bids |-> Levels("buy"), asks |-> Levels("sell")]

(* The fills of the executions, each by its execution and its place in the *)
(* route; the newest executions first, the fills of one in order.          *)
FillsDone ==
  UNION {{i} \X DOMAIN executions[i].route :
           i \in {i \in DOMAIN executions : executions[i].route # None}}

Newer(x, y) == x[1] > y[1] \/ (x[1] = y[1] /\ x[2] < y[2])

NewestFirst ==
  CHOOSE s \in [1..Cardinality(FillsDone) -> FillsDone] :
    \A i, j \in 1..Cardinality(FillsDone) : i < j => Newer(s[i], s[j])

(* A fill is told from the side its journal record has. *)
TradeOf(x) ==
  LET e == executions[x[1]]
  IN [side |-> records[e.sequence].side, price |-> e.route[x[2]].price,
      size |-> e.route[x[2]].size, at |-> records[e.sequence].at]

PublicTrades(limit) == FirstOf([i \in 1..Cardinality(FillsDone) |-> TradeOf(NewestFirst[i])], limit)

PublicTicker(trades, depth) ==
  LET cutoff == IF feedTime > DayLength THEN feedTime - DayLength ELSE 0
      window == {i \in DOMAIN trades : trades[i].at >= cutoff}
      best(levels) == IF levels = <<>> THEN None ELSE levels[1].price
      bid == best(depth.bids)
      ask == best(depth.asks)
      prices == {trades[i].price : i \in window}
  IN [bid |-> bid, ask |-> ask,
      mid |-> IF None \in {bid, ask} THEN None ELSE (bid + ask) \div 2,
      last |-> IF trades = <<>> THEN None ELSE trades[1].price,
      high |-> IF prices = {} THEN None ELSE CHOOSE p \in prices : \A q \in prices : q <= p,
      low |-> IF prices = {} THEN None ELSE CHOOSE p \in prices : \A q \in prices : q >= p,
      volume |-> SumOver([i \in window |-> trades[i].size], window),
      quoteVolume |-> SumOver([i \in window |-> (trades[i].size * trades[i].price) \div FeedDivisor],
                              window),
      count |-> Cardinality(window), truncated |-> Len(trades) = TickerTrades,
      sequence |-> Len(records), at |-> feedTime]

ReadTicker ==
  /\ \E trades \in {PublicTrades(TickerTrades)}, depth \in {PublicDepth} :
       ticker' = PublicTicker(trades, depth)
  /\ UNCHANGED <<feedTime, matcherVars, quoteReader, tapeReader>>

FeedNext ==
  \/ MatcherMoves \/ FeedTick
  \/ BeginQuotes \/ ReadQuotes \/ ReadExecutions \/ ReadTicker

FeedSpec == FeedInit /\ [][FeedNext]_feedVars

-----------------------------------------------------------------------------
(* What was traded in the last day: every execution with the time of its   *)
(* record, every fill of its route.                                        *)
DayVolume ==
  SumOver([i \in DOMAIN executions |->
             IF executions[i].route = None \/ records[executions[i].sequence].at + DayLength < feedTime
             THEN 0
             ELSE SumOver([j \in DOMAIN executions[i].route |-> executions[i].route[j].size],
                          DOMAIN executions[i].route)], DOMAIN executions)

(* A reader misses nothing and is told nothing twice, though the matcher   *)
(* moves between any two pages: the executions it has are the first ones,  *)
(* in order; a walk over the quotes that was told there is no more has     *)
(* every quote that stood from its beginning to now; and a ticker that     *)
(* does not say it left fills out has counted every fill of the day.       *)
ReadersMissNothing ==
  /\ IsPrefix(tapeReader.got, executions)
  /\ (quoteReader # None /\ quoteReader.done) =>
       \A q \in LiveQuotes : q.sequence \in quoteReader.from => q.sequence \in quoteReader.got
  /\ (ticker # None /\ ticker.at = feedTime /\ ticker.sequence = Len(records)
        /\ ~ticker.truncated) => ticker.volume = DayVolume
=============================================================================
