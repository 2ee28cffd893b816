------------------------------ MODULE TradeForm ------------------------------
(***************************************************************************)
(* The order form of the terminal: what its controls, shortcuts and the    *)
(* ladder set, the order it prepares from them and from the market, and    *)
(* the review that is completed as it was opened or dropped by the first   *)
(* render that finds another market, variant, epoch or book.               *)
(***************************************************************************)
EXTENDS Integers, FiniteSets, Absent

CONSTANTS
  FormMarkets,
  TicketPrices, TicketSizes, Slippages, Expiries, SliceChoices,   \* what may be entered
  Percents,                \* the size shortcuts
  FormTifs,                \* the times in force besides GTC
  SlippageScale,           \* 10_000: a slippage of the whole
  FormDivisor,             \* QUOTE_COST_DIVISOR
  SessionZec, SessionQuote,   \* what the account can spend
  MaxBookChanges, MaxFormTime \* bounds

ASSUME FormAssumption ==
  /\ SlippageScale \in Nat \ {0} /\ FormDivisor \in Nat \ {0}
  /\ Slippages # {} /\ \A s \in Slippages : s \in Nat /\ s < SlippageScale
  /\ TicketPrices \subseteq Nat /\ Percents \subseteq 0..100
  /\ SessionZec \in Nat /\ SessionQuote \in Nat

VARIABLES
  form,         \* [side, type, tif, price, size, slippage, expiry, slices]
  shortcut,     \* the price a size shortcut computed for, or None
  place,        \* [market, simple]: market on screen and variant
  market,       \* of the market on screen: [last, book], book counts its changes
  formReview,   \* or None
  sent,         \* the last order sent, with the place and market it was sent in, or None
  formNow

formVars == <<form, shortcut, place, market, formReview, sent, formNow>>

FirstForm(last) ==
  [side |-> "buy", type |-> "limit", tif |-> "GTC", price |-> last, size |-> CHOOSE s \in TicketSizes : TRUE,
   slippage |-> CHOOSE s \in Slippages : TRUE, expiry |-> 0, slices |-> CHOOSE s \in SliceChoices : TRUE]

FormInit ==
  /\ place \in [market : FormMarkets, simple : BOOLEAN]
  /\ market \in [last : TicketPrices, book : {0}]
  /\ form = FirstForm(market.last)
  /\ shortcut = None /\ formReview = None /\ sent = None /\ formNow = 1

-----------------------------------------------------------------------------
(* The order the form stands for. *)

RoundedUp(n, d) == (n + d - 1) \div d

WorstPrice(last, side, slippage) ==
  IF side = "buy" THEN RoundedUp(last * (SlippageScale + slippage), SlippageScale)
  ELSE (last * (SlippageScale - slippage)) \div SlippageScale

Type == IF place.simple THEN "market" ELSE form.type
MarketLike == Type \in {"market", "twap"}

PriceOf(last) == IF MarketLike THEN WorstPrice(last, form.side, form.slippage) ELSE form.price

FundsQuote(size, price) == size * price >= FormDivisor

\* preparedOrder: the notional is previewed at the last price of a market order.
\* An expiry typed for another type does not reach an order cut in slices.
Prepared ==
  [side |-> form.side, size |-> form.size, price |-> PriceOf(market.last),
   tif |-> IF MarketLike THEN "IOC" ELSE form.tif,
   expiry |-> IF Type = "twap" \/ place.simple THEN 0 ELSE form.expiry,
   slices |-> IF Type = "twap" THEN form.slices ELSE 0]

Preparable ==
  /\ form.size > 0 /\ PriceOf(market.last) > 0
  /\ FundsQuote(form.size, IF MarketLike THEN market.last ELSE form.price)
  /\ Type = "twap" => FundsQuote(form.size \div form.slices, PriceOf(market.last))

-----------------------------------------------------------------------------
(* Fault: a review is kept as long as its market is on screen. *)
SameScreen(review) == review.place = place'

\* The render after a change keeps a review only in the place, account epoch and
\* book it was opened in.
StillReviewed(review) == review.place = place' /\ review.book = market'.book

Rendered == formReview' = IF formReview # None /\ StillReviewed(formReview) THEN formReview ELSE None

Edited(field, value) ==
  /\ form' = [form EXCEPT ![field] = value]
  /\ shortcut' = IF field = "size" THEN None ELSE shortcut
  /\ UNCHANGED <<place, market, formReview, sent, formNow>>

\* The controls; the keys do the same while no review is open.
Edit ==
  \/ \E v \in {"buy", "sell"} : Edited("side", v)
  \/ \E v \in {"limit", "market", "twap"} : ~place.simple /\ Edited("type", v)
  \/ \E v \in {"GTC"} \cup FormTifs : ~place.simple /\ Edited("tif", v)
  \/ \E v \in TicketPrices : ~MarketLike /\ Edited("price", v)
  \/ \E v \in TicketSizes : Edited("size", v)
  \/ \E v \in Slippages : MarketLike /\ Edited("slippage", v)
  \/ \E v \in Expiries : Type # "twap" /\ ~place.simple /\ Edited("expiry", v)
  \/ \E v \in SliceChoices : Type = "twap" /\ Edited("slices", v)

\* A part of what the account can spend, at the price the order would have.
SizeShortcut(percent) ==
  LET price == PriceOf(market.last)
      size == IF form.side = "sell" THEN (SessionZec * percent) \div 100
              ELSE (((SessionQuote * percent) \div 100) * FormDivisor) \div price
  IN  /\ form.side = "buy" => price > 0
      /\ size > 0
      /\ form' = [form EXCEPT !.size = size]
      /\ shortcut' = price
      /\ UNCHANGED <<place, market, formReview, sent, formNow>>

\* A price of the ladder is copied into a limit order.
SelectPrice(price) ==
  /\ ~place.simple
  /\ form' = [form EXCEPT !.type = "limit", !.price = price]
  /\ UNCHANGED <<shortcut, place, market, formReview, sent, formNow>>

OpenTicket ==
  /\ formReview = None
  /\ Preparable
  /\ Type = "twap" \/ ~(Prepared.expiry > 0 /\ formNow > Prepared.expiry)
  /\ formReview' = [order |-> Prepared, place |-> place, book |-> market.book,
                    slippage |-> IF MarketLike THEN form.slippage ELSE None]
  /\ UNCHANGED <<form, shortcut, place, market, sent, formNow>>

CompleteTicket ==
  /\ formReview # None
  /\ sent' = [order |-> formReview.order, slippage |-> formReview.slippage, last |-> market.last,
              openedIn |-> formReview.place, sentIn |-> place]
  /\ formReview' = None
  /\ UNCHANGED <<form, shortcut, place, market, formNow>>

CloseTicket ==
  /\ formReview # None /\ formReview' = None
  /\ UNCHANGED <<form, shortcut, place, market, sent, formNow>>

-----------------------------------------------------------------------------
(* The terminal around the form. *)

\* A slice of the timer, a cancellation or a reset changes the book, the last
\* price or the account epoch.
BookChanges ==
  /\ market.book < MaxBookChanges
  /\ market' \in [last : TicketPrices, book : {market.book + 1}]
  /\ UNCHANGED <<form, shortcut, place, sent, formNow>>
  /\ Rendered

\* Another market or variant: the price starts again from the last one.
MovePlace ==
  /\ place' \in [market : FormMarkets, simple : BOOLEAN] /\ place' # place
  /\ IF place'.market = place.market THEN UNCHANGED market
     ELSE /\ market.book < MaxBookChanges
          /\ market' \in [last : TicketPrices, book : {market.book + 1}]
  /\ form' = [form EXCEPT !.price = market'.last]
  /\ UNCHANGED <<shortcut, sent, formNow>>
  /\ Rendered

FormSecond ==
  /\ formNow < MaxFormTime /\ formNow' = formNow + 1
  /\ UNCHANGED <<form, shortcut, place, market, formReview, sent>>

\* Nothing more is said once an order is sent.
FormNext ==
  /\ sent = None
  /\ \/ Edit \/ OpenTicket \/ CompleteTicket \/ CloseTicket
     \/ \E percent \in Percents : SizeShortcut(percent)
     \/ \E price \in TicketPrices : SelectPrice(price)
     \/ BookChanges \/ MovePlace \/ FormSecond

-----------------------------------------------------------------------------
\* An order goes out in the market and variant it was reviewed in; one without a
\* limit of its own is bounded by the slippage from the last price of the moment
\* it is sent, never rests and, cut in slices, carries no expiry; and a size
\* taken from a shortcut is one the account can fund on one side or the other (a
\* change of side afterwards leaves the size as it is).
SentAsReviewed ==
  /\ sent # None =>
       /\ sent.sentIn = sent.openedIn
       /\ sent.slippage # None =>
            /\ sent.order.tif = "IOC"
            /\ sent.order.price = WorstPrice(sent.last, sent.order.side, sent.slippage)
       /\ sent.order.slices > 0 \/ sent.sentIn.simple => sent.order.expiry = 0
  /\ shortcut # None =>
       \/ form.size <= SessionZec
       \/ RoundedUp(form.size * shortcut, FormDivisor) <= SessionQuote
=============================================================================
