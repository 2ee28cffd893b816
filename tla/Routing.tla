------------------------------ MODULE Routing -------------------------------
(***************************************************************************)
(* How a taker's order is routed (matcher-routing.ts, price-time.ts,       *)
(* solver-quotes.ts): resting orders and solver levels become segments,    *)
(* segments in priority order are allotted to the taker, and the best of   *)
(* three candidate routes is selected.                                     *)
(*                                                                         *)
(* An order is a record [maker, signer, side, base, price, nonce, epoch,   *)
(* expiry, tif, venues], a quote a record [maker, signer, side, capacity,  *)
(* minimum, levels, nonce, epoch, expiry] with levels a sequence of        *)
(* [cumulative, price]; each stands for its own hash.  A resting order or  *)
(* a live quote is an entry [of, sequence, remaining].                     *)
(***************************************************************************)
EXTENDS Integers, Sums, SequencesExt

CONSTANTS
  Scale,          \* base atoms at price 1 that make one quote atom (10000)
  MaxFills,       \* maximumRouteFills
  MaxSolverFills  \* maximumSolverFills

ASSUME RoutingConstants ==
  /\ Scale \in Nat \ {0}
  /\ MaxFills \in Nat \ {0}
  /\ MaxSolverFills \in 1..MaxFills

-----------------------------------------------------------------------------
(* Prices and quote amounts.                                               *)

Crosses(taker, price) ==
  IF taker.side = "buy" THEN price <= taker.price ELSE price >= taker.price

Cheaper(side, p, q) == IF side = "buy" THEN p < q ELSE p > q

DivideDown(n) == n \div Scale
DivideUp(n) == (n + Scale - 1) \div Scale

(* What the buyer pays: a seller that rests is paid in full, a buyer that  *)
(* rests never pays more than its price.                                   *)
QuoteForFill(taker, price, amount) ==
  IF taker.side = "buy" THEN DivideUp(amount * price) ELSE DivideDown(amount * price)

(* createAtomicSwapPlan refuses a fill whose quote is dust or cannot be    *)
(* rounded within both signed limits.                                      *)
Materializes(taker, price, amount) ==
  LET quote  == QuoteForFill(taker, price, amount)
      buyer  == IF taker.side = "buy" THEN taker.price ELSE price
      seller == IF taker.side = "buy" THEN price ELSE taker.price
  IN  /\ quote > 0
      /\ DivideUp(amount * seller) <= quote
      /\ quote <= DivideDown(amount * buyer)

-----------------------------------------------------------------------------
(* Segments in order of priority, and what each is allotted.               *)

(* Fault: time comes before price. *)
BeforeByTime(side, s, t) ==
  \/ s.sequence < t.sequence
  \/ s.sequence = t.sequence /\ s.level < t.level

Before(side, s, t) ==
  \/ Cheaper(side, s.price, t.price)
  \/ /\ s.price = t.price
     /\ \/ s.venue = "book" /\ t.venue = "solver"
        \/ s.venue = t.venue /\ s.sequence < t.sequence
        \/ s.venue = t.venue /\ s.sequence = t.sequence /\ s.level < t.level

Line(side, segments) ==
  [i \in 1..Cardinality(segments) |->
     CHOOSE s \in segments : Cardinality({t \in segments : Before(side, t, s)}) = i - 1]

AheadOf(line, i) == SumOver([j \in DOMAIN line |-> line[j].available], 1..(i - 1))

Least(a, b) == IF a < b THEN a ELSE b

(* The first segments of a line, as fills, until the taker needs no more.  *)
Allot(line, need) ==
  LET reached == {i \in DOMAIN line : AheadOf(line, i) < need}
  IN  [i \in 1..Cardinality(reached) |->
         [segment |-> line[i], amount |-> Least(line[i].available, need - AheadOf(line, i))]]

Amounts(fills) == [i \in DOMAIN fills |-> fills[i].amount]

Filled(fills) == SumOver(Amounts(fills), DOMAIN fills)

TakenFrom(fills, of) ==
  SumOver(Amounts(fills), {i \in DOMAIN fills : fills[i].segment.of = of})

-----------------------------------------------------------------------------
(* Segments of the book: planPriceTimeMatches allots the makers the taker  *)
(* crosses, its own orders excepted, and each keeps what it was allotted.  *)

Matchable(taker, entry, now) ==
  /\ entry.of.expiry > now
  /\ entry.of.tif = "gtc"
  /\ entry.of.side # taker.side
  /\ entry.of.maker # taker.maker
  /\ Crosses(taker, entry.of.price)

BookSegments(taker, resting, now) ==
  LET segment(e) == [venue |-> "book", of |-> e.of, sequence |-> e.sequence, level |-> 0,
                     price |-> e.of.price, available |-> e.remaining, left |-> e.remaining]
      makers == {segment(e) : e \in {r \in resting : Matchable(taker, r, now)}}
      plan   == Allot(Line(taker.side, makers), taker.base)
  IN  {[plan[i].segment EXCEPT !.available = plan[i].amount] : i \in DOMAIN plan}

(* Segments of the solvers: the levels of each quote that are not consumed *)
(* yet, as the total consumed tells (activeSolverLevels).                  *)
LevelLeft(entry, k) ==
  LET prior    == IF k = 1 THEN 0 ELSE entry.of.levels[k - 1].cumulative
      size     == entry.of.levels[k].cumulative - prior
      consumed == entry.of.capacity - entry.remaining
  IN  IF consumed > prior THEN size - Least(consumed - prior, size) ELSE size

SolverSegments(taker, quotes, now) ==
  LET matching == {e \in quotes : /\ e.of.expiry > now
                                  /\ e.of.side # taker.side
                                  /\ e.of.maker # taker.maker}
      segment(e, k) == [venue |-> "solver", of |-> e.of, sequence |-> e.sequence, level |-> k,
                        price |-> e.of.levels[k].price, available |-> LevelLeft(e, k),
                        left |-> e.remaining]
  IN  {s \in UNION {{segment(e, k) : k \in DOMAIN e.of.levels} : e \in matching} :
         s.available > 0 /\ Crosses(taker, s.price)}

-----------------------------------------------------------------------------
(* allocate: at most MaxFills fills and MaxSolverFills of solvers; a quote *)
(* allotted less than its minimum, and not all it has left, is excluded    *)
(* and the allocation starts over.                                         *)

First(n, line) == SubSeq(line, 1, Least(n, Len(line)))

Capped(side, segments) ==
  LET solvers == {s \in segments : s.venue = "solver"}
  IN  First(MaxFills, Line(side, (segments \ solvers) \cup
        {s \in solvers : Cardinality({t \in solvers : Before(side, t, s)}) < MaxSolverFills}))

(* Fault: the minimum of a quote is not looked at. *)
BelowMinimumNever(fills) == {}

BelowMinimum(fills) ==
  {s.of : s \in {f.segment : f \in {g \in Range(fills) :
     /\ g.segment.venue = "solver"
     /\ TakenFrom(fills, g.segment.of) < g.segment.of.minimum
     /\ TakenFrom(fills, g.segment.of) # g.segment.left}}}

Quoted(segments) == {s.of : s \in {t \in segments : t.venue = "solver"}}

AllotWithout(taker, segments, excluded) ==
  Allot(Capped(taker.side, {s \in segments : s.of \notin excluded}), taker.base)

Allocate(taker, segments) ==
  LET allocated[excluded \in SUBSET Quoted(segments)] ==
        LET fills == AllotWithout(taker, segments, excluded)
        IN  IF BelowMinimum(fills) = {} THEN fills
            ELSE allocated[excluded \cup BelowMinimum(fills)]
  IN  allocated[{}]

-----------------------------------------------------------------------------
(* materializeCandidate: the first fill whose quote cannot be settled      *)
(* drops its segment, and the allocation starts over.                      *)

Alike(s, t) ==
  /\ s.venue = t.venue
  /\ s.of = t.of
  /\ s.sequence = t.sequence
  /\ s.price = t.price

(* An attempt counts if it fills an all-or-nothing taker, and if a         *)
(* combined one uses both venues.                                          *)
Attempt(kind, taker, fills) ==
  IF \/ taker.tif = "fok" /\ Filled(fills) # taker.base
     \/ kind = "combined" /\ Cardinality({f.segment.venue : f \in Range(fills)}) < 2
    THEN <<>> ELSE fills

Unable(taker, fills) ==
  {i \in DOMAIN fills : ~Materializes(taker, fills[i].segment.price, fills[i].amount)}

Without(segments, fills, unable) ==
  {s \in segments : ~Alike(s, fills[Min(unable)].segment)}

Fills(kind, taker, segments) ==
  LET usable[left \in SUBSET segments] ==
        LET fills == Attempt(kind, taker, Allocate(taker, left))
        IN  IF Unable(taker, fills) = {} THEN fills
            ELSE usable[Without(left, fills, Unable(taker, fills))]
  IN  usable[segments]

Candidate(kind, taker, segments) ==
  [kind |-> kind, fills |-> Fills(kind, taker, segments)]

Transfer(taker, c) ==
  SumOver([i \in DOMAIN c.fills |->
             QuoteForFill(taker, c.fills[i].segment.price, c.fills[i].amount)], DOMAIN c.fills)

Rank == [book |-> 0, solver |-> 1, combined |-> 2]

(* More filled, then the better total, then fewer fills, then rank.        *)
CandidateIsBetter(taker, c, d) ==
  \/ Filled(c.fills) > Filled(d.fills)
  \/ /\ Filled(c.fills) = Filled(d.fills)
     /\ \/ Cheaper(taker.side, Transfer(taker, c), Transfer(taker, d))
        \/ /\ Transfer(taker, c) = Transfer(taker, d)
           /\ \/ Len(c.fills) < Len(d.fills)
              \/ Len(c.fills) = Len(d.fills) /\ Rank[c.kind] < Rank[d.kind]

NoRoute == [kind |-> "none", fills |-> <<>>]

Best(taker, candidates) ==
  IF candidates = {} THEN NoRoute
  ELSE CHOOSE c \in candidates : \A d \in candidates \ {c} : CandidateIsBetter(taker, c, d)

(* compareExecutableRoutes: the selected route, or NoRoute.                *)
SelectedRoute(taker, resting, quotes, now) ==
  LET book   == IF "clob" \in taker.venues THEN BookSegments(taker, resting, now) ELSE {}
      solver == IF "solver" \in taker.venues THEN SolverSegments(taker, quotes, now) ELSE {}
      candidates == {Candidate("book", taker, book), Candidate("solver", taker, solver)}
                    \cup (IF book # {} /\ solver # {}
                            THEN {Candidate("combined", taker, book \cup solver)} ELSE {})
      eligible == {c \in candidates :
                     /\ Filled(c.fills) > 0
                     /\ taker.tif = "fok" => Filled(c.fills) = taker.base}
  IN  Best(taker, eligible)
=============================================================================
