----------------------------- MODULE MCMatcher -----------------------------
(* An instance of Matcher with two markets: a book of orders that cross,   *)
(* and quotes of two levels beside resting orders.  Scale 2 makes dust of  *)
(* small fills.                                                            *)
EXTENDS Matcher, TLC

CONSTANTS a, b, c, k, l, m, r1, r2, r3, r4, r5

Symmetric == Permutations(Requests)

Key == a :> k @@ b :> l @@ c :> m

Order(maker, side, base, price, nonce, epoch, expiry, tif, venues) ==
  [maker |-> maker, signer |-> Key[maker], side |-> side, base |-> base, price |-> price,
   nonce |-> nonce, epoch |-> epoch, expiry |-> expiry, tif |-> tif, venues |-> venues]

Quote(maker, side, capacity, minimum, levels, nonce, expiry) ==
  [maker |-> maker, signer |-> Key[maker], side |-> side, capacity |-> capacity,
   minimum |-> minimum, levels |-> levels, nonce |-> nonce, epoch |-> 0, expiry |-> expiry]

BookOrders ==
  {Order(a, "sell", 2, 4, 1, 0, 3, "gtc", {"clob"}),
   Order(a, "sell", 1, 3, 1, 0, 3, "gtc", {"clob"}),
   Order(a, "sell", 2, 2, 1, 1, 3, "gtc", {"clob"}),
   [Order(a, "sell", 1, 2, 2, 0, 3, "gtc", {"clob"}) EXCEPT !.signer = m],
   Order(b, "sell", 1, 2, 1, 0, 2, "gtc", {"clob"}),
   Order(b, "buy", 2, 4, 2, 0, 3, "fok", {"clob"}),
   Order(c, "buy", 1, 4, 1, 0, 3, "ioc", {"clob"}),
   Order(c, "buy", 3, 3, 2, 0, 3, "gtc", {"clob"})}

SolverOrders ==
  {Order(a, "sell", 1, 3, 1, 0, 3, "gtc", {"clob"}),
   Order(b, "buy", 3, 3, 1, 0, 3, "gtc", {"clob", "solver"}),
   Order(b, "buy", 1, 4, 2, 0, 3, "ioc", {"clob", "solver"}),
   Order(b, "buy", 4, 4, 3, 0, 3, "fok", {"clob", "solver"})}

SolverQuotes ==
  {Quote(c, "sell", 3, 2, <<[cumulative |-> 1, price |-> 2], [cumulative |-> 3, price |-> 3]>>, 1, 2),
   Quote(c, "sell", 2, 1, <<[cumulative |-> 2, price |-> 3]>>, 2, 3),
   Quote(c, "sell", 1, 1, <<[cumulative |-> 1, price |-> 1]>>, 1, 3)}

MarketOrders == BookOrders \cup SolverOrders

VARIABLE market  \* which of the two a behaviour is about

MarketInit == MatcherInit /\ market \in {"book", "solver"}

MarketNext ==
  /\ UNCHANGED market
  /\ MatcherEvent(IF market = "book" THEN BookOrders ELSE SolverOrders,
                  IF market = "book" THEN {} ELSE SolverQuotes)

MarketSpec == MarketInit /\ [][MarketNext]_<<matcherVars, market>>
=============================================================================
