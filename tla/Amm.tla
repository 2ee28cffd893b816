--------------------------------- MODULE Amm ----------------------------------
(***************************************************************************)
(* The automated market maker contracts (contracts/src/amm): the factory's *)
(* pairs, each holding ZEC and one quote token against shares of its own,  *)
(* and the router that pulls a caller's tokens into a pair and calls it in *)
(* one transaction.  Anyone may also send tokens to a pair and call it in  *)
(* a later transaction, with another caller's transaction in between.      *)
(*                                                                         *)
(* Allowances are ample and amounts are far from 2^256; nobody sends       *)
(* tokens to the router itself.                                            *)
(***************************************************************************)
EXTENDS Integers, FiniteSets, Absent

CONSTANTS
  ZecAsset, Nobody,   \* ZEC, and address(1), which has no key
  AmmQuotes,          \* the quote tokens of the factory's pairs
  Traders, TraderHolds,
  Sizes,              \* amounts of a call
  Minimums,           \* minOut, minShares, minZec and minQuote of a call
  PairBps, PairFee,   \* BPS and FEE_BPS
  MinimumLiquidity,
  MaxAmmTime

VARIABLES
  pairs,              \* getPair: the quotes with a pair
  reserves,           \* per pair: reserveZec and reserveQuote
  shareSupply,        \* per pair: totalSupply of its share token
  owned,              \* [token -> [holder -> amount]]
  routerPaused,
  ammTime             \* block.timestamp

ammVars == <<pairs, reserves, shareSupply, owned, routerPaused, ammTime>>

Share(q) == <<"share", q>>
PairOf(q) == <<"pair", q>>
AmmTokens == {ZecAsset} \cup AmmQuotes \cup {Share(q) : q \in AmmQuotes}
AmmHolders == Traders \cup {PairOf(q) : q \in AmmQuotes} \cup {Nobody}

ASSUME AmmAssumption ==
  /\ IsFiniteSet(Traders) /\ IsFiniteSet(AmmQuotes)
  /\ ZecAsset \notin AmmQuotes /\ Nobody \notin Traders
  /\ \A q \in AmmQuotes : Share(q) \notin AmmQuotes \cup {ZecAsset} /\ PairOf(q) \notin Traders \cup {Nobody}
  /\ TraderHolds \in Nat /\ Sizes \subseteq Nat /\ Minimums \subseteq Nat
  /\ PairBps \in Nat \ {0} /\ PairFee \in 0..PairBps /\ MinimumLiquidity \in Nat \ {0}
  /\ None \notin [AmmTokens -> [AmmHolders -> Nat]]

AmmInit ==
  /\ pairs = {}
  /\ reserves = [q \in AmmQuotes |-> [zec |-> 0, quote |-> 0]]
  /\ shareSupply = [q \in AmmQuotes |-> 0]
  /\ owned = [t \in AmmTokens |->
                [h \in AmmHolders |-> IF h \in Traders /\ t \in AmmQuotes \cup {ZecAsset}
                                   THEN TraderHolds ELSE 0]]
  /\ routerPaused = FALSE
  /\ ammTime = 0

-----------------------------------------------------------------------------
(* Token balances: `balances` after a transfer, None when it reverts.      *)

Transferred(balances, token, from, to, amount) ==
  IF balances = None \/ balances[token][from] < amount THEN None
  ELSE [balances EXCEPT ![token][from] = @ - amount, ![token][to] = @ + amount]

PairHolds(balances, q) ==
  [zec |-> balances[ZecAsset][PairOf(q)], quote |-> balances[q][PairOf(q)]]

Smaller(a, b) == IF a < b THEN a ELSE b

(* _sqrt: the whole part of the square root *)
Sqrt(n) == CHOOSE r \in 0..n : r * r <= n /\ n < (r + 1) * (r + 1)

QuoteOut(amountIn, reserveIn, reserveOut) ==
  LET withFee == amountIn * (PairBps - PairFee)
  IN (withFee * reserveOut) \div (reserveIn * PairBps + withFee)

ProductHolds(amountIn, reserveIn, reserveOut, amountOut) ==
  ((reserveIn + amountIn) * PairBps - amountIn * PairFee) * ((reserveOut - amountOut) * PairBps)
    >= reserveIn * reserveOut * PairBps * PairBps

(* Fault: shares are those of the larger side of the deposit. *)
SharesForLarger(q, inZec, inQuote) ==
  IF shareSupply[q] = 0 THEN Sqrt(inZec * inQuote) - MinimumLiquidity
  ELSE LET byZec == (inZec * shareSupply[q]) \div reserves[q].zec
           byQuote == (inQuote * shareSupply[q]) \div reserves[q].quote
       IN byZec + byQuote - Smaller(byZec, byQuote)

SharesFor(q, inZec, inQuote) ==
  IF shareSupply[q] = 0 THEN Sqrt(inZec * inQuote) - MinimumLiquidity
  ELSE Smaller((inZec * shareSupply[q]) \div reserves[q].zec,
               (inQuote * shareSupply[q]) \div reserves[q].quote)

-----------------------------------------------------------------------------
(* The pair's calls, on the balances left by the transfers made before it  *)
(* in the same transaction.                                                *)

Mint(q, balances, to, minShares) ==
  \E now \in {PairHolds(balances, q)} :
  \E inZec \in {now.zec - reserves[q].zec}, inQuote \in {now.quote - reserves[q].quote} :
    /\ inZec > 0 /\ inQuote > 0
    /\ \E shares \in {SharesFor(q, inZec, inQuote)} :
         /\ shares > 0 /\ shares >= minShares
         /\ \E first \in {IF shareSupply[q] = 0 THEN MinimumLiquidity ELSE 0} :
              /\ shareSupply' = [shareSupply EXCEPT ![q] = @ + first + shares]
              /\ owned' = [balances EXCEPT ![Share(q)][Nobody] = @ + first,
                                           ![Share(q)][to] = @ + shares]
    /\ reserves' = [reserves EXCEPT ![q] = now]

Burn(q, balances, to, minZec, minQuote) ==
  \E now \in {PairHolds(balances, q)}, shares \in {balances[Share(q)][PairOf(q)]} :
    /\ shares > 0
    /\ \E outZec \in {(shares * now.zec) \div shareSupply[q]},
          outQuote \in {(shares * now.quote) \div shareSupply[q]} :
         /\ outZec > 0 /\ outQuote > 0
         /\ outZec >= minZec /\ outQuote >= minQuote
         /\ owned' = Transferred(Transferred(
                       [balances EXCEPT ![Share(q)][PairOf(q)] = 0],
                       ZecAsset, PairOf(q), to, outZec), q, PairOf(q), to, outQuote)
    /\ shareSupply' = [shareSupply EXCEPT ![q] = @ - shares]
    /\ reserves' = [reserves EXCEPT ![q] = PairHolds(owned', q)]

Swap(q, balances, zecIn, minOut, to) ==
  \E tokenIn \in {IF zecIn THEN ZecAsset ELSE q}, tokenOut \in {IF zecIn THEN q ELSE ZecAsset},
     reserveIn \in {IF zecIn THEN reserves[q].zec ELSE reserves[q].quote},
     reserveOut \in {IF zecIn THEN reserves[q].quote ELSE reserves[q].zec} :
  \E amountIn \in {balances[tokenIn][PairOf(q)] - reserveIn} :
    /\ to # PairOf(q)
    /\ amountIn > 0 /\ reserveIn > 0 /\ reserveOut > 0
    /\ \E out \in {QuoteOut(amountIn, reserveIn, reserveOut)} :
         /\ out >= minOut /\ out > 0 /\ out < reserveOut
         /\ ProductHolds(amountIn, reserveIn, reserveOut, out)
         /\ owned' = Transferred(balances, tokenOut, PairOf(q), to, out)
    /\ reserves' = [reserves EXCEPT ![q] = PairHolds(owned', q)]
    /\ UNCHANGED shareSupply

Sync(q) ==
  /\ q \in pairs
  /\ reserves' = [reserves EXCEPT ![q] = PairHolds(owned, q)]
  /\ UNCHANGED <<pairs, shareSupply, owned, routerPaused, ammTime>>

(* mint, burn and swap called on the pair, not through the router *)
CallPair(q, a) ==
  /\ q \in pairs
  /\ \/ Mint(q, owned, a, 0)
     \/ Burn(q, owned, a, 0, 0)
     \/ \E zecIn \in BOOLEAN : Swap(q, owned, zecIn, 0, a)
  /\ UNCHANGED <<pairs, routerPaused, ammTime>>

-----------------------------------------------------------------------------
(* The router: whenLive guards deposits and swaps, not withdrawals.        *)

AddLiquidity(q, a, zecIn, quoteIn, minShares, deadline) ==
  /\ ~routerPaused /\ ammTime <= deadline /\ q \in pairs
  /\ \E pulled \in {Transferred(Transferred(owned, ZecAsset, a, PairOf(q), zecIn),
                                q, a, PairOf(q), quoteIn)} :
       pulled # None /\ Mint(q, pulled, a, minShares)
  /\ UNCHANGED <<pairs, routerPaused, ammTime>>

RemoveLiquidity(q, a, shares, minZec, minQuote, deadline) ==
  /\ ammTime <= deadline /\ q \in pairs
  /\ \E pulled \in {Transferred(owned, Share(q), a, PairOf(q), shares)} :
       pulled # None /\ Burn(q, pulled, a, minZec, minQuote)
  /\ UNCHANGED <<pairs, routerPaused, ammTime>>

SwapExactIn(q, a, zecIn, amountIn, minOut, deadline) ==
  /\ ~routerPaused /\ ammTime <= deadline /\ q \in pairs
  /\ \E pulled \in {Transferred(owned, IF zecIn THEN ZecAsset ELSE q, a, PairOf(q), amountIn)} :
       pulled # None /\ Swap(q, pulled, zecIn, minOut, a)
  /\ UNCHANGED <<pairs, routerPaused, ammTime>>

(* pause by the pauser, unpause by the governor *)
PauseRouter ==
  /\ routerPaused' = ~routerPaused
  /\ UNCHANGED <<pairs, reserves, shareSupply, owned, ammTime>>

CreatePair(q) ==
  /\ q \notin pairs
  /\ pairs' = pairs \cup {q}
  /\ UNCHANGED <<reserves, shareSupply, owned, routerPaused, ammTime>>

(* A plain transfer of a token or of shares to a pair. *)
SendToPair(q, a, token, amount) ==
  /\ q \in pairs
  /\ owned[token][a] >= amount
  /\ owned' = Transferred(owned, token, a, PairOf(q), amount)
  /\ UNCHANGED <<pairs, reserves, shareSupply, routerPaused, ammTime>>

NextAmmBlock ==
  /\ ammTime < MaxAmmTime
  /\ ammTime' = ammTime + 1
  /\ UNCHANGED <<pairs, reserves, shareSupply, owned, routerPaused>>

AmmNext ==
  \/ \E q \in AmmQuotes, a \in Traders :
       \/ CallPair(q, a)
       \/ \E x, y \in Sizes, m \in Minimums : AddLiquidity(q, a, x, y, m, 0)
       \/ \E x \in Sizes, m, n \in Minimums : RemoveLiquidity(q, a, x, m, n, 0)
       \/ \E zecIn \in BOOLEAN, x \in Sizes, m \in Minimums : SwapExactIn(q, a, zecIn, x, m, 0)
       \/ \E t \in {ZecAsset, q, Share(q)}, x \in Sizes : SendToPair(q, a, t, x)
  \/ \E q \in AmmQuotes : Sync(q) \/ CreatePair(q)
  \/ PauseRouter
  \/ NextAmmBlock

-----------------------------------------------------------------------------
(* What a share stands for never falls: through deposits, withdrawals,     *)
(* swaps, stray transfers and syncs in any order, the product of the       *)
(* reserves per share squared does not decrease, rounding included, and a  *)
(* pool that was opened is never emptied.                                  *)
ShareKeepsValue ==
  [][\A q \in AmmQuotes : shareSupply[q] > 0 =>
       /\ shareSupply'[q] >= MinimumLiquidity
       /\ reserves'[q].zec > 0 /\ reserves'[q].quote > 0
       /\ reserves'[q].zec * reserves'[q].quote * shareSupply[q] * shareSupply[q]
            >= reserves[q].zec * reserves[q].quote * shareSupply'[q] * shareSupply'[q]]_ammVars
=============================================================================
