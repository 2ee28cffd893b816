------------------------------ MODULE PaperPool ------------------------------
(***************************************************************************)
(* The terminal's historical pool panel: a constant-product pool for each  *)
(* market, the session's shares in it, and a review that is opened for an  *)
(* amount and completed, perhaps after the amount, the market or the pause *)
(* changed.                                                                *)
(***************************************************************************)
EXTENDS Integers, Absent

CONSTANTS
  PoolMarkets,
  SeedZec, SeedQuote,      \* reserves each pool begins with
  PoolAmounts,             \* ZEC amounts the visitor may enter
  PoolBps, PoolSwapFee,    \* basis points: the whole, the fee
  MaxPoolSteps             \* bound: mints, burns and swaps

ASSUME PoolAssumption ==
  /\ SeedZec \in Nat \ {0} /\ SeedQuote \in Nat \ {0}
  /\ PoolSwapFee \in Nat /\ PoolBps \in Nat /\ PoolSwapFee < PoolBps
  /\ PoolAmounts \subseteq Nat

VARIABLES
  pool,           \* market -> [zec, quote, shares]
  heldShares,     \* market -> the session's shares
  deposits,       \* market -> [zec, quote] the session entered with
  amount, poolOnScreen,
  tradingPaused, feedShown,   \* feedShown: the feed is "illustrative"
  poolReview,     \* [kind, zec] or None
  poolSteps

poolVars == <<pool, heldShares, deposits, amount, poolOnScreen, tradingPaused, feedShown, poolReview,
              poolSteps>>

SeedPool == [zec |-> SeedZec, quote |-> SeedQuote, shares |-> SeedZec]
NoDeposit == [zec |-> 0, quote |-> 0]

PoolInit ==
  /\ pool = [m \in PoolMarkets |-> SeedPool]
  /\ heldShares = [m \in PoolMarkets |-> 0] /\ deposits = [m \in PoolMarkets |-> NoDeposit]
  /\ amount \in PoolAmounts /\ poolOnScreen \in PoolMarkets
  /\ tradingPaused = FALSE /\ feedShown = TRUE /\ poolReview = None /\ poolSteps = 0

-----------------------------------------------------------------------------
(* Pool arithmetic. *)

(* Fault: the quote side of a deposit is rounded down. *)
FlooredQuote(zec, p) == (zec * p.quote) \div p.zec

BalancedQuote(zec, p) == (zec * p.quote + p.zec - 1) \div p.zec

Minted(p, zec) ==
  LET quote == BalancedQuote(zec, p)
      shares == (zec * p.shares) \div p.zec
  IN  IF zec > 0 /\ quote > 0 /\ shares > 0
      THEN [pool |-> [zec |-> p.zec + zec, quote |-> p.quote + quote, shares |-> p.shares + shares],
            shares |-> shares, quote |-> quote]
      ELSE None

Burned(p, shares) ==
  [zec |-> p.zec - (shares * p.zec) \div p.shares,
   quote |-> p.quote - (shares * p.quote) \div p.shares,
   shares |-> p.shares - shares]

SwapOut(zec, p) ==
  LET paid == zec * (PoolBps - PoolSwapFee)
  IN  (paid * p.quote) \div (p.zec * PoolBps + paid)

Swapped(p, zec) ==
  IF zec > 0 /\ SwapOut(zec, p) \in 1..p.quote - 1
  THEN [p EXCEPT !.zec = @ + zec, !.quote = @ - SwapOut(zec, p)]
  ELSE None

\* amountPreview: an amount that mints nothing is not valid for a swap either.
Valid == Minted(pool[poolOnScreen], amount) # None

-----------------------------------------------------------------------------
(* The panel. *)

CanReview == feedShown /\ ~tradingPaused

RequestPoolReview(kind) ==
  /\ CanReview /\ Valid
  /\ poolReview' = [kind |-> kind, zec |-> amount]
  /\ UNCHANGED <<pool, heldShares, deposits, amount, poolOnScreen, tradingPaused, feedShown, poolSteps>>

\* Completing takes the amount and the market of the moment.
ExecuteMint ==
  /\ poolReview # None /\ poolReview.kind = "mint"
  /\ Valid /\ poolSteps < MaxPoolSteps
  /\ \E minted \in {Minted(pool[poolOnScreen], amount)} :
       /\ pool' = [pool EXCEPT ![poolOnScreen] = minted.pool]
       /\ heldShares' = [heldShares EXCEPT ![poolOnScreen] = @ + minted.shares]
       /\ deposits' = [deposits EXCEPT ![poolOnScreen] =
                         [zec |-> @.zec + amount, quote |-> @.quote + minted.quote]]
  /\ poolReview' = None /\ poolSteps' = poolSteps + 1
  /\ UNCHANGED <<amount, poolOnScreen, tradingPaused, feedShown>>

ExecuteSwap ==
  /\ poolReview # None /\ poolReview.kind = "swap"
  /\ Valid /\ poolSteps < MaxPoolSteps
  /\ \E swapped \in {Swapped(pool[poolOnScreen], amount)} :
       /\ swapped # None
       /\ pool' = [pool EXCEPT ![poolOnScreen] = swapped]
  /\ poolReview' = None /\ poolSteps' = poolSteps + 1
  /\ UNCHANGED <<heldShares, deposits, amount, poolOnScreen, tradingPaused, feedShown>>

\* All the session's shares, paused or not.
BurnSessionShares ==
  /\ heldShares[poolOnScreen] > 0 /\ poolSteps < MaxPoolSteps
  /\ pool' = [pool EXCEPT ![poolOnScreen] = Burned(@, heldShares[poolOnScreen])]
  /\ heldShares' = [heldShares EXCEPT ![poolOnScreen] = 0]
  /\ deposits' = [deposits EXCEPT ![poolOnScreen] = NoDeposit]
  /\ poolSteps' = poolSteps + 1
  /\ UNCHANGED <<amount, poolOnScreen, tradingPaused, feedShown, poolReview>>

PausePool ==
  /\ tradingPaused' = ~tradingPaused
  /\ UNCHANGED <<pool, heldShares, deposits, amount, poolOnScreen, feedShown, poolReview, poolSteps>>

SelectPoolFeed(shown) ==
  /\ feedShown' = shown /\ poolReview' = None
  /\ UNCHANGED <<pool, heldShares, deposits, amount, poolOnScreen, tradingPaused, poolSteps>>

CloseReview ==
  /\ poolReview # None /\ poolReview' = None
  /\ UNCHANGED <<pool, heldShares, deposits, amount, poolOnScreen, tradingPaused, feedShown, poolSteps>>

EnterAmount ==
  /\ amount' \in PoolAmounts
  /\ UNCHANGED <<pool, heldShares, deposits, poolOnScreen, tradingPaused, feedShown, poolReview, poolSteps>>

SelectPool ==
  /\ poolOnScreen' \in PoolMarkets
  /\ UNCHANGED <<pool, heldShares, deposits, amount, tradingPaused, feedShown, poolReview, poolSteps>>

ResetPool ==
  /\ pool' = [m \in PoolMarkets |-> SeedPool]
  /\ heldShares' = [m \in PoolMarkets |-> 0] /\ deposits' = [m \in PoolMarkets |-> NoDeposit]
  /\ poolReview' = None
  /\ UNCHANGED <<amount, poolOnScreen, tradingPaused, feedShown, poolSteps>>

PoolNext ==
  \/ \E kind \in {"mint", "swap"} : RequestPoolReview(kind)
  \/ ExecuteMint \/ ExecuteSwap \/ BurnSessionShares
  \/ PausePool \/ CloseReview \/ EnterAmount \/ SelectPool \/ ResetPool
  \/ \E shown \in BOOLEAN : SelectPoolFeed(shown)

-----------------------------------------------------------------------------
Worth(p) == p.zec * p.quote

\* Whatever the session mints, burns and swaps, the pool is never shorted: from
\* one reset to the next the seeded shares stay out, the product of the reserves
\* behind a share never falls below the seed's, and what the session would leave
\* behind by burning now is worth the seed (the rounding balancedQuoteAtoms
\* argues for).
NeverShorted ==
  \A m \in PoolMarkets :
    LET p == pool[m]
        out == Burned(p, heldShares[m])
    IN  /\ p.shares = SeedZec + heldShares[m]
        /\ Worth(p) * SeedZec * SeedZec >= Worth(SeedPool) * p.shares * p.shares
        /\ Worth(out) >= Worth(SeedPool)
=============================================================================
