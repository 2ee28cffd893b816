------------------------------ MODULE MCClients -------------------------------
(***************************************************************************)
(* Small instances of the parts around the swap and the matcher: wallets,  *)
(* observers, panels, feeds and accounts.  They have nothing to do with    *)
(* each other: a behaviour is about one of them, its part, and leaves the  *)
(* others as they began.                                                   *)
(***************************************************************************)
EXTENDS AccountRecovery, EvmEvidence, WalletBar, ZecWallet, SwapObserver,
        ZcashArtifacts, Reserve, Payout, NativeOrder, PaperPool, TradeForm, SwapPlan,
        MatcherFeeds

VARIABLE part

CONSTANTS a1, a2, alice, bob, w1, w2, t1, t2, c1, c2, o1, usdc, usdt

-----------------------------------------------------------------------------
(* The wallet bar: the wallet's first account is one of two, alike.        *)
MCBarInit == BarInit /\ evmWallet.account = a1

(* The observer: two polls overlap until the first stop, one at a time     *)
(* after it, and a refund of the ZEC leg is seen with both legs funded.    *)
ObserverPart ==
  /\ ObserverNext
  /\ stops' = 0 \/ \A p \in Polls : p > 1 => observing'[p].step = "idle"
  /\ Len(evmLogs') = 2 \/ zecOutpoint' # "refunded"

(* Zcash artifacts: a dispute is opened after the secret is out, the later *)
(* of the two looks a builder takes.                                       *)
MCConventionalFee == [change \in BOOLEAN |-> 1]
ZcashPart == ZcashNext /\ (view'.disputed => view'.secret)

(* Payouts: two claims on one burn. *)
MCBurnOf == [c \in PayoutClaims |-> "burn"]

-----------------------------------------------------------------------------
(* The order surface: an enabled market, two configurations of it, and one *)
(* that is not enabled.  The page opens on the first.                      *)
MCDeployments ==
  { [market |-> usdc, config |-> "A", enabled |-> TRUE],
    [market |-> usdc, config |-> "B", enabled |-> TRUE],
    [market |-> usdt, config |-> "A", enabled |-> FALSE] }
MCNativeInit ==
  /\ NativeInit
  /\ context.deployment.config = "A" /\ context.market = usdc

(* The pool panel opens with the middle amount.  It and the ticket open on *)
(* the first of two markets that are alike.                                *)
MCPoolInit == PoolInit /\ amount = 2 /\ poolOnScreen = usdc
MCFormInit == FormInit /\ place.market = usdc

-----------------------------------------------------------------------------
(* Feeds: orders that cross, quotes of which one improves and expires.     *)
Offer(side, price, size, expiry) ==
  [side |-> side, price |-> price, size |-> size, expiry |-> expiry]
MCFeedOrders == {Offer("buy", 3, 2, 2), Offer("sell", 3, 2, 2)}
MCFeedQuotes == {Offer("sell", 3, 2, 2), Offer("sell", 2, 3, 1)}

-----------------------------------------------------------------------------
(* Plans of swaps: orders of both sides whose limits meet or do not, one   *)
(* with a script account, one too early, one solver's quote, and one whose *)
(* recipient account is on the wrong chain; a policy for each network and  *)
(* windows that fit or do not.                                             *)

Acct(chain, kind, who) == [chain |-> chain, kind |-> kind, who |-> who]
MCMarket(mainnet) == [quote |-> usdc, mainnet |-> mainnet, zecDecimals |-> 8]

PlanOrder(side, limit, size, expiry, kind, venues) ==
  LET who == IF side = "buy" THEN alice ELSE bob
      onEvm == Acct("evm", "evm", who)
      onZec == Acct("zec", kind, who)
  IN [side |-> side, limit |-> limit, amount |-> size, expiry |-> expiry, venues |-> venues,
      market |-> MCMarket(TRUE), protocol |-> "v1",
      maker |-> IF side = "buy" THEN onEvm ELSE onZec,
      recipient |-> IF side = "buy" THEN onZec ELSE onEvm]

AsParty(order, kind) ==
  [order |-> order, hash |-> order, kind |-> kind,
   accounts |-> [source |-> order.maker, recipient |-> order.recipient]]

MCPlanParties ==
  { AsParty(PlanOrder("buy", 4, 4, 9, "p2pkh", {"book", "solver"}), "order"),
    AsParty(PlanOrder("buy", 3, 3, 9, "p2pkh", {"book"}), "order"),
    AsParty(PlanOrder("sell", 3, 4, 9, "p2pkh", {"book", "solver"}), "order"),
    AsParty(PlanOrder("sell", 2, 2, 9, "p2pkh", {"book"}), "order"),
    AsParty(PlanOrder("sell", 2, 4, 9, "p2sh", {"book"}), "order"),
    AsParty(PlanOrder("sell", 2, 4, 1, "p2pkh", {"book"}), "order"),
    AsParty(PlanOrder("sell", 2, 4, 9, "p2pkh", {"solver"}), "quote"),
    [AsParty(PlanOrder("sell", 2, 4, 9, "p2pkh", {"book"}), "order")
       EXCEPT !.accounts.recipient = Acct("evm", "evm", alice)] }
MCPlannedFills ==
  [venue : {"book", "solver"}, index : {0}, base : {2, 3}, price : {2, 3, 4},
   fee : {0}, accepted : {1}]
MCPlanPolicies ==
  [market : {MCMarket(TRUE), MCMarket(FALSE)}, protocol : {"v1"}, delay : {6}, delta : {1, 2}]
MCTiming == [funding : {1}, claim : {1}, safety : {1, 2}]
MCMarketPolicies == {{MCMarket(TRUE)}, {}}
MCTermsContexts ==
  [secret : {"s"}, authorize : {2}, zecFund : {3}, evmFund : {3, 4}, cutoff : {5, 6, None},
   timing : MCTiming, markets : MCMarketPolicies]

MatchElsewhere ==
  [taker |-> AsParty(PlanOrder("buy", 4, 4, 9, "p2pkh", {"book", "solver"}), "order"),
   maker |-> AsParty(PlanOrder("sell", 2, 2, 9, "p2pkh", {"book"}), "order"),
   fill |-> [venue |-> "book", index |-> 0, base |-> 2, price |-> 2, fee |-> 0, accepted |-> 1]]

-----------------------------------------------------------------------------
clientVars ==
  <<part, recoveryVars, evidenceVars, barVars, zecVars, observerVars, zcashVars,
    reserveVars, payoutVars, nativeVars, poolVars, formVars, planVars, feedVars>>

Parts ==
  {"recovery", "evidence", "bar", "zec", "observer", "zcash", "reserve", "payout", "native",
   "pool", "form", "plan", "feeds"}

(* What a part may begin with is fixed in the behaviours of the others. *)
ClientsInit ==
  /\ part \in Parts
  /\ RecoveryInit /\ EvidenceInit /\ ObserverInit /\ ZcashInit
  /\ ReserveInit /\ PayoutInit /\ FeedInit
  /\ MCBarInit /\ (part = "bar" \/ evmWallet.chain = Mainnet)
  /\ ZecInit /\ (part = "zec" \/ zecAccount = a1)
  /\ MCNativeInit /\ (part = "native" \/ (context.workflow = TRUE /\ context.deployment.enabled = TRUE))
  /\ MCPoolInit
  /\ MCFormInit /\ (part = "form" \/ (place.simple = TRUE /\ market.last = 2))
  /\ SwapPlanInit /\ (part = "plan" \/ match = MatchElsewhere)

ClientsNext ==
  /\ UNCHANGED part
  /\ IF part = "recovery" THEN RecoveryNext ELSE UNCHANGED recoveryVars
  /\ IF part = "evidence" THEN EvidenceNext ELSE UNCHANGED evidenceVars
  /\ IF part = "bar" THEN BarNext ELSE UNCHANGED barVars
  /\ IF part = "zec" THEN ZecNext ELSE UNCHANGED zecVars
  /\ IF part = "observer" THEN ObserverPart ELSE UNCHANGED observerVars
  /\ IF part = "zcash" THEN ZcashPart ELSE UNCHANGED zcashVars
  /\ IF part = "reserve" THEN ReserveNext ELSE UNCHANGED reserveVars
  /\ IF part = "payout" THEN PayoutNext ELSE UNCHANGED payoutVars
  /\ IF part = "native" THEN NativeNext ELSE UNCHANGED nativeVars
  /\ IF part = "pool" THEN PoolNext ELSE UNCHANGED poolVars
  /\ IF part = "form" THEN FormNext ELSE UNCHANGED formVars
  /\ IF part = "plan" THEN SwapPlanNext ELSE UNCHANGED planVars
  /\ IF part = "feeds" THEN FeedNext ELSE UNCHANGED feedVars

ClientsSpec == ClientsInit /\ [][ClientsNext]_clientVars
=============================================================================
