# Phlebas in TLA+

Phlebas matches signed orders for native ZEC against Ethereum stablecoins off
chain and settles every fill with one atomic swap on two chains. This directory
models the parts of the repository that decide who trades with whom, what a
fill's state is, what survives a crash, and who ends with which coins. The
models are checked with TLC on small instances; what matters most is proved with
TLAPS for every value of the constants. Paths below are relative to the
repository; `lib/` is `src/lib/`.

`PROJECT.json` lists the components, the runs, for each property a mutation of
the code that it catches, the source lines of each definition, the findings,
the hazards and the theorems.

## 1. The system

### Components, their state and their operations

| Component | State | Operations | What makes it correct |
| --- | --- | --- | --- |
| Matcher (`lib/persistent-matcher.ts`, routing and lifecycle helpers) | account epochs, nonce claims, cancelled nonces, index of accepted orders, open book, solver quotes, account signers, executions, receipts | accept and cancel an order, advance an epoch, accept and cancel a solver quote, control cutover | nothing trades beyond its amount, outside its price, with its own account or after it is gone; a nonce is used once; better price first, then earlier |
| Matcher store and service (`services/matcher/`) | journal file, checkpoint, initialization marker, writer lock, queue of mutations, clock; requests in the server | open and replay, mutate, checkpoint, fault, close; admit, answer | an acknowledged event is never lost or applied twice; every caller is answered |
| Swap state machine (`lib/swap-state.ts`, `swap-policy.ts`) | per leg phase, artifact, fact, reports, confirmations; secrets; disputes, retractions, resolutions | authorize, prepare and abandon funding, observe and confirm funding and spend, flag, retract, replace, expire | no step on less than a quorum; no ZEC claim before the stablecoin claim is final; disputes freeze; final stays final |
| Swap journal and root (`lib/swap-journal.ts`, `swap-root.ts`) | receipts and their semantic slots | append, replay, snapshot | receipts, which are for ever, agree with collections, which change |
| Coordinator store (`services/swap-coordinator/persistent-store.ts`, `durable-file.ts`) | `store.json`, `writer.lock`, a handle's memory and promise chain | initialize, open, append, close | what a caller was shown survives crashes; one writer |
| Conditional lock (`contracts/src/swap/ConditionalLock.sol`) | state, token balance | fund, claim, refund | pays the amount out once; holds it while funded |
| Two-chain swap (lock, ZEC script of `lib/zcash-htlc.ts`, wallet reviews of `lib/stablecoin-wallet-action.ts` and `lib/zcash-bound-artifacts.ts`) | both locks, both chains' heads and final blocks, what was sent | review and sign, broadcast, inclusion, finality, reorganization | an honest party is paid or gets its coins back |
| Atomic swap observer and poller (`lib/atomic-coordinator.ts`, `services/atomic-swap-observer/`) | projection of each swap, snapshot, marker | bootstrap, poll, reduce, write | what a poll writes shows what the chain showed; it has no authority |
| Matcher client workflow, controls, account recovery, the order panel | draft, review, signed bytes, pending request; one-time challenges; what the panel shows | draft, review, sign, post, repost, cancel; recover page by page | one signature per intent; what is told to the user is so; a recovery is complete |
| Wallet sessions (`evm-wallet*.ts`, `zec-wallet-*.ts`, `wallet-bar.tsx`, `landing-wallet-connect.tsx`) | session, connection generation, account, chain | connect, change, disconnect, poll | what is shown as connected is so, or its end is on the way; an answer to an old session is dropped |
| Swap plan and terms (`atomic-swap-plan.ts`, `matcher-swap-terms.ts`, `swap-domain.ts`) | a matched fill, its plan, unsigned terms | plan, materialize, validate, open | the terms bind both parties to what they signed, in time |
| Zcash artifacts (`zcash-spend.ts`, `zcash-pczt.ts`) | a built transaction, its review, a snapshot | build claim or refund, review, save, resume | what is resumed is what was agreed, and can still be mined |
| Evidence source (`evm-receipt-source.ts`) | one read under way | read funding, read terminal | what is read is of one final chain |
| Public feeds (`matcher-feeds.ts`) | none of their own: pages of the matcher's state | quotes, executions, depth, ticker | a reader misses nothing, though the state moves between pages |
| Settlement contract (`Settlement.sol`), AMM contracts (`contracts/src/amm/`) | balances, filled amounts, nonces, epochs; reserves, shares | settle, cancel; mint, burn, swap | nobody gives more than signed; a share never loses value |
| Paper market (`trading-terminal.tsx`, `trade-ticket.tsx`, `liquidity-panel.tsx`, `session.ts`, `lp.ts`, `amm.ts`, `twap.ts`) | books, accounts, reservations, jobs, session log; ticket and review; pool | submit, cancel, slice, expire; edit, review, confirm; deposit, withdraw | the log rebuilds the session; what is sent was reviewed; the pool is never shorted |
| Historical reserve, payout and accounting | withdrawal claims, burns, ledger of fills | sign, mark, confirm, restore; attest, refund; settle | every claim is backed, a burn answered once, a fill settled as signed |
| Rate limiter (`rate-limit*.ts`) | token buckets and windows of the clients it keeps | take, prune | no client gets more than its budget, though it was forgotten |
| Encodings (Zcash script, PCZT, addresses, EIP-712, hashes), web terminal, deployment scripts | none of the protocol | pure functions, presentation | out of scope |

### How they interact

A client drafts and reviews an order, has the wallet sign it and posts it through
the web server's gateway to the matcher's server, whose store stamps it with a
time, appends it to its journal and runs it through the matcher, which routes it
over the book and the live quotes and records the fills. Each fill is planned as
two legs and becomes the terms of a swap. For each swap a coordinator keeps a
store with a journal of events; each event is one operation of the swap state
machine. Chain evidence reaches it as reports of independent observers: a quorum
on one chain view, deep and old enough, makes a confirmation. The wallets of the
two parties sign funding, claim and refund transactions after their own reviews
of the chain and of the swap state; the secret revealed by the claim of the
stablecoin lets the buyer claim the ZEC. The contract and the script know only
their deadlines, the hashlock and the two parties. Beside this path stand a
read-only observer with a snapshot of its own, the public feeds, the paper market
in the browser, and the contracts and ledgers of earlier designs.

### What is hard

* Reports arrive in any order, are retracted after a reorganization, replaced,
  and offered again; operators flag disputes at any moment.
* Two chains move, reorganize and become final independently; each transaction
  races a deadline of its own chain, and the secret is public before its claim is
  mined.
* A store's process or machine can die between any two of: write, rename, sync,
  reply. Handles on one directory race for the lock, appends queue behind each
  other, and an operator may remove a lock file.
* Orders expire, are cancelled, fall with their epoch or are used up, and four
  collections are pruned by different rules at different events. Rounding drops
  fills and starts the allocation over.
* A token may keep a fee or call back in the middle of the contract's transfer.
* The matcher's journal, checkpoint and memory can disagree after any crash or
  failed write; the answer to a post is lost, late or comes from a server that has
  died since; the clock may be set back.
* A page of the browser asks a wallet, a workflow or a feed something, and the
  account, the market, the book or the page itself has changed when the answer
  comes.
* A reader pages through a book, a journal or a chain that moves between pages.

The hazards, one by one and each at its line, are in `PROJECT.json`.

## 2. Modules

| Module | Models | State and actions |
| --- | --- | --- |
| `SwapState` | `swap-state.ts` under `swap-policy.ts` | one variable per field; one action per exported operation |
| `SwapJournal` | `swap-journal.ts` over `SwapState` | `slots`: the occupied semantic slots; each step of `SwapState` records one |
| `DurableLog` | abstract: one log, nothing shown is lost | `log`, `shown` |
| `SwapStore` | the coordinator store on its directory | `disk` and `durable` directory, per handle a program counter, memory, queue and running append |
| `ConditionalLock` | the Solidity contract over a hostile token | contract state, balances, the call in progress |
| `AtomicSwap` | one swap on both chains | per chain head and final lock; what each party sent; who is honest |
| `Exchange` | abstract: what traders and solvers are promised | standing and spent offers, amount filled of each |
| `Routing` | `matcher-routing.ts`, `price-time.ts`, `solver-quotes.ts`, fill limits of `atomic-swap-plan.ts` | pure functions, no recursion |
| `Matcher` | `persistent-matcher.ts` over `Routing` | one action per kind of event |
| `MatcherStore` | `services/matcher/persistent-store.ts`, `journal.ts` | `disk` and `safe` directory, writer lock, memory, queue, the mutation under way; one action per write, sync and crash |
| `MatcherService` | `matcher-order-workflow.ts`, `matcher-order-controls.ts`, `matcher-proxy.ts`, `server.ts` over `MatcherStore` | `desk`: what the browser holds of a task; `calls`: posts on their way |
| `SwapPlan` | `atomic-swap-plan.ts`, `matcher-swap-terms.ts`, `swap-domain.ts`, `swap-policy.ts` | a matched fill through plan, terms and opening |
| `EvmEvidence` | `evm-receipt-source.ts` over a chain that moves | `reading`: the read under way, one action per request |
| `ZcashArtifacts` | `zcash-spend.ts`, `zcash-pczt.ts`, `zcash-transaction-policy.ts` | built, reviewed, saved and resumed artifact over the Zcash tip |
| `SwapObserver` | `services/atomic-swap-observer/`, the two event reducers | polls by step, held state, snapshot, marker |
| `WalletBar`, `ZecWallet` | `wallet-bar.tsx`, `landing-wallet-connect.tsx` and the session modules under them | the wallet, the page, and each connection by step |
| `NativeOrder` | `native-matcher-order-action.tsx` | context, review, request and outcome of the order panel |
| `AccountRecovery` | account recovery in `server.ts`, `matcher-proxy.ts`, `matcher-account-recovery*.ts` | store, challenges, the client's pages |
| `MatcherFeeds` | `matcher-feeds.ts`, public routes of `server.ts` | readers with cursors over a moving state |
| `RateLimit` | `rate-limit.ts`, `rate-limit-http.ts` | buckets and windows of the clients kept |
| `Settlement`, `Amm` | `Settlement.sol`; `contracts/src/amm/` | balances, filled amounts, epochs; reserves and shares |
| `PaperTerminal`, `TradeForm`, `PaperPool` | the paper session, its ticket and its pool panel | books, accounts, jobs, log; form and review; pool and deposit |
| `Reserve`, `Payout`, `SettlementAccounting` | `reserve.ts`, `payout.ts`, `settlement-accounting.ts` | claims and native transactions; burns; ledger of fills |
| `Absent`, `Sums` | `None`, the value of what is not there; sums over finite sets | |
| `Lemmas` | theorems about the operators the modules share | |
| `SwapProofs` | theorems on `SwapState` and `SwapJournal` | |
| `SwapStoreProofs`, `MatcherServiceProofs` | theorems on the two stores, and on the client and the public feeds over the second | |
| `AtomicSwapProofs` | theorems on `AtomicSwap`, `SwapPlan`, `EvmEvidence`, `ZcashArtifacts`, `SwapObserver` | |
| `ContractProofs` | theorems on `ConditionalLock`, `Settlement` and `Amm` | |
| `MatcherProofs` | theorems on `Matcher` and `Exchange` | |
| `ClientProofs` | theorems on the wallets, the panels, the recovery, the rate limiter and the ledgers of reserve, payouts and fills | |
| `MC*` | instances for TLC | |

`SwapJournal` extends `SwapState`; `MatcherService` extends `MatcherStore`;
`Matcher` extends `Routing` and implements `Exchange` (`Promise == INSTANCE
Exchange WITH ...`); `SwapStore` and `MatcherStore` each implement `DurableLog`
(`Log`, `Durable`). `AtomicSwap` takes from `SwapState` and from the wallet code
only the guards that stand before a signature. Operators named in a comment
"Fault:" are the mutated forms that the properties are tested against; no
specification uses them.

`MCComponents`, `MCClients` and `MCSwapJournal` hold small instances of modules that
have nothing to do with each other. A behaviour is about one of them, its `part`; the others
stay as they began. This is a way to check many modules in one run, not a claim
that they interact.

### SwapState

An operation that throws is a step that is not taken; one that returns its
argument unchanged (a repeated report, authorization, retraction or flag) is a
stuttering step. Every operation starts with `assertSwapStateIntegrity`, so
`SwapIntegrity` is a conjunct of every guard. Facts and reports are their own
identifiers (in the code: hashes of their content), the preimage is a value, the
signed terms are the deadlines, and `binds` stands for the comparison of a fact
with the terms, field by field.

`RecoverableIntegrity` is the assertion without its last demand, that resolved
reports stay out of the collections. The library can break that demand
(finding 1), which is why the two are separate. Observers choose the identifiers
of their reports, so in a state where a resolved report has come back the same
identifier may stand for two contents, and the demand that replacements can be
traced is made only where `ResolvedStayInactive` holds; with the last demand both
hold, as `SwapIntegrity` says.

### SwapJournal

A receipt occupies a slot: the kind of the event and what the code includes of
its payload. An occupied slot refuses other events and repeats of the same event
change nothing. The receipt holds the state root of the next state, and the root
refuses a state that its assertion rejects: `Record` has `SwapIntegrity'` as a
conjunct, so that the recorded state passes is an assumption of the model about the
root and not something a run shows. `IntegrityLostByReturn` says what is left for
the root to refuse. Hash chains are not modelled: what they protect against is a
change of the file, which is out of scope here.

Slots are permanent and the collections of reports are not, and `ReceiptsMatchReports`
says how far the two agree. It has one exception, which is in the code: a source
whose report was retracted and replaced by another source's has used the slot of its
report and has no place in the collection, so that it can never again report that
fact. Where the policy needs every observer, the quorum for that fact is then out
of reach of the journal.

### SwapStore

A handle stands for a `PersistentSwapStore` object with its process. `disk` is
the directory as processes see it, `durable` as last synced; after a machine
crash each directory entry is one or the other, independently, which is what
POSIX leaves open. `atomicWriteFile` is split at the points where a crash
matters: the rename, and the sync of the directory. A temporary file that was not
renamed is invisible, so its writing is not a step. Files are synced before their
rename, so a renamed document is whole. Events are in `expected`/`event`
requests; an event occurs once in a log, because a second append of it is a
duplicate or a conflict. Codec failures, size limits and I/O errors are one
nondeterministic refusal at each place where they can occur. `careful` says
whether operators remove a lock only when it is stale.

### ConditionalLock

A call runs in two steps, up to the token's transfer and from its return.
Between them the token may keep a fee and other accounts may move tokens; calls
into the contract in that window are stopped by `nonReentrant`, `call = None`
here. A revert restores what the call began with, token transfers included.

### AtomicSwap

`honest` is chosen at the start: neither party, one, or both follow the code. An
honest party sends a transaction only if `Review` holds, any other party whenever
it likes. A transaction that was sent is mined at any time at which its script
accepts it, again after a reorganization too. `now` is the time of the next
block. ZEC fees, transaction expiry and rebuilding of an expired transaction are
left out: a transaction that expired and was rebuilt is one that waited. Both ZEC
spends are built from a confirmed funding (`buildTermsBoundZcashClaimArtifact`,
`buildTermsBoundZcashRefundArtifact`): the claim also asks for the confirmed
stablecoin claim, the refund for its maturity and no more, so a seller who was paid
may take back what the buyer left behind after its deadline. On Ethereum the claim is
reviewed against a final lock (`FinalizedClaimHead`), the refund against one that was
observed. `Finalize` is the chain's own doing and external.

`Tick` carries the timing assumptions: a block is final within `Delay`; what an
honest party sent and its script accepts is final within `Delay`; an honest buyer
answers a final claim within `Reaction`. `SwapTiming` states what the deadlines
must give: besides `assertSwapTimingPolicy`, a distance of the two refund times
of at least `Delay + Reaction + Delay` and a wallet window of at least `Delay`.
The code asks for configured windows and does not know these delays: choosing
them is the operator's part. A coordinator frozen by a dispute is outside
the model, because the honest buyer that waits for it would not answer within
`Reaction`; see finding 2.

### Routing and Matcher

An order and a quote are records that are their own hashes, and a signature is
the signer they name. Each action is one call of `applyPersistentMatcherEvent` at
a time `t >= now`, with everything it changes: bodies and indexes are pruned
(`Commit`), nonces claimed, the account bound to its signer, the receipt written.
A route is computed as in the code: crossed makers are allotted in price-time
order, segments of both venues are merged, fills that do not round within both
limits are dropped and the allocation starts over, a quote below its minimum is
taken out, and the best of three candidates (book, solvers, both) is selected.
The restart of the allocation is a recursive function over the shrinking set of
segments.

Things a reader of the code may stumble over, all in the model:

* The book plan is allotted before dust is removed: a dust maker at the front
  keeps its allotment from the makers behind it.
* A dropped level of a quote takes the deeper levels' cumulative amounts along.
* The cutover event is stamped with the time of the last event, 0 when there was
  none, while every other event needs `t >= 1`.
* The cap on accepted orders looks at the index as the previous event left it
  (finding 3).

### MatcherStore

`disk` is what a process reads and `safe` what a power failure leaves for certain.
Each write, sync, rename and unlock of `open`, `mutate` and `close` is a step of
its own, a fault of the machine or of the disk (`Weather`) may come between any
two. Half a record may be left of the append in flight, and by a power failure of
any record that was not synced. A command is its own hash; the store
stamps it with its clock, which an administrator may set back. A matcher is
abstracted to what the store needs of it: a command is accepted, refused, or a
repetition of one that was accepted. `Durable` maps the store to `DurableLog`:
the log is the journal without its broken tail, and what was shown is what was
published or answered.

Two handlings differ from the coordinator's store: a failed write after the
append faults the whole store, which then answers 503 until a restart, and a full
journal does the same.

### MatcherService

A task is one order or control that a user reviewed. `desk` holds what the
browser knows of it, `calls` the posts under way with their stage (waiting in the
server, in the store's queue, answered, lost). `Wants` says which task cancels
which: a cancellation is drafted only from a confirmed order. `Gateways` chooses
between the web server's proxy, which rewrites receipts, and a fetcher that
returns them whole. Facts the model shows:

* An order's receipt fits only a direct fetcher and a control's only the proxy
  (finding 5), so no order can be placed and then cancelled end to end.
* While a checkpoint is being written the gateway answers 503.
* `postSignedMatcherOrder` reports any 4xx as a rejection, on a retry too, though
  the first post may have been accepted (`matcher-order-workflow.ts:263`). The
  panel then says "Matcher rejected the reviewed order"
  (`native-matcher-order-action.tsx:104`). `FirstRefusalFinal` therefore speaks of
  the first post only.

Both controls are one kind of task, and a control is signed once per task: its
request identifier includes the time. The static tokens of `matcher-auth` are
left out.

### SwapPlan

The chain plan, terms, validation, opening for one fill of every pair of
`PlanParties`. Four sets of settings must fit and each is enumerated apart:
refund times come from the plan's policy, cutoffs from the context, windows from
the timing policy, markets from the market policy. A plan whose quote amount was
rounded is made, but never turned into terms (`swap-domain.ts:177`); a plan
admits a `p2sh` seller account, terms do not (`matcher-swap-terms.ts:69`). In the
repository only tests call `materializeMatcherSwapTerms`. The cap on the signed
maximum fee (`swap-domain.ts:169`) is left out, as the fee itself must be 0.

### EvmEvidence

The reader asks the node request after request; `Mine`, `Finalize` and
`Reorganize` may come between any two, and the node may answer from another
chain. Each block is read by its number and must bear the hash its receipt
named, and the pinned final block is read again at the end: that is what makes
`EvidenceStands` true. The decoding of blocks,
receipts and logs is reduced to the one transaction of a block and whether it
succeeded.

### ZcashArtifacts

A claim or refund is built from the confirmed state, bound to the swap, reviewed
with the bytes the wallet returned, saved as a snapshot and resumed. Nothing
outside `lib/` calls this code yet, and the readiness policy always says no
(`ready: false`). Things in the model that a reader may not expect:

* The refund builder asks neither for the other leg nor for disputes; the claim
  builder asks for both.
* `evaluateExpiry` accepts an observed height equal to the expiry, when the next
  block is too late already; the laboratory note calls a transaction eligible
  through block N. An expiry of 0 disables the check.
* `assertWalletPcztRestartReady` without a height uses the snapshot's own
  (`zcash-pczt.ts:742`), so `ResumedStands` asks for the expiry only where a height
  was supplied. A restart does not look at the swap's state.

### SwapObserver

Polls may overlap, as the HTTP handler does not serialize them; each reads the
chains, applies the whole log to what is held, writes and then holds its outcome.
The two reads of the Ethereum log in one poll are one, logs are not reorganized
(the code's reorganization detector is not wired in), alerts and cursors are left
out. After a failed bootstrap a poll still starts from the empty state and
overwrites the snapshot (`server.ts:296` against `docs/runbooks/observer-restart.md:42`);
the marker is written before any snapshot (`server.ts:107`). Because a poll applies
the whole log, its outcome shows the chain all the same: that is
`OutcomeShowsChain`, and it says nothing of what is on disk in the meantime. A ZEC
leg that is funded and spent between two polls is never seen funded.

### WalletBar and ZecWallet

The page, its wallet, and each connection with the question it waits for. A
wallet may answer late or never; the bar then stays busy. Ethereum wallets announce
a change before the page hears of it (`signals`); Zcash wallets announce nothing,
so the page polls. A reviewed Zcash session stores a fresh challenge
(`landing-wallet-connect.tsx:85`), though the guard's comment binds it to the signed
one (`zec-wallet-session-guard.ts:32`). Closing the page's dialog abandons review
and polling but leaves the session on screen.

### NativeOrder

`context` is what the panel was given and `retiring` the moment between a change
of it and the effect that clears what belonged to the old one. The outcome of a
confirmation in flight when the context changes is dropped. After
"receipt-unknown" the panel offers only a new review. The ticket is not part of the
context. No workflow is injected in production today.

### AccountRecovery and MatcherFeeds

Both read page by page from live state. A recovery's page is bound to a one-time
challenge and to one checkpoint for the whole walk, but lists the orders of the
moment it is answered, which may be ahead of that checkpoint until the next is
written; `RecoveryComplete` says what such a walk is worth. Whether the store accepts
mutations is asked when a request arrives and not after its body was read, so a page
may come from a store that faulted in between. Feeds are the same for executions and
quotes; depth is cut at a number of levels and the ticker at a number of records,
where its `windowTruncated` is also set when there are exactly that many. The state
under the feeds is simpler than the matcher's: an order meets at most one maker and one
quote, orders are not cancelled and no epoch moves; quotes are used up, cancelled and
expire, orders are used up and expire.
Which route is chosen is `Matcher`'s; signatures and accounts, which the
projections hide, are left out.

### RateLimit

One client is watched (the others are like it), the rest may crowd it out of the
bounded maps (`crowdedOut`): then it starts with a full bucket, which is the code's
choice. The clock is assumed monotone, as the code assumes.

### Settlement and Amm

One action per external function that changes state; a transaction is one step, as
nothing the tokens do here calls back. Orders are their own hashes. A pair may be
sent tokens between transactions, which `mint`, `burn`, `swap`, `sync` then find.
Neither is on the path of a native swap.

### PaperTerminal, TradeForm and PaperPool

A handler of the terminal works on the books and accounts of the last render and
replaces them whole, so that a timer's callback that executes two jobs keeps only
the last one's account while the tape keeps both (`trading-terminal.tsx:469`). That
is why `SessionConsistent` is about `steady` visitors, with one job on the market
they look at. `TradeForm` is the ticket with its review: a change of market,
variant or book drops the review, a change of the form does not. `PaperPool`
completes a review with the amount, market and pool of the moment, and a pause after
the review does not stop it.

Simplifications: `tape` is the whole history of fills, of which the page keeps the
latest 50 (`trading-terminal.tsx:413`). A change of the ticket's surroundings and the
render after it are one step. The market-data gate of `completeReview`
(`trade-ticket.tsx:572`), which can only refuse, is left out: more is sent in the
model than in the code.

### Reserve, Payout and SettlementAccounting

Ledgers of earlier designs, kept in `lib/`. `reserve.ts` and
`settlement-accounting.ts` have no caller outside tests; `payout.ts` feeds the
bridge panel's tour. Two things the models show and no property claims: an illegal call
turns even a signed payout claim to "rejected"; and a burn whose submission was
unresolved and restored becomes payable before it is final, against the message
"Only a finalized burn can become payable." (`payout.ts:129`). `Plan` of the accounting
is any fills against any snapshot: the planner is not trusted. Filled amounts only
grow, so the check on applied fill identifiers never decides.

One assumption is about the caller of `reserve.ts`: `MarkMined`, `ConfirmWithdrawal`
and an observation that a transaction was mined come only when the chain has shown it
mined or final (`known`), while `markWithdrawalMined` (`reserve.ts:288`),
`confirmWithdrawal` (`reserve.ts:338`) and `applyVerifiedTransactionObservation`
(`reserve.ts:310`) look at the claim alone and believe what they are told.
`WithdrawalsBacked` rests on it.

## 3. Runs

All runs are with `-workers 2`; each takes less than five minutes, most of them
less than one.
`CHECK_DEADLOCK FALSE` is set everywhere because every system here may really
stop: a swap is finished or has expired, every process is closed or dead, the
last block's time or height is reached, all request identifiers are used, or a
visitor has left. The bounds are the constants named `Max...` and the sets of
inputs in the `.cfg` files.

| Run | Question | Instance |
| --- | --- | --- |
| `swap_funding` | Do quorum, dispute, finality and integrity rules hold until both fundings and the stablecoin's claim are confirmed? | 3 observers, 2 required; 10 reports: two ZEC facts (one re-mined), a fork view, a spare report, the claim; times {0,2,4,6,7} on both sides of the deadlines; operators flag one report until 2 disputes are open |
| `journal` | Do receipts and collections of reports agree, whatever is retracted, replaced and offered again? Does the ledger of settled fills add up? | part `journal`: ZEC leg to its refund; 3 observers, 6 reports, 2 artifacts, 1 operator dispute. Part `fills`: 2 buyers and a seller, partial fills, costs that round up |
| `atomic_swap` | Are honest parties whole, paid, and their coins freed? | all four choices of honest parties; deadlines 2, 4, 8, 10, 15; `Delay` 2, `Reaction` 1, window 2: each inequality of `SwapTiming` is tight; 2 reorganizations per chain |
| `matcher` | Do index, book, quotes and root agree, is priority kept, is the promise to traders kept? | two markets. Orders: 8 of 3 accounts that cross, share nonces, name two signers, differ in epoch and time in force. Quotes: 4 orders and 3 quotes (two levels with a minimum; one that reuses a nonce; one that exceeds the capacity with another). 5 events |
| `matcher_service` | Does a command survive from browser to journal, and is what the browser tells so? | an order, its cancellation and a raw command; at most 2 posts of each and 3 in all, 2 records, a queue of 1 and two troubles, each a failed or half write or a crash, the crashes of a behaviour being deaths of the process or power failures; a clock set back |
| `components` | Causality of the swap state through claims and refunds; coordinator store; contract; settlement; AMM; paper session; rate limiter | one part per behaviour, below |
| `clients` | Wallets, readers, panels, feeds, reserve and payouts | one part per behaviour, below |
| `swap_resurrection`, `swap_conflict_stuck`, `matcher_cap`, `matcher_unsynced`, `matcher_receipt` | findings, section 4 | the instances of `swap_funding`, `matcher` and `matcher_service` |

Parts of `components`:

| Part | Instance |
| --- | --- |
| `spend` | 2 observers, both required; 13 reports of both claims and both refunds, one on a fork; times on both sides of every deadline |
| `store` | 2 handles, 2 events, queue of 1, any number of crashes. `careful` operators remove a lock only when it is stale; the others at any time, with one event |
| `lock` | amount 1, fees {0,1}, 2 tokens per account, times 0..4 across all deadlines |
| `settlement` | 2 makers, orders of each time in force, one unsigned, prices whose costs round; 3 settlements |
| `amm` | 1 quote token, 2 traders, fee of a tenth; deposits, withdrawals, swaps, stray transfers and syncs |
| `paper` | 2 tickets that take, rest, expire or are sliced; 2 orders, 1 job |
| `rate` | 2 clients of whom one is kept, capacity 3, 2 tokens a second, window 2, times 0..3 |

Parts of `clients`: recovery (pages of 1, orders that fill and expire meanwhile),
evidence (4 blocks, 1 reorganization), bar and zec (2 accounts, 2 connections, 2
moves of the wallet), observer (2 polls that overlap until the first stop), zcash
(heights to 2, one expiry), reserve (2 withdrawals, 2 transactions), payout (2
claims on one burn), native (3 deployments, 2 contexts, 2 calls), pool (3 steps),
form (2 markets, each shortcut), plan (8 parties, times to 10) and feeds (3 events,
pages of 1).

### What the properties say

* `EvidenceSound`: the state the operations build is one the next operation's
  assertion accepts, and a confirmation has its distinct observers on one chain
  view, deep enough, none of them retracted. The assertion is a guard as well; the
  point is that it holds *after* every step.
* `ReceiptsMatchReports`: the slot that would refuse a source's report is occupied
  only if that source is heard or lost its place to a replacement, and what is in a
  collection has a receipt. `ConfirmedEvidenceFrozen`: what is final never moves.
* `DisputeFreezesProgress`, `HardDisputePersists`: what a dispute stops.
* `CausalSettlement`: the ZEC claim follows a final stablecoin claim with the same
  secret; chain facts are ordered.
* `AbandonedStaysAbandoned`: an abandoned artifact never comes back.
* `StoreKeepsPromise`, `MatcherIsDurableLog`: refinements of `DurableLog`.
  `ClosingEnds`, `CallsSettle`: a handle that closes gets there, a call is answered
  or dies with its process.
* `JournalSound`: each accepted command is in the journal once, and a restart can
  open it, half records included. `AnswersStand`: what the browser calls confirmed
  is in the journal; a refusal of the first post is final.
* `LockKeepsAmount`: pays once, and can pay while funded, also with tokens sent to
  the contract by mistake.
* `BuyerWhole`, `SellerWhole`, `HonestSwapEnds`: safety first, then that it really
  comes to pass.
* `MatcherIsExchange`: every event is a step of `Exchange`, by a refinement
  mapping that counts what was traded from the record of executions, not from
  the remaining amounts the matcher itself keeps. `BookConsistent`: agreement between
  parts of the matcher that are written and pruned apart. `RouteConsumable`: what
  routing selects is what the matcher can apply. `BetterFirst`: priority.
* `WithinSignedOrder`, `ShareKeepsValue`, `SettledAsSigned`, `WithdrawalsBacked`,
  `BurnAnsweredOnce`, `NeverShorted`: accounts that add up over many transactions,
  rounding included. `WithinSignedOrder` measures a fee against the cost at the fill's
  own price: against the cost at the order's limit the contract's rounding would
  break it. `SettledAsSigned` adds up what every order of an account owes, because an
  account may be buyer, seller and recipient of fees at once.
* `SessionConsistent`: replaying the session log rebuilds the session.
* `TermsBindBoth`: a swap that opens is one both signed, with room between every two
  deadlines at every time.
* `RecoveryComplete`, `ReadersMissNothing`, `EvidenceStands`, `OutcomeShowsChain`:
  what a reader holds when everything moves between its requests.
* `ConnectedOrTold`, `ReviewedEndsForCause`, `OutcomeOfReview`, `SentAsReviewed`:
  what a page shows when a late answer arrives.
* `ResumedStands`: what is taken up after a restart is what was agreed, and can
  still be mined. `WithinBudget`: forgetting a client gives it nothing.

### Why the bounds are enough

Deadlines and times are chosen so that each comparison of a time is exercised on
both sides, and at equality where the code's inequality is not strict.
`swap_funding` and `journal` have one observer more than the quorum and spare
reports, so that a report is retracted, replaced, its replacement retracted and
the first offered again. `spend` needs both its observers for every
confirmation; its fork report stands for a conflict and for a replacement. The
coordinator's store needs two handles for each race; its handles are
interchangeable but not reduced, for liveness. The matcher's store needs two
records so that one can be safe and the next torn, and two troubles so that the
second meets what the first left; both kinds of crash in one behaviour are in
`matcher_unsynced`. Five matcher
events are enough for: maker, maker, taker, an event that withdraws or invalidates,
and another taker; scale 2 makes fills of one atom round to dust, and prices 2 to 4
leave both dust and fills that round. The cap on accepted orders and the capacity of
an account are reached; the caps on the open book and on an account's orders in it
do not bind in these instances (a larger book would take TLC too long), so nothing
is claimed of them. Pages, caps and buckets are as small as the case of "one too
many" allows; two of each actor give every late answer a newer one to meet.

The passing runs visit between 99,508 and 1,059,130 distinct states (`clients` the most); the violation runs stop at their counterexamples.

### Fairness

`SwapState`, `SwapJournal`, `SettlementAccounting`, `RateLimit`, `ConditionalLock`,
`Matcher`, `Exchange` and the parts of `clients` have none: they are libraries, contracts and pages that act when called,
and only safety is claimed. `SwapStore` has weak fairness of `Work(h)`, the steps a
handle takes by itself: once an append, open or close was called, the promise chain
of the process runs on unless the process dies. `MatcherService` has it of
`MutateStep`, the same chain in the matcher's store, and of `Respond`, the handler's
continuation; nothing makes a user retry, a process restart or a network deliver.
`AtomicSwap` has weak fairness of inclusion, of finality and of time, the usual
assumption on chains, and of three things an honest party does: it takes back what
was not claimed (two refunds), and it claims the ZEC it was sold. Nobody is obliged
to fund or to reveal the secret.

## 4. Findings

1. **A resolved report can be observed again** (`swap_resurrection`, code bug).
   `observeSwapFunding` and `observeSwapSpend` do not look at retracted or
   resolved evidence and return their result without the assertion: a report that
   was retracted and replaced by another source's is accepted a second time, and
   each later operation rejects the state. `IntegrityLostByReturn` shows that no other
   step leads out of the accepted states. Through the journal such a report is not
   recorded: its slot is occupied, or the root refuses the state (`swap-root.ts`).
2. **An observer conflict cannot be cleared** (`swap_conflict_stuck`). ADR 0011
   says it clears through retraction and replacement; `resolutionContext` refuses
   unless every open dispute is the reorganization of the retracted report.
   The theorem `HardDisputesPersist` says the same for all instances. Since
   `observerViewConflicts` compares heights as well as hashes, two honest observers
   whose reports are one block apart are enough to raise one (the ADR speaks of
   views "at the same height").
3. **The accepted-order cap counts expired orders** (`matcher_cap`). The index is
   pruned at the end of each event, so orders that expired since then still count
   when the next order is admitted, and it is refused although the audit note
   describes a live-capacity limit.
4. **A record that was never synced is served** (`matcher_unsynced`). A process
   appends a record and dies before the sync; the next one reads it from the file,
   checkpoints and serves it (`persistent-store.ts:939`, no sync of the journal on
   `open`), and a power failure takes it away from under the durable checkpoint.
   `docs/OPERATOR_RUNBOOK.md:96` says events are fsynced before they are published. It
   takes two failures, the second soon after the first.
5. **No order is confirmed through the gateway** (`matcher_receipt`, code bug).
   `matcherMutationProxy` strips three keys from the receipt that
   `assertMatcherOrderReceipt` asks for, and the store stamps the event with its own
   time while the client hashes the command with its own. An accepted order ends
   as "receipt-unknown" in the browser, and cannot be cancelled from there.
   `matcher-order-workflow.test.ts:289` confirms an order against a mock receipt.

The remarks under the modules of section 2 name further places where code and text
differ, or where a property had to be stated more narrowly than its text; they have
no run of their own because the text is not precise enough to be refuted.

## 5. Proofs

Every theorem holds for all values of the constants that satisfy the assumptions
below, so without the bounds of the runs: any numbers of actors, any times, amounts
and limits. Eight modules hold them. In the tables, an action property is marked
"(step)".

The swap (`SwapProofs`, `AtomicSwapProofs`, `ContractProofs`):

| Theorem | Says | Argument |
| --- | --- | --- |
| `TypeCorrect` | `SwapState` is well typed | by cases over the operations |
| `DisputesFreeze`, `HardDisputesPersist` (step) | what an open dispute stops, and which never closes | `StepCases`: which steps an open dispute leaves; then each of them |
| `ConfirmationsFrozen` (step) | final evidence never moves | `ConfirmedPhases`: a confirmation puts its leg in a phase that every operation on that slot excludes; `OneSlotChanges` |
| `SettlementIsCausal` | `CausalSettlement` | inductive with `TypeOK`, and with the entry guard `SwapIntegrity`, which gives the phases (`SlotsOfLeg`); split by `CausalParts` |
| `EvidenceIsSound` | `EvidenceSound`: the state passes the next operation's assertion | `IndEvidence` ties each confirmation to its quorum, each retraction to its dispute or resolution, each claim to the secret it revealed (`ClaimReveals`); one lemma per part of the assertion and operation |
| `IntegrityLostByReturn` (step) | a report that was replaced and comes back is the only way out of the states every operation accepts | `IndEvidence` holds after the step: all of the assertion but its last demand, which only an observation can break |
| `JournalImplementsLibrary` | a journaled swap is a swap of the library | a step of the journal is a step of `SwapState` or a stutter |
| `ReceiptsAlwaysMatch` | `ReceiptsMatchReports` | also `FactsInPlace`: a collection has a fact of its leg and kind, and holds reports of it alone; `ReceiptsOfFacts`: a report's slot is occupied only once its fact is the collection's |
| `AbandonedForGood` | `AbandonedStaysAbandoned` | `PreparationsReceipted`: a prepared artifact has its receipt, and a receipt's slot takes no second one |
| `SwapTypeCorrect` | `AtomicSwap` is well typed | |
| `SellerIsWhole` | an honest seller whose ZEC is claimed is or will be paid | `LocksGoForward` and `ClaimInTime`: the secret was shown for a final lock, a window before the cutoff, and its claim is waiting or mined |
| `BuyerIsWhole` | an honest buyer whose stablecoin is gone has or can claim the ZEC | also `LocksAgainstFinal`, `ClaimTimes`, `AnswerInTime`: the chain of times from the cutoff to the ZEC refund |
| `LockPaysOnce` | `LockKeepsAmount`: the two contract invariants | `LockSafe` says what holds between calls and what the call in progress has saved, so that a revert restores it |
| `OpenedTermsBindBoth` | `TermsBindBoth` | `SwapPlanInv` remembers which policy made the plan and which context the terms; `QuoteIsWithinLimits`: the rounded quote keeps both prices; `TimesInOrder` |
| `EvidenceReadStands` | `EvidenceStands` | `EvidenceInv`: a lock is left once on any chain; what the reader has named so far is on every chain that still has the blocks it pinned (`PinHolds`, `Names`), which the last reads compare |
| `OutcomesShowChain` | `OutcomeShowsChain` | `ObserverInv`: a log only grows, and whatever projection a poll starts from has the lock's leg ended only as the log says; the whole log then shows |
| `ResumedArtifactsStand` | `ResumedStands` | `Standing` of everything built, reviewed, saved or agreed: the chain's time and the confirmed secret never go back |

The stores and the feeds (`SwapStoreProofs`, `MatcherServiceProofs`):

| Theorem | Says | Argument |
| --- | --- | --- |
| `StoreIsFaithful`, `ShownIsKept` | the coordinator's store implements `DurableLog`, and what was shown is never lost | `StoreIndInv` orders what a handle has in memory, the file, and the synced file by prefix, and says for each stage of an append which of them may differ; then one lemma per step of the store |
| `JournalIsSound` | `JournalSound` | `StoreInv`: `FilesSound`, `ProcessSound`, `MemorySound` for the files, and `PowerSound` for what a power failure would leave; every step, fault and crash keeps the four (`ServiceInductive`) |
| `MatcherKeepsItsLog` | `MatcherIsDurableLog` | the same invariant; each step is one of `DurableLog` or a stutter under the mapping |
| `AnswersAlwaysStand` | `AnswersStand` | `AnswerInv`: a body has at most one post that is first, one answer each, and an answer that was given is in the journal or is a refusal of what is not on its way |
| `FeedsMissNothing` | `ReadersMissNothing` | `FeedInv`: numbers are given once and in order (`FeedNumbers`), the tape's reader has a front of the executions and the number of its last, and a walk has all of what stood at its start up to its cursor (`WalkSound`); a page in order of numbers is the only one there is (`OrderIsOne`), and the ticker's sum is the day's, regrouped by execution |

The matcher and the contracts:

| Theorem | Says | Argument |
| --- | --- | --- |
| `BookStaysConsistent` | `BookConsistent`, with any routing | `BookInv`: the index pruned by its own rule is the live book (`PruneIndex`), everything live holds its claim, and time and epochs only move on (`MovesOn`) |
| `NothingReturns` (step) | what can no longer trade never stands again | from `BookInv` |
| `RoutesAreConsumable` | `RouteConsumable`, with `CapacityKept` and `MatcherTypeOK` | `RouteTakes`: what a route may take, below; `TradeInv`: with `BookInv`, what remains of all that stands is its amount less what the executions took of it (`Balanced`), it has a sequence number of its own (`Placed`), and each account keeps its capacity |
| `MatcherKeepsPromise` | `MatcherIsExchange` | from `TradeInv`: an order admits itself with whatever its route takes of (`OrderAdmits`), a quote with nothing, and any other event withdraws what it ends |
| `BetterTradesFirst` (step) | `BetterFirst` | `BetterIsTaken`: with an order of the book, a route has all of each better one |
| `SignersAreKept` | what `Exchange` promises, of the matcher itself | `TradesWhileStanding`, read off the step of `Exchange` |
| `LedgerAlways` and from it `OffersAreNotOverfilled`, `FillOrKillHolds`, `NonceAdmitsOnce`, `GoneStaysGone` | the promises of `Exchange` | `Ledger`: standing and spent are disjoint, nonces differ, what stands has something left; an admission changes only the taker and the counterparties |
| `SettledWithinSigned` | `WithinSignedOrder` | `SettlementSafe`: what a nonce has used is the sum of its fills (`Accounted`), each fill as signed; the sums are those of `Lemmas` |
| `SharesKeepValue` (step) | `ShareKeepsValue` | `AmmInv`: the pair's balances cover its reserves, the shares add up to the supply, the first shares belong to nobody; then one lemma of pool arithmetic for each of mint, burn and swap |

The rest (`ClientProofs`):

| Theorem | Says | Argument |
| --- | --- | --- |
| `BarTellsTheTruth` | `ConnectedOrTold` | `BarInv`: at each step of a connection, what the answers so far say is still so, or a signal is on its way that will end it (`Underway`, `BarConnected`) |
| `ReviewEnds` (step) | `ReviewedEndsForCause` | `ZecInv`: a connection or a reading is of the page's generation or of one that is over (`Generations`), and while one of the page's is under way nothing is reviewed |
| `RecoveryListsAll` | `RecoveryComplete` | `RecoveryInv`: a page on its way, and what the client has, hold every order still owed up to their cursors (`PageSound`, `VisitSound`); whatever the state does meanwhile only owes less (`Drift`) |
| `OutcomesBelong` | `OutcomeOfReview` | `NativeInv`: a request under way remembers the context it began in |
| `OrdersGoAsReviewed` | `SentAsReviewed` | `FormInv`: what was entered is in range, what a shortcut filled in is funded, an open review is of what is on screen |
| `PoolIsNeverShorted` | `NeverShorted` | `PoolInv`: the product stands behind the square of the shares (`Solid`), by the same arithmetic as the pair's |
| `LimitersHold` | `WithinBudget` | `RateInv`: what has passed since any moment, with what the bucket holds, is at most what it held and gained; for the window, the last one and the one before (`LastWindow`) |
| `ReserveStaysBacked` | `WithdrawalsBacked` | `ReserveInv`: the chain keeps what is final, a withdrawal has one payment that can be mined, and the books add up |
| `BurnsAnsweredOnce` | `BurnAnsweredOnce` | `PayoutInv`: only a recorded submission answers a burn |
| `LedgerSettlesAsSigned` | `SettledAsSigned` | `AccountingSafe`: every transfer moves what it takes, and a fill adds to each account no less than its orders owe (`Moves`) |

What a route may take is said without computing it. `LineLists`: the line of any
segments has each of them once, in order of priority. `CappedLists`: the two caps
leave out no order of the book that comes before one they let in. `AllotFills`: an
allotment takes the front of a line, all but its last segment whole. `AllocateEnds`
and `FillsEnd`: both searches that start over end, with an allotment of what they
leave, the first having dropped segments of solvers only, the second of orders only
such as cannot be rounded. `BookSegmentsAre`, `SolverSegmentsAre`: the segments of an
order or a quote together have no more than is left of it. `RouteOf` puts these
together for whichever candidate wins (`Routed`), and `RouteTakes` and `BetterIsTaken`
are its consequences.

`Lemmas` has what several of these rest on: sums over a finite set when one value
changes or grows, sums over a set by classes and of differences (`SumByClass`,
`SumTelescopes`), quotients rounded up and down, products that keep an order, the
arithmetic of a pool (`SwapGrows`, `MintGrows`, `BurnLeaves`), a finite set in the
order of what comes before each member (`OrderExists`, `OrderIsAll`, `DistinctCount`),
and a search over a set that shrinks (`SearchExists`, `SearchEnds`). The theorems of
the library that would do induction cannot be instantiated here; where it is needed,
the set of the numbers for which a fact holds is shown to be all of `Nat`
(`InductiveSet`).

Why the strengthenings are needed: `SellerWhole` says nothing while the secret is
in the pool and unmined, which is when it can be lost; `ClaimInTime` covers that
interval. `BuyerWhole` is about final states, and a final claim is only as good as
the time left for the answer. `LockKeepsAmount` is about the time between calls, and a
revert inside a call must restore it. `JournalSound` is about the files a restart
finds, so it must hold of what each crash could leave at every moment. `NeverShorted`
and `ShareKeepsValue` speak of quotients and must be carried as products, or each
rounding would lose a little. `ConnectedOrTold` speaks of a page that shows an
address; what makes it true was asked for, question by question, before.

Assumptions. They are named in the module that declares the constants, and TLC
evaluates them in the runs.

* `SwapTiming`: the timing of `AtomicSwap`, section 2. `TimingPolicy`,
  `EvidencePolicies`, `InputTypes`: what `swap-policy.ts` validates of the policies,
  and that reports and facts are what their types say.
* `LockConstants`, `SettlementAssumption`, `AmmAssumption`: amounts and fees are
  natural numbers, divisors are not zero, the pair, its tokens and the zero address
  are no trader's.
* `StoreConstants`, `MatcherStoreConstants`, `NoneIsApart`, `SignedFields`,
  `MatcherBounds`, `RoutingConstants`, `MatcherServiceConstants`: limits are natural
  numbers, an order and a quote differ and have what their types say, `None` is none of
  the values it stands beside.
* `ReserveAssumption` asks that the ledger is covered when it is handed over: the
  functions of `reserve.ts` keep what they are given, and one that begins short is only
  reported as such. `AccountingAssumption`: a fee is at most the whole.
* `RateAssumption`, `RecoveryAssumption`, `FeedsAssumption`, `EvidenceAssumption`,
  `ObserverAssumption`, `ZcashAssumption`, `SwapPlanAssumption`, `FormAssumption`,
  `PoolAssumption`, `NativeConstants`: times, amounts and prices are natural numbers and
  divisors positive; the offsets of the observer's two refunds are ordered; a slippage
  is less than the whole; `None` apart.

Three theorems of `MatcherServiceProofs` assume `"both" \notin Weather`: the crashes of
one behaviour are deaths of the process or power failures, but not both. With both the
property is false, and that is finding 4. The theorems on `Exchange` hold of anything
that keeps its promise, and assume that an offer's amount is a natural number;
`SignersAreKept` says the same of the matcher, without that.

Only model-checked:

* `HonestSwapEnds`, `ClosingEnds`, `CallsSettle`: liveness under fairness, and `ENABLED`.
* `SessionConsistent`: what a fold over the log of a session comes to.

## 6. Not modelled

* Cryptography, hashes, encodings, Zcash scripts and transactions byte by byte:
  identities and, for the two scripts, their conditions.
* Dispute resolution of ADR 0011 (`lib/swap-dispute-resolution.ts`): its
  activation gate is off and every transition throws.
* Change of files by hand, and rollback of a whole directory: the runbook leaves
  them to the operator. So is the removal of a live lock: with it an acknowledged
  append can be lost, which is why the durability part of `StoreKeepsPromise` is
  about `careful` operators (the runbook's rule that a lock is removed only when
  proven stale).
* `scripts/`: manifests, release and deployment checks are sequential validators of
  files, without state of their own.
* The rest of the web terminal, market data and charts, documentation pages: what
  they keep is presentation. Alerts and cursors of the observer only count.
* `matcher-auth`'s static tokens, TLS, HTTP parsing and size limits: a request that
  passes them is where the models begin; one that does not changes nothing.
* `SessionConsistent` for visitors who run several jobs at once: it does not hold,
  section 2.

## 7. Plan

Done, in the order of what a failure would cost: swap state machine, its store, the
contract, the two-chain swap, the matcher; then the matcher's store and service with
the client workflow, wallets, evidence, observer, plans, Zcash artifacts, feeds and
recovery; the settlement and AMM contracts, the paper market and the historical
ledgers.

Proofs: every invariant and action property that the passing runs check, and each
refinement, is a theorem, except `SessionConsistent`. It would be next, by an induction
over the log like that of `SumTelescopes`, with one step for each kind of its entries.
