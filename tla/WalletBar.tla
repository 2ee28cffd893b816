------------------------------ MODULE WalletBar ------------------------------
(***************************************************************************)
(* Connecting a wallet of Ethereum in the terminal's header: a connection  *)
(* is half a dozen questions to the wallet, each awaited, while its user   *)
(* changes account or chain, the wallet announces the change, and a newer  *)
(* connection may have replaced the one whose answer arrives.              *)
(*                                                                         *)
(* A connection is known by its number, and its generation when it began.  *)
(***************************************************************************)
EXTENDS Integers, Sequences, Absent

CONSTANTS EvmAccounts, Mainnet, OtherChain,
          MaxConnects, MaxWalletMoves   \* bounds

VARIABLES
  evmWallet,   \* what the wallet shows: its account, or None, and its chain
  signals,     \* its events on their way to the page
  watching,    \* connections whose listeners are registered
  bar,         \* the bar: generation, session, busy, shown address
  connections, \* the connections begun
  moves        \* changes of the wallet so far

barVars == <<evmWallet, signals, watching, bar, connections, moves>>

BarInit ==
  /\ evmWallet \in [account : EvmAccounts, chain : {Mainnet, OtherChain}]
  /\ signals = <<>> /\ watching = {} /\ moves = 0
  /\ bar = [generation |-> 0, session |-> None, busy |-> FALSE, shown |-> None]
  /\ connections = <<>>

Step(c) == connections[c].step
Current(c) == bar.generation = connections[c].generation
To(c, step) == connections' = [connections EXCEPT ![c].step = step]

-----------------------------------------------------------------------------
(* The wallet.                                                             *)

Announced(wallet) ==
  signals \o (IF wallet.account = evmWallet.account THEN <<>>
              ELSE <<[kind |-> "accountsChanged", value |-> wallet.account]>>)
          \o (IF wallet.chain = evmWallet.chain THEN <<>>
              ELSE <<[kind |-> "chainChanged", value |-> wallet.chain]>>)

\* Its user selects another account, locks it, or turns to another chain.
WalletMoves ==
  /\ moves < MaxWalletMoves
  /\ moves' = moves + 1
  /\ \E w \in [account : EvmAccounts \cup {None}, chain : {Mainnet, OtherChain}] :
       /\ w # evmWallet
       /\ evmWallet' = w /\ signals' = Announced(w)
  /\ UNCHANGED <<watching, bar, connections>>

WalletDisconnects ==
  /\ moves < MaxWalletMoves
  /\ moves' = moves + 1
  /\ signals' = Append(signals, [kind |-> "disconnect", value |-> None])
  /\ UNCHANGED <<evmWallet, watching, bar, connections>>

(* Fault: the chain's listener holds nothing against the event. *)
IgnoringChain(event, address) ==
  CASE event.kind = "accountsChanged" -> event.value # address
    [] OTHER -> event.kind = "disconnect"

Invalidates(event, address) ==
  CASE event.kind = "accountsChanged" -> event.value # address
    [] event.kind = "chainChanged" -> event.value # Mainnet
    [] OTHER -> TRUE

\* An event reaches every listener there is; one whose reviewed session it ends
\* disposes of itself and, if it is the bar's own, disconnects the bar.
DeliverSignal ==
  /\ signals # <<>>
  /\ signals' = Tail(signals)
  /\ LET ended == {c \in watching : Invalidates(Head(signals), connections[c].address)}
     IN  /\ watching' = watching \ ended
         /\ bar' = IF \E c \in ended : Current(c) /\ bar.session = c
                   THEN [generation |-> bar.generation + 1, session |-> None,
                         busy |-> FALSE, shown |-> None]
                   ELSE bar
  /\ UNCHANGED <<evmWallet, connections, moves>>

-----------------------------------------------------------------------------
(* The bar.                                                                *)

\* The bar forgets its connection: whatever that still awaits comes too late.
Invalidated(busy) ==
  /\ bar' = [generation |-> bar.generation + 1, session |-> None, busy |-> busy, shown |-> None]
  /\ watching' = watching \ {bar.session}

Connect ==
  /\ bar.shown = None /\ ~bar.busy /\ Len(connections) < MaxConnects
  /\ Invalidated(TRUE)
  /\ connections' = Append(connections, [step |-> "discover", address |-> None,
                                         generation |-> bar.generation + 1])
  /\ UNCHANGED <<evmWallet, signals, moves>>

\* The connected bar's button.
Disconnect ==
  /\ bar.shown # None
  /\ Invalidated(FALSE)
  /\ UNCHANGED <<evmWallet, signals, connections, moves>>

\* The bar leaves the page, and the page's wallet with it.
Unmount ==
  /\ bar.busy
  /\ Invalidated(FALSE)
  /\ UNCHANGED <<evmWallet, signals, connections, moves>>

\* A connection that fails says so, unless a newer one took its place.
GiveUp(c) ==
  /\ To(c, "over")
  /\ IF Current(c)
     THEN /\ bar' = [bar EXCEPT !.session = None, !.busy = FALSE, !.shown = None]
          /\ watching' = watching \ {bar.session}
     ELSE UNCHANGED <<bar, watching>>

\* The wallets that announce themselves are waited for; there may be none.
Discover(c) ==
  /\ Step(c) = "discover"
  /\ \/ Current(c) /\ To(c, "accounts") /\ UNCHANGED <<bar, watching>>
     \/ GiveUp(c)
  /\ UNCHANGED <<evmWallet, signals, moves>>

\* A question to the wallet: it answers with what it shows then, or fails.
Onward(c, step) == To(c, step) /\ UNCHANGED <<bar, watching>>

RequestAccounts(c) ==
  /\ Step(c) = "accounts"
  /\ \/ /\ evmWallet.account # None
        /\ connections' = [connections EXCEPT ![c].step = "chain", ![c].address = evmWallet.account]
        /\ UNCHANGED <<bar, watching>>
     \/ GiveUp(c)
  /\ UNCHANGED <<evmWallet, signals, moves>>

ReadChain(c) ==
  /\ Step(c) = "chain"
  /\ Onward(c, IF evmWallet.chain = Mainnet THEN "rechain" ELSE "switch")
  /\ UNCHANGED <<evmWallet, signals, moves>>

SwitchToMainnet(c) ==
  /\ Step(c) = "switch"
  /\ \/ /\ evmWallet' = [evmWallet EXCEPT !.chain = Mainnet]
        /\ signals' = Announced([evmWallet EXCEPT !.chain = Mainnet])
        /\ Onward(c, "rechain")
     \/ GiveUp(c) /\ UNCHANGED <<evmWallet, signals>>
  /\ UNCHANGED moves

RereadChain(c) ==
  /\ Step(c) = "rechain"
  /\ IF evmWallet.chain = Mainnet THEN Onward(c, "reaccounts") ELSE GiveUp(c)
  /\ UNCHANGED <<evmWallet, signals, moves>>

\* A connection still wanted registers its listeners before it asks once more.
Subscribe(c) ==
  /\ To(c, "authorityChain")
  /\ watching' = watching \cup {c}
  /\ bar' = [bar EXCEPT !.session = c]

RereadAccounts(c) ==
  /\ Step(c) = "reaccounts"
  /\ IF ~Current(c) THEN Onward(c, "over")
     ELSE \/ evmWallet.account = connections[c].address /\ Subscribe(c)
          \/ GiveUp(c)   \* another account, or a wallet without events
  /\ UNCHANGED <<evmWallet, signals, moves>>

ReadAuthorityChain(c) ==
  /\ Step(c) = "authorityChain"
  /\ IF evmWallet.chain = Mainnet THEN Onward(c, "authorityAccounts") ELSE GiveUp(c)
  /\ UNCHANGED <<evmWallet, signals, moves>>

ReadAuthorityAccounts(c) ==
  /\ Step(c) = "authorityAccounts"
  /\ IF evmWallet.account = connections[c].address THEN Onward(c, "confirm") ELSE GiveUp(c)
  /\ UNCHANGED <<evmWallet, signals, moves>>

Confirm(c) ==
  /\ Step(c) = "confirm"
  /\ To(c, "over")
  /\ IF Current(c) /\ c \in watching
     THEN bar' = [bar EXCEPT !.shown = connections[c].address, !.busy = FALSE] /\ UNCHANGED watching
     ELSE /\ bar' = IF bar.session = c THEN [bar EXCEPT !.session = None] ELSE bar
          /\ watching' = watching \ {c}
  /\ UNCHANGED <<evmWallet, signals, moves>>

BarNext ==
  \/ WalletMoves \/ WalletDisconnects \/ DeliverSignal
  \/ Connect \/ Disconnect \/ Unmount
  \/ \E c \in DOMAIN connections :
       \/ Discover(c) \/ RequestAccounts(c) \/ ReadChain(c) \/ SwitchToMainnet(c) \/ RereadChain(c)
       \/ RereadAccounts(c) \/ ReadAuthorityChain(c) \/ ReadAuthorityAccounts(c) \/ Confirm(c)

-----------------------------------------------------------------------------
\* The address the bar shows as connected is the wallet's own account on
\* Ethereum Mainnet, or the event that will end the connection is already on its
\* way to the listener of that connection, whichever of the questions the wallet
\* changed between and whichever connection's answers came late
\* (subscribeReviewedWalletSession before assertConnectedWalletAuthority).
ConnectedOrTold ==
  bar.shown # None =>
    \/ evmWallet = [account |-> bar.shown, chain |-> Mainnet]
    \/ /\ bar.session \in watching
       /\ \E i \in DOMAIN signals : Invalidates(signals[i], bar.shown)
=============================================================================
