------------------------------- MODULE Reserve -------------------------------
(***************************************************************************)
(* The reserve ledger of the historical custody model: withdrawal claims,  *)
(* the native transactions signed for them, and the coverage every new     *)
(* signature must leave.  The chain mines, drops, conflicts and            *)
(* reorganises the transactions; what was verified of one may reach the    *)
(* ledger late.                                                            *)
(***************************************************************************)
EXTENDS Integers, FiniteSets, Sums, Absent

CONSTANTS
  WithdrawalIds,
  Txids,
  Payable,             \* of every withdrawal
  Changes, NetworkFees,   \* what a signed transaction may return and pay
  StartingAssets, StartingSupply,
  OtherRequirements    \* deposit entitlements, other liabilities and buffer

ASSUME ReserveAssumption ==
  /\ Payable \in Nat \ {0} /\ StartingAssets \in Nat /\ StartingSupply \in Nat
  /\ OtherRequirements \in Nat /\ Changes \subseteq Nat /\ NetworkFees \subseteq Nat
  /\ IsFiniteSet(WithdrawalIds) /\ IsFiniteSet(Txids) /\ None \notin Txids
  /\ None \notin [pays : WithdrawalIds, cost : Nat, place : {"pending", "mined", "dead", "final"}]
  \* The ledger is covered when it is handed over.
  /\ StartingAssets >= StartingSupply + OtherRequirements + Payable * Cardinality(WithdrawalIds)

VARIABLES
  claims,       \* withdrawal id -> claim, for the withdrawals outstanding
  controlled,   \* controlledAssets
  supply,       \* tokenSupply
  committed,    \* committedTransactionIds
  native,       \* transaction -> what it is for and where the chain has it, or None
  known         \* <<transaction, fact>> verified at some time

reserveVars == <<claims, controlled, supply, committed, native, known>>

PayableClaim ==
  [status |-> "payable", txid |-> None, selectedInput |-> 0, inTransit |-> 0, change |-> 0, fee |-> 0]

ReserveInit ==
  /\ claims = [w \in WithdrawalIds |-> PayableClaim]
  /\ controlled = StartingAssets /\ supply = StartingSupply
  /\ committed = {} /\ native = [t \in Txids |-> None] /\ known = {}

-----------------------------------------------------------------------------
(* The chain. *)

NativeMoves == [pending |-> {"mined", "dead"}, mined |-> {"pending", "final"}, dead |-> {}, final |-> {}]

\* A signed transaction is mined, reorganised out, buried, or conflicted for
\* good; whoever watches can prove it from then on.
NativeStep(t) ==
  /\ native[t] # None
  /\ \E place \in NativeMoves[native[t].place] :
       /\ native' = [native EXCEPT ![t].place = place]
       /\ known' = known \cup {<<t, place>>}
  /\ UNCHANGED <<claims, controlled, supply, committed>>

-----------------------------------------------------------------------------
(* The ledger. *)

WellFormed(c) ==
  IF c.status = "payable" THEN c = PayableClaim
  ELSE /\ c.txid # None
       /\ c.inTransit = IF c.status = "unresolved" THEN 0 ELSE Payable
       /\ c.selectedInput = Payable + c.change + c.fee

IncidentHalt == \E w \in DOMAIN claims : claims[w].status = "unresolved"

\* Coverage of the ledger given: controlled assets against everything not in
\* transit, and both together against everything.
Covered(book, assets) ==
  LET transit == SumOver([w \in DOMAIN book |-> book[w].inTransit], DOMAIN book)
      payables == Payable * Cardinality(DOMAIN book)
  IN  /\ assets >= 0
      /\ assets >= supply + (payables - transit) + OtherRequirements
      /\ assets + transit >= supply + payables + OtherRequirements

SignWithdrawal(w, t) ==
  /\ ~IncidentHalt
  /\ t \notin committed
  /\ claims[w].status = "payable"
  /\ \E change \in Changes, fee \in NetworkFees, principal \in {Payable, Payable + 1} :
       LET signed == [status |-> "signed", txid |-> t, selectedInput |-> Payable + change + fee,
                      inTransit |-> principal, change |-> change, fee |-> fee]
           book == [claims EXCEPT ![w] = signed]
           assets == controlled - signed.selectedInput
       IN  /\ WellFormed(signed)
           /\ Covered(book, assets)
           /\ claims' = book /\ controlled' = assets
           /\ native' = [native EXCEPT ![t] = [pays |-> w, cost |-> Payable + fee, place |-> "pending"]]
  /\ committed' = committed \cup {t}
  /\ UNCHANGED <<supply, known>>

RefundBeforeSignature(w) ==
  /\ claims[w].status = "payable"
  /\ claims' = [x \in DOMAIN claims \ {w} |-> claims[x]]
  /\ supply' = supply + Payable
  /\ UNCHANGED <<controlled, committed, native, known>>

Marked(w, status, transit) ==
  /\ claims' = [claims EXCEPT ![w].status = status, ![w].inTransit = transit]
  /\ UNCHANGED <<controlled, supply, committed, native, known>>

BroadcastWithdrawal(w) == claims[w].status = "signed" /\ Marked(w, "broadcast", claims[w].inTransit)

MarkMined(w) ==
  /\ claims[w].status = "broadcast" /\ <<claims[w].txid, "mined">> \in known
  /\ Marked(w, "mined", claims[w].inTransit)

MarkUnresolved(w) ==
  /\ claims[w].status \in {"signed", "broadcast", "mined"}
  /\ Marked(w, "unresolved", 0)

\* An observation of t, made for w whenever t was seen.
ApplyObservation(w, t, status) ==
  /\ native[t] # None /\ native[t].pays = w
  /\ status = "mined" => <<t, "mined">> \in known
  /\ claims[w].status = "unresolved"
  /\ claims[w].txid = t
  /\ Marked(w, status, Payable)

ConfirmWithdrawal(w) ==
  /\ claims[w].status = "mined" /\ <<claims[w].txid, "final">> \in known
  /\ claims' = [x \in DOMAIN claims \ {w} |-> claims[x]]
  /\ controlled' = controlled + claims[w].change
  /\ UNCHANGED <<supply, committed, native, known>>

(* Fault: a proof about an earlier transaction of the claim is enough. *)
AnyRestoration(w, t) ==
  /\ claims[w].status = "unresolved"
  /\ native[t] # None /\ native[t].pays = w

\* The proof says the inputs of t are spendable and t cannot confirm.
Matches(w, t) ==
  /\ claims[w].status = "unresolved"
  /\ claims[w].txid = t

ApplyRestoration(w, t) ==
  /\ <<t, "dead">> \in known
  /\ Matches(w, t)
  /\ claims' = [claims EXCEPT ![w] = PayableClaim]
  /\ controlled' = controlled + claims[w].selectedInput
  /\ UNCHANGED <<supply, committed, native, known>>

ReserveNext ==
  \/ \E t \in Txids : NativeStep(t)
  \/ \E w \in DOMAIN claims :
       \/ RefundBeforeSignature(w) \/ BroadcastWithdrawal(w) \/ MarkMined(w)
       \/ MarkUnresolved(w) \/ ConfirmWithdrawal(w)
       \/ \E t \in Txids :
            \/ SignWithdrawal(w, t) \/ ApplyRestoration(w, t)
            \/ \E status \in {"broadcast", "mined"} : ApplyObservation(w, t, status)

-----------------------------------------------------------------------------
Spent == {t \in Txids : native[t] # None /\ native[t].place \in {"mined", "final"}}
CanPay(w) == {t \in Txids : native[t] # None /\ native[t].pays = w /\ native[t].place # "dead"}

Holdings == StartingAssets - SumOver([t \in Spent |-> native[t].cost], Spent)
Unpaid == {w \in DOMAIN claims : \A t \in Spent : native[t].pays # w}

\* What the reserve really holds on the chain covers the tokens, its other
\* requirements and every claim the chain has not paid, wherever the chain's
\* reorganisations and the ledger's marks stand (the coverage
\* signWithdrawal asks of the ledger).  A withdrawal never has two transactions
\* that could pay it, none once it was refunded, and one final one once it was
\* confirmed.
WithdrawalsBacked ==
  /\ Holdings >= supply + OtherRequirements + Payable * Cardinality(Unpaid)
  /\ \A w \in WithdrawalIds :
       /\ Cardinality(CanPay(w)) <= 1
       /\ w \in DOMAIN claims /\ claims[w].status = "payable" => CanPay(w) = {}
  /\ LET confirmed == {w \in WithdrawalIds \ DOMAIN claims : CanPay(w) # {}}
     IN  /\ \A w \in confirmed : \A t \in CanPay(w) : native[t].place = "final"
         /\ supply = StartingSupply
              + Payable * Cardinality((WithdrawalIds \ DOMAIN claims) \ confirmed)
=============================================================================
