------------------------------ MODULE Exchange ------------------------------
(***************************************************************************)
(* What the matcher promises the traders and solvers that sign an order or *)
(* a quote.  Both are offers here: an offer trades at most its amount,     *)
(* within its price, with others, and only while it stands; once it is     *)
(* gone it never trades again, nor does another with its nonce.            *)
(***************************************************************************)
EXTENDS Sums, Integers

CONSTANTS
  Offers,           \* what may ever be signed
  Amount(_),        \* how much of the base asset an offer trades at most
  Owner(_),
  Nonce(_),         \* what an offer claims, with its owner and epoch
  Tif(_),           \* "gtc", "ioc", "fok", or "quote"
  MayTrade(_, _)    \* taker and counterparty: opposite sides, prices cross

VARIABLES
  standing,  \* offers that others can trade with
  spent,     \* offers that were admitted and are gone
  filled     \* how much of each offer was traded

exchangeVars == <<standing, spent, filled>>

Seen == standing \cup spent

ExchangeInit ==
  /\ standing = {}
  /\ spent = {}
  /\ filled = [o \in Offers |-> 0]

Left(o) == Amount(o) - filled[o]

(* Offers expire, are withdrawn, or fall with their epoch.                 *)
Withdraw ==
  \E gone \in SUBSET standing :
     /\ standing' = standing \ gone
     /\ spent' = spent \cup gone
     /\ UNCHANGED filled

(* An offer o is admitted once, and trades with those that stand; take is  *)
(* what each counterparty trades, and together what o trades.              *)
AdmitOffer(o, with, take, stays) ==
  LET total == SumOver(take, with)
  IN  /\ o \in Seen'
      /\ \A c \in Seen : Nonce(c) # Nonce(o)
      /\ Tif(o) = "quote" => with = {}
      /\ \A c \in with : /\ Owner(c) # Owner(o)
                         /\ MayTrade(o, c)
                         /\ take[c] <= Left(c)
      /\ total \in 0..Amount(o)
      /\ Tif(o) = "fok" => total \in {0, Amount(o)}
      /\ stays => Tif(o) \in {"gtc", "quote"} /\ total < Amount(o)
      /\ filled' = [c \in Offers |-> IF c = o THEN total
                                     ELSE IF c \in with THEN filled[c] + take[c]
                                     ELSE filled[c]]
      /\ \E gone \in SUBSET standing :
            /\ {c \in with : take[c] = Left(c)} \subseteq gone
            /\ standing' = (standing \ gone) \cup (IF stays THEN {o} ELSE {})
            /\ spent' = spent \cup gone \cup (IF stays THEN {} ELSE {o})

Admit ==
  \E o \in Offers \ Seen, stays \in BOOLEAN : \E with \in SUBSET standing :
  \E take \in [with -> 1..Amount(o)] : AdmitOffer(o, with, take, stays)

ExchangeNext == Withdraw \/ Admit

ExchangeSpec == ExchangeInit /\ [][ExchangeNext]_exchangeVars

-----------------------------------------------------------------------------
(* No offer trades more than its signer agreed to, over all its fills.     *)
NeverOverfilled == \A o \in Offers : filled[o] <= Amount(o)

(* A fill-or-kill order trades all of its amount or nothing, and like an   *)
(* immediate-or-cancel order it never stands in the book.                  *)
FillOrKill ==
  \A o \in Offers :
     /\ Tif(o) = "fok" => filled[o] \in {0, Amount(o)}
     /\ o \in standing => Tif(o) \in {"gtc", "quote"} /\ filled[o] < Amount(o)

(* One offer at most was ever admitted for a nonce.                        *)
NonceOnce == \A o, p \in Seen : Nonce(o) = Nonce(p) => o = p

(* What expired, was withdrawn or was filled trades no more.               *)
GoneStays == \A o \in spent : o \in spent' \ standing' /\ filled'[o] = filled[o]

(* At every step.                                                          *)
GoneForGood == [][GoneStays]_exchangeVars
=============================================================================
