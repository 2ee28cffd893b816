------------------------------- MODULE Payout --------------------------------
(***************************************************************************)
(* Payout claims of the historical custody model: each claim asks for one  *)
(* burn to be paid out and is moved from state to state by calls that may  *)
(* come in any order; a call that does not fit rejects the claim.          *)
(***************************************************************************)
EXTENDS FiniteSets

CONSTANTS
  PayoutClaims,
  BurnOf,       \* claim -> burn it asks to be paid
  Eligible      \* claims whose destination and amount pass the screen

VARIABLES
  payouts,      \* claim -> state
  authorized,   \* PayoutLedger: burns that authorized a payout
  signedFor     \* claims a signed transaction may be paying

payoutVars == <<payouts, authorized, signedFor>>

PayoutInit ==
  /\ payouts = [c \in PayoutClaims |-> "requested"]
  /\ authorized = {} /\ signedFor = {}

-----------------------------------------------------------------------------
Screen(c) ==
  /\ payouts' = [payouts EXCEPT ![c] =
       IF @ = "requested" /\ c \in Eligible THEN "screened" ELSE "rejected"]
  /\ UNCHANGED <<authorized, signedFor>>

(* Fault: the burn is looked up and not recorded. *)
Unrecorded(c) == authorized' = authorized

BurnRecorded(c) == authorized' = authorized \cup {BurnOf[c]}

\* attestPayout screens again and spends the burn.
SubmitBurn(c) ==
  IF payouts[c] = "screened" /\ BurnOf[c] \notin authorized
  THEN /\ BurnRecorded(c)
       /\ payouts' = [payouts EXCEPT ![c] = "burn-submitted"]
       /\ UNCHANGED signedFor
  ELSE /\ payouts' = [payouts EXCEPT ![c] = "rejected"]
       /\ UNCHANGED <<authorized, signedFor>>

\* The other calls: the states each accepts and the one it leads to.
Calls ==
  { [name |-> "finalize", from |-> {"burn-submitted"}, to |-> "burn-finalized"],
    [name |-> "payable",  from |-> {"burn-finalized"}, to |-> "payable"],
    [name |-> "unresolved",
     from |-> {"payable", "burn-submitted", "signed", "broadcast", "mined"}, to |-> "unresolved"],
    [name |-> "close", from |-> {"closed", "burn-submitted"}, to |-> "closed"],
    [name |-> "prepare", from |-> {"payable"}, to |-> "transaction_prepared"],
    [name |-> "sign", from |-> {"payable", "transaction_prepared"}, to |-> "signed"],
    [name |-> "broadcast", from |-> {"signed"}, to |-> "broadcast"],
    [name |-> "mine", from |-> {"broadcast"}, to |-> "mined"],
    [name |-> "confirm", from |-> {"mined"}, to |-> "confirmed"],
    [name |-> "observe", from |-> {"unresolved"}, to |-> "broadcast"],
    [name |-> "restore", from |-> {"unresolved"}, to |-> "payable"],
    [name |-> "refund",
     from |-> {"refunded", "payable", "burn-finalized", "transaction_prepared"}, to |-> "refunded"],
    [name |-> "reject", from |-> {"requested", "screened", "rejected"}, to |-> "rejected"] }

\* A signature is a transaction that may pay; verified restoration says it never will.
Call(c, call) ==
  LET accepted == payouts[c] \in call.from
  IN  /\ payouts' = [payouts EXCEPT ![c] = IF accepted THEN call.to ELSE "rejected"]
      /\ signedFor' = IF ~accepted THEN signedFor
                      ELSE IF call.name = "sign" THEN signedFor \cup {c}
                      ELSE IF call.name = "restore" THEN signedFor \ {c}
                      ELSE signedFor
      /\ UNCHANGED authorized

PayoutNext == \E c \in PayoutClaims : Screen(c) \/ SubmitBurn(c) \/ \E call \in Calls : Call(c, call)

-----------------------------------------------------------------------------
Answered(c) == c \in signedFor \/ payouts[c] \notin {"requested", "screened", "rejected", "closed"}

\* However the calls come, a burn is answered once: no two claims of it get past
\* submission, by payment or by refund, and no claim whose transaction may pay
\* is refunded (the reasons attestPayout and refundPayoutBeforeSignature give).
BurnAnsweredOnce ==
  \A c, d \in PayoutClaims :
    /\ c # d /\ BurnOf[c] = BurnOf[d] => ~(Answered(c) /\ Answered(d))
    /\ payouts[c] = "refunded" => c \notin signedFor
=============================================================================
