--------------------------- MODULE ConditionalLock --------------------------
(***************************************************************************)
(* The EVM contract that holds the stablecoin of one swap                  *)
(* (contracts/src/swap/ConditionalLock.sol) over a token whose transfers   *)
(* may keep a fee and may call back.  A call to the contract runs in two   *)
(* steps, up to the token's transfer and from its return: between them     *)
(* other accounts move tokens and call the contract again.  A revert puts  *)
(* back the state that call() saved.                                       *)
(***************************************************************************)
EXTENDS Integers, Absent

CONSTANTS
  Funder, ClaimRecipient, Stranger,  \* accounts
  Lock,                              \* the contract's own account
  Amount,
  Preimages, Preimage,               \* values offered to claim; the one the hashlock commits to
  FundingCutoff, ClaimCutoff, RefundFrom,
  Fees,                              \* what the token may keep of a transfer
  Supply,                            \* bound: tokens of each account at first
  MaxTimestamp                       \* bound: the last block's timestamp

Accounts == {Funder, ClaimRecipient, Stranger}
Holders == Accounts \cup {Lock}
State == {"Unfunded", "Funded", "Claimed", "Refunded"}
Calls == [from : Holders, to : Holders, before : [Holders -> Nat], state : State, paid : Nat]

(* The constructor's checks. *)
ASSUME LockConstants ==
  /\ Lock \notin Accounts /\ Funder # ClaimRecipient
  /\ None \notin Calls
  /\ Amount \in Nat \ {0}
  /\ Preimage \in Preimages
  /\ FundingCutoff \in Nat \ {0} /\ ClaimCutoff \in Nat /\ RefundFrom \in Nat
  /\ FundingCutoff < ClaimCutoff
  /\ RefundFrom > ClaimCutoff + 1
  /\ Fees \subseteq Nat /\ 0 \in Fees
  /\ Supply \in Nat /\ MaxTimestamp \in Nat

VARIABLES
  state,      \* the contract's state
  timestamp,  \* block.timestamp
  balance,    \* the token's balances
  paid,       \* what ever left the contract
  call        \* the call in progress, or None

lockVars == <<state, timestamp, balance, paid, call>>

LockInit ==
  /\ state = "Unfunded"
  /\ timestamp = 0
  /\ balance = [a \in Holders |-> IF a = Lock THEN 0 ELSE Supply]
  /\ paid = 0
  /\ call = None

-----------------------------------------------------------------------------
(* When each function may be called.                                       *)
FundingOpen(t) == t <= FundingCutoff
ClaimOpen(t) == t <= ClaimCutoff
RefundOpen(t) == t >= RefundFrom

(* Enter a nonReentrant function.  Its new state is recorded before the    *)
(* token moves the amount, less what it keeps.                             *)
Enter(from, to, next) ==
  /\ call = None
  /\ balance[from] >= Amount
  /\ call' = [from |-> from, to |-> to, before |-> balance, state |-> state, paid |-> paid]
  /\ \E fee \in Fees :
       /\ fee <= Amount
       /\ balance' = [balance EXCEPT ![from] = @ - Amount, ![to] = @ + Amount - fee]
  /\ state' = next
  /\ paid' = IF from = Lock THEN paid + Amount ELSE paid
  /\ UNCHANGED timestamp

Fund(sender) ==
  /\ sender = Funder
  /\ state = "Unfunded"
  /\ FundingOpen(timestamp)
  /\ Enter(Funder, Lock, "Funded")

Claim(sender, preimage) ==
  /\ sender = ClaimRecipient
  /\ state = "Funded"
  /\ ClaimOpen(timestamp)
  /\ preimage = Preimage
  /\ Enter(Lock, ClaimRecipient, "Claimed")

(* Fault: the refund looks at the time only. *)
RefundAnyState(sender) ==
  /\ sender = Funder
  /\ state # "Refunded"
  /\ RefundOpen(timestamp)
  /\ Enter(Lock, Funder, "Refunded")

Refund(sender) ==
  /\ sender = Funder
  /\ state = "Funded"
  /\ RefundOpen(timestamp)
  /\ Enter(Lock, Funder, "Refunded")

(* Fault: only what left the sender is compared. *)
MovedExactlyOut == call.before[call.from] - balance[call.from] = Amount

MovedExactly ==
  /\ balance[call.to] - call.before[call.to] = Amount
  /\ call.before[call.from] - balance[call.from] = Amount

(* The token returns: both balances moved by the exact amount, or all of   *)
(* the call is undone.                                                     *)
Return ==
  /\ call # None
  /\ IF MovedExactly
       THEN UNCHANGED <<state, balance, paid>>
       ELSE state' = call.state /\ balance' = call.before /\ paid' = call.paid
  /\ call' = None
  /\ UNCHANGED timestamp

(* Anybody may send tokens to anybody, the contract included, and from     *)
(* within the token's callback too.                                        *)
Transfer(from, to) ==
  /\ balance[from] > 0
  /\ balance' = [balance EXCEPT ![from] = @ - 1, ![to] = @ + 1]
  /\ UNCHANGED <<state, timestamp, paid, call>>

NextBlock ==
  /\ call = None
  /\ timestamp < MaxTimestamp
  /\ timestamp' = timestamp + 1
  /\ UNCHANGED <<state, balance, paid, call>>

LockNext ==
  \/ \E sender \in Accounts :
       \/ Fund(sender)
       \/ \E p \in Preimages : Claim(sender, p)
       \/ Refund(sender)
       \/ \E to \in Holders \ {sender} : Transfer(sender, to)
  \/ Return
  \/ NextBlock

LockSpec == LockInit /\ [][LockNext]_lockVars

-----------------------------------------------------------------------------
(* Types of all the variables. *)
LockTypeOK ==
  /\ state \in State
  /\ timestamp \in Nat
  /\ balance \in [Holders -> Nat]
  /\ paid \in Nat
  /\ call \in Calls \cup {None}

(* Whatever the token keeps and whatever its callbacks do, the contract    *)
(* pays the amount out once, to the one whose call ended it, even when     *)
(* tokens sent to it by mistake would cover a second payment.              *)
PaidOnce ==
  call = None => paid = IF state \in {"Claimed", "Refunded"} THEN Amount ELSE 0

(* A funded contract can pay: it holds the whole amount.                   *)
Solvent == call = None /\ state = "Funded" => balance[Lock] >= Amount

(* The contract's promise: while funded it can pay, and it pays once.      *)
LockKeepsAmount == PaidOnce /\ Solvent

=============================================================================
