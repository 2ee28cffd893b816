------------------------------ MODULE AtomicSwap ----------------------------
(***************************************************************************)
(* One swap on its two chains.  The seller locks ZEC in the HTLC script of *)
(* zcash-htlc.ts, the buyer locks the stablecoin in ConditionalLock.sol,   *)
(* the seller claims the stablecoin and shows the secret, the buyer claims *)
(* the ZEC with it; what is not claimed is refunded after its deadline.    *)
(* An honest party signs only what the code's checks let it sign: the      *)
(* machine of swap-state.ts and the wallet reviews of                      *)
(* stablecoin-wallet-action.ts.  Another party does whatever the two       *)
(* scripts allow.  A transaction waits in the pool until a block takes it; *)
(* blocks that are not final may be undone.                                *)
(***************************************************************************)
EXTENDS Integers, FiniteSets, Absent

CONSTANTS
  ZecFundBy,      \* the signed deadlines
  EvmFundBy,
  EvmClaimSafetyCutoff,
  EvmRefundTime,
  ZecRefundTime,
  SafetyWindow,   \* the wallet's margin before the claim cutoff
  Delay,          \* from an honest review to a final block
  Reaction,       \* from a final claim to the buyer's own
  MaxTime,        \* bound: the last second
  MaxReorgs       \* bound: reorganizations of each chain

Party == {"buyer", "seller"}
Chain == {"evm", "zec"}
Deed == {"fund", "claim", "refund"}

(* assertSwapTimingPolicy, with the cross-chain margin large enough for    *)
(* the buyer, and the wallet's margin for the seller.                      *)
ASSUME SwapTiming ==
  /\ {ZecFundBy, EvmFundBy, EvmClaimSafetyCutoff, EvmRefundTime, ZecRefundTime} \subseteq Nat
  /\ {SafetyWindow, Delay, Reaction, MaxTime, MaxReorgs} \subseteq Nat
  /\ None \notin Nat
  /\ ZecFundBy < EvmFundBy
  /\ EvmFundBy < EvmClaimSafetyCutoff
  /\ EvmRefundTime > EvmClaimSafetyCutoff + 1
  /\ ZecRefundTime - EvmRefundTime >= Delay + Reaction + Delay
  /\ SafetyWindow >= Delay

VARIABLES
  honest,   \* the parties that follow the code, once and for all
  now,      \* the time of the next block of either chain
  sent,     \* when each transaction was sent, or None; 0 if not by an honest party
  head,     \* each lock in the latest block of its chain
  final,    \* each lock in the latest final block
  headAt,   \* when the latest state changed, while it is not final
  claimedAt, \* when the EVM claim became final
  reorgs    \* reorganizations so far

swapVars == <<honest, now, sent, head, headAt, final, claimedAt, reorgs>>

SwapInit ==
  /\ honest \in SUBSET Party
  /\ now = 0
  /\ sent = [c \in Chain |-> [d \in Deed |-> None]]
  /\ head = [c \in Chain |-> "unfunded"]
  /\ final = head
  /\ headAt = [c \in Chain |-> 0]
  /\ claimedAt = 0
  /\ reorgs = [c \in Chain |-> 0]

-----------------------------------------------------------------------------
(* The scripts.                                                            *)

Outcome == [fund |-> "funded", claim |-> "claimed", refund |-> "refunded"]

(* Who may do it. *)
Actor(c, d) ==
  IF (c = "evm") = (d = "claim") THEN "seller" ELSE "buyer"

EvmLock(d) ==
  \/ d = "fund" /\ head["evm"] = "unfunded" /\ now <= EvmFundBy
  \/ d = "claim" /\ head["evm"] = "funded" /\ now <= EvmClaimSafetyCutoff
  \/ d = "refund" /\ head["evm"] = "funded" /\ now >= EvmRefundTime

(* Fault: the script is locked until the stablecoin's refund time. *)
ZecLockEarly(d) ==
  \/ d = "fund" /\ head["zec"] = "unfunded"
  \/ d = "claim" /\ head["zec"] = "funded"
  \/ d = "refund" /\ head["zec"] = "funded" /\ now > EvmRefundTime

(* evaluateHtlcCltv: the refund needs a median time past above the lock   *)
(* time, and that time is never ahead of the block's.                      *)
ZecLock(d) ==
  \/ d = "fund" /\ head["zec"] = "unfunded"
  \/ d = "claim" /\ head["zec"] = "funded"
  \/ d = "refund" /\ head["zec"] = "funded" /\ now > ZecRefundTime

Valid(c, d) == IF c = "evm" THEN EvmLock(d) ELSE ZecLock(d)

(* The secret is public once the claim that carries it is in the pool. *)
SecretPublic == sent["evm"]["claim"] # None

-----------------------------------------------------------------------------
(* What an honest party's code asks before it lets it sign.                *)

(* prepareSwapFunding for ZEC; the script itself has no cutoff. *)
ReviewZecFund == now < ZecFundBy

(* Fault: a confirmation is not waited for. *)
ReviewEvmFundUnconfirmed ==
  head["zec"] = "funded" /\ head["evm"] = "unfunded" /\ now <= EvmFundBy

(* prepareSwapFunding for the EVM leg, and planStablecoinFundingActions. *)
ReviewEvmFund ==
  final["zec"] = "funded" /\ head["evm"] = "unfunded" /\ now <= EvmFundBy

(* Fault: the claim is reviewed against the cutoff alone. *)
ReviewEvmClaimNoWindow ==
  final["evm"] = "funded" /\ now <= EvmClaimSafetyCutoff

(* Fault: the claim is reviewed against the latest block. *)
ReviewEvmClaimLatest ==
  head["evm"] = "funded" /\ now + SafetyWindow < EvmClaimSafetyCutoff

(* observeFinalizedStablecoinClaimHead: two providers read a funded lock   *)
(* in the same final block.                                                *)
FinalizedClaimHead == final["evm"] = "funded"

(* verifyClaimHead: the cutoff is further away than the safety window.     *)
ReviewEvmClaim == FinalizedClaimHead /\ now + SafetyWindow < EvmClaimSafetyCutoff

(* Fault: a refund is offered only while the other leg is locked. *)
ReviewEvmRefundWindow ==
  head["evm"] = "funded" /\ now >= EvmRefundTime /\ now <= ZecRefundTime

(* createStablecoinRefundAction: the lock is observed funded, final or not. *)
ReviewEvmRefund == head["evm"] = "funded" /\ now >= EvmRefundTime

(* buildTermsBoundZcashClaimArtifact: the funding and the claim that gave  *)
(* the secret are confirmed.                                               *)
ReviewZecClaim == final["evm"] = "claimed" /\ final["zec"] = "funded"

(* buildTermsBoundZcashRefundArtifact: the funding is confirmed and the    *)
(* refund mature; it asks nothing of the stablecoin.                       *)
ReviewZecRefund == final["zec"] = "funded" /\ now > ZecRefundTime

Review(c, d) ==
  /\ c = "zec" /\ d = "fund" => ReviewZecFund
  /\ c = "evm" /\ d = "fund" => ReviewEvmFund
  /\ c = "evm" /\ d = "claim" => ReviewEvmClaim
  /\ c = "evm" /\ d = "refund" => ReviewEvmRefund
  /\ c = "zec" /\ d = "claim" => ReviewZecClaim
  /\ c = "zec" /\ d = "refund" => ReviewZecRefund

Send(c, d) ==
  /\ sent[c][d] = None
  /\ Actor(c, d) \in honest => Review(c, d)
  /\ c = "zec" /\ d = "claim" => SecretPublic
  /\ sent' = [sent EXCEPT ![c][d] = IF Actor(c, d) \in honest THEN now ELSE 0]
  /\ UNCHANGED <<honest, now, head, headAt, final, claimedAt, reorgs>>

-----------------------------------------------------------------------------
(* The chains.                                                             *)

Mine(c, d) ==
  /\ sent[c][d] # None
  /\ Valid(c, d)
  /\ head' = [head EXCEPT ![c] = Outcome[d]]
  /\ headAt' = [headAt EXCEPT ![c] = now]
  /\ UNCHANGED <<honest, now, sent, final, claimedAt, reorgs>>

Finalize(c) ==
  /\ final[c] # head[c]
  /\ final' = [final EXCEPT ![c] = head[c]]
  /\ headAt' = [headAt EXCEPT ![c] = 0]
  /\ claimedAt' = IF c = "evm" /\ head[c] = "claimed" THEN now ELSE claimedAt
  /\ UNCHANGED <<honest, now, sent, head, reorgs>>

Reorganize(c) ==
  /\ final[c] # head[c]
  /\ reorgs[c] < MaxReorgs
  /\ head' = [head EXCEPT ![c] = final[c]]
  /\ headAt' = [headAt EXCEPT ![c] = 0]
  /\ reorgs' = [reorgs EXCEPT ![c] = @ + 1]
  /\ UNCHANGED <<honest, now, sent, final, claimedAt>>

(* Time passes no further than the assumptions on chains and on honest     *)
(* parties let it: a block is final within Delay, and an honest            *)
(* transaction that is valid is in a final block within Delay.             *)
Waiting(c, d) ==
  /\ Actor(c, d) \in honest
  /\ sent[c][d] # None
  /\ final[c] # Outcome[d]
  /\ head[c] = Outcome[d] \/ Valid(c, d)

(* An honest buyer sees the secret and claims within Reaction. *)
BuyerDue ==
  /\ "buyer" \in honest
  /\ ReviewZecClaim
  /\ sent["zec"]["claim"] = None

Tick ==
  /\ now < MaxTime
  /\ \A c \in Chain : final[c] # head[c] => now < headAt[c] + Delay
  /\ \A c \in Chain, d \in Deed : Waiting(c, d) => now < sent[c][d] + Delay
  /\ BuyerDue => now < claimedAt + Reaction
  /\ now' = now + 1
  /\ UNCHANGED <<honest, sent, head, headAt, final, claimedAt, reorgs>>

SwapNext ==
  \/ \E c \in Chain : Finalize(c) \/ Reorganize(c) \/ \E d \in Deed : Send(c, d) \/ Mine(c, d)
  \/ Tick

(* Every valid transaction is mined, every block gets final, and time goes *)
(* on.  An honest party takes back what was not claimed, and an honest     *)
(* buyer claims what it was sold; nobody has to fund, or to claim first.   *)
SwapSpec ==
  /\ SwapInit
  /\ [][SwapNext]_swapVars
  /\ \A c \in Chain, d \in Deed : WF_swapVars(Mine(c, d))
  /\ \A c \in Chain : WF_swapVars(Finalize(c))
  /\ WF_swapVars(Tick)
  /\ \A c \in Chain : WF_swapVars(Actor(c, "refund") \in honest /\ Send(c, "refund"))
  /\ WF_swapVars("buyer" \in honest /\ Send("zec", "claim"))

-----------------------------------------------------------------------------
Lock == {"unfunded", "funded", "claimed", "refunded"}

(* Types of all the variables. *)
SwapTypeOK ==
  /\ honest \subseteq Party /\ now \in Nat
  /\ sent \in [Chain -> [Deed -> Nat \cup {None}]]
  /\ head \in [Chain -> Lock] /\ final \in [Chain -> Lock]
  /\ headAt \in [Chain -> Nat] /\ claimedAt \in Nat
  /\ reorgs \in [Chain -> Nat]

(* An honest buyer whose stablecoin was claimed can still claim, or has    *)
(* claimed, the ZEC, whatever the seller does: the deadlines leave room    *)
(* for the finality of the claim and for the buyer's answer                *)
(* (swap-policy.ts:168).                                                   *)
BuyerWhole ==
  "buyer" \in honest /\ final["evm"] = "claimed" => final["zec"] \in {"funded", "claimed"}

(* And an honest buyer does claim it.                                      *)
BuyerPaid ==
  "buyer" \in honest => (final["evm"] = "claimed" ~> final["zec"] = "claimed")

(* An honest seller whose ZEC was claimed has, or is about to have, the    *)
(* stablecoin, whatever the buyer does: the secret is shown only for a     *)
(* final lock, early enough to be mined before the cutoff                  *)
(* (stablecoin-wallet-action.ts:764).                                      *)
SellerWhole ==
  "seller" \in honest /\ final["zec"] = "claimed" => final["evm"] \in {"funded", "claimed"}

(* Whoever takes an honest seller's ZEC, the stablecoin reaches the seller *)
(* finally, though a reorganization may undo its claim in between.         *)
SellerPaid ==
  "seller" \in honest => (head["zec"] = "claimed" ~> final["evm"] = "claimed")

(* No honest party's coins stay locked: a leg that it funded ends.         *)
HonestLegEnds ==
  \A c \in Chain :
    Actor(c, "fund") \in honest =>
      (final[c] = "funded" ~> final[c] \in {"claimed", "refunded"})

(* What an honest party is owed it gets in the end, whatever the other     *)
(* does.                                                                   *)
HonestSwapEnds == BuyerPaid /\ SellerPaid /\ HonestLegEnds

=============================================================================
