--------------------------- MODULE AtomicSwapProofs -------------------------
(***************************************************************************)
(* Theorems about a swap across its two chains: for all deadlines, delays  *)
(* and numbers of reorganizations that satisfy SwapTiming neither honest   *)
(* party loses its coins; and for any constants at all, the terms a swap   *)
(* is opened with, the evidence read of its lock, the artifacts its        *)
(* parties resume and the outcome an observer projects are what they say.  *)
(***************************************************************************)
EXTENDS AtomicSwap, EvmEvidence, SwapObserver, ZcashArtifacts, SwapPlan, Lemmas,
        SequenceTheorems, TLAPS

-----------------------------------------------------------------------------
(* What the scripts accept, transaction by transaction. *)
LEMMA ScriptRules ==
  /\ Valid("evm", "fund") <=> head["evm"] = "unfunded" /\ now <= EvmFundBy
  /\ Valid("evm", "claim") <=> head["evm"] = "funded" /\ now <= EvmClaimSafetyCutoff
  /\ Valid("evm", "refund") <=> head["evm"] = "funded" /\ now >= EvmRefundTime
  /\ Valid("zec", "fund") <=> head["zec"] = "unfunded"
  /\ Valid("zec", "claim") <=> head["zec"] = "funded"
  /\ Valid("zec", "refund") <=> head["zec"] = "funded" /\ now > ZecRefundTime
BY DEF Valid, EvmLock, ZecLock

(* Who signs what. *)
LEMMA Actors ==
  /\ Actor("evm", "claim") = "seller" /\ Actor("evm", "fund") = "buyer"
  /\ Actor("evm", "refund") = "buyer" /\ Actor("zec", "claim") = "buyer"
  /\ Actor("zec", "fund") = "seller" /\ Actor("zec", "refund") = "seller"
BY DEF Actor

(* What an honest party signs. *)
LEMMA Reviews ==
  /\ Review("evm", "fund") <=> ReviewEvmFund
  /\ Review("evm", "claim") <=> ReviewEvmClaim
  /\ Review("evm", "refund") <=> ReviewEvmRefund
  /\ Review("zec", "fund") <=> ReviewZecFund
  /\ Review("zec", "claim") <=> ReviewZecClaim
  /\ Review("zec", "refund") <=> ReviewZecRefund
BY DEF Review

-----------------------------------------------------------------------------
(* The state is always well typed. *)
THEOREM SwapTypeCorrect == SwapSpec => []SwapTypeOK
<1>1. SwapInit => SwapTypeOK
  BY DEF SwapInit, SwapTypeOK, Lock
<1>2. SwapTypeOK /\ [SwapNext]_swapVars => SwapTypeOK'
  <2>. SUFFICES ASSUME SwapTypeOK, [SwapNext]_swapVars PROVE SwapTypeOK'
    OBVIOUS
  <2>. USE DEF SwapTypeOK
  <2>1. ASSUME NEW c \in Chain, NEW d \in Deed, Send(c, d) PROVE SwapTypeOK'
    BY <2>1 DEF Send
  <2>2. ASSUME NEW c \in Chain, NEW d \in Deed, Mine(c, d) PROVE SwapTypeOK'
    BY <2>2 DEF Mine, Outcome, Lock, Deed
  <2>3. ASSUME NEW c \in Chain, Finalize(c) PROVE SwapTypeOK'
    BY <2>3 DEF Finalize
  <2>4. ASSUME NEW c \in Chain, Reorganize(c) PROVE SwapTypeOK'
    BY <2>4 DEF Reorganize
  <2>5. CASE Tick
    BY <2>5 DEF Tick
  <2>6. CASE UNCHANGED swapVars
    BY <2>6 DEF swapVars
  <2>. QED  BY <2>1, <2>2, <2>3, <2>4, <2>5, <2>6 DEF SwapNext
<1>. QED  BY <1>1, <1>2, PTL DEF SwapSpec

-----------------------------------------------------------------------------
(* What holds whoever is honest: a lock goes forward, final after latest,  *)
(* a refund comes after its time, and what is locked was sent.             *)
LocksGoForward ==
  /\ final["evm"] = "funded" => head["evm"] # "unfunded"
  /\ final["zec"] = "funded" => head["zec"] # "unfunded"
  /\ \A c \in Chain : final[c] \in {"claimed", "refunded"} => head[c] = final[c]
  /\ head["evm"] = "refunded" => now >= EvmRefundTime
  /\ head["zec"] = "refunded" => now > ZecRefundTime
  /\ head["evm"] # "unfunded" => sent["evm"]["fund"] # None
  /\ final["evm"] # "unfunded" => sent["evm"]["fund"] # None
  /\ head["zec"] = "claimed" => sent["zec"]["claim"] # None
  /\ final["zec"] = "claimed" => sent["zec"]["claim"] # None
  /\ sent["zec"]["claim"] # None => SecretPublic

(* A seller who has shown the secret did so in time, for a final lock, and *)
(* the claim is still waiting for a block or final.                        *)
ClaimInTime ==
  SecretPublic =>
    /\ sent["evm"]["claim"] \in Nat
    /\ sent["evm"]["claim"] + SafetyWindow < EvmClaimSafetyCutoff
    /\ final["evm"] \in {"funded", "claimed"}
    /\ final["evm"] = "funded" =>
         head["evm"] \in {"funded", "claimed"} /\ now <= sent["evm"]["claim"] + Delay

SellerSafe == SwapTypeOK /\ LocksGoForward /\ ("seller" \in honest => ClaimInTime)

(* Nobody turns honest, or dishonest. *)
LEMMA HonestyStays == [SwapNext]_swapVars => honest' = honest
BY DEF SwapNext, Send, Mine, Finalize, Reorganize, Tick, swapVars

LEMMA ForwardInit == SwapInit => LocksGoForward
BY DEF SwapInit, LocksGoForward, SecretPublic, Chain, Deed

LEMMA ForwardNext ==
  ASSUME SwapTypeOK, LocksGoForward, [SwapNext]_swapVars
  PROVE  LocksGoForward'
<1>. USE SwapTiming, ScriptRules DEF LocksGoForward, SwapTypeOK, SecretPublic, Chain, Deed
<1>1. ASSUME NEW c \in Chain, NEW d \in Deed, Send(c, d) PROVE LocksGoForward'
  BY <1>1 DEF Send
<1>2. ASSUME NEW c \in Chain, NEW d \in Deed, Mine(c, d) PROVE LocksGoForward'
  <2>1. CASE c = "evm"
    BY <1>2, <2>1 DEF Mine, Outcome
  <2>2. CASE c = "zec"
    BY <1>2, <2>2 DEF Mine, Outcome
  <2>. QED  BY <2>1, <2>2
<1>3. ASSUME NEW c \in Chain, Finalize(c) PROVE LocksGoForward'
  BY <1>3 DEF Finalize, Lock
<1>4. ASSUME NEW c \in Chain, Reorganize(c) PROVE LocksGoForward'
  BY <1>4 DEF Reorganize, Lock
<1>5. CASE Tick
  BY <1>5 DEF Tick
<1>6. CASE UNCHANGED swapVars
  BY <1>6 DEF swapVars
<1>. QED  BY <1>1, <1>2, <1>3, <1>4, <1>5, <1>6 DEF SwapNext

LEMMA SellerNext ==
  ASSUME "seller" \in honest, SellerSafe, [SwapNext]_swapVars
  PROVE  ClaimInTime'
<1>. USE SwapTiming, Actors, Reviews
     DEF SellerSafe, LocksGoForward, ClaimInTime, SwapTypeOK, SecretPublic, Chain, Deed
<1>1. ASSUME NEW c \in Chain, NEW d \in Deed, Send(c, d) PROVE ClaimInTime'
  <2>1. CASE c = "evm" /\ d = "claim"
    BY <1>1, <2>1 DEF Send, ReviewEvmClaim, FinalizedClaimHead, Lock
  <2>2. CASE ~(c = "evm" /\ d = "claim")
    BY <1>1, <2>2 DEF Send
  <2>. QED  BY <2>1, <2>2
<1>2. ASSUME NEW c \in Chain, NEW d \in Deed, Mine(c, d) PROVE ClaimInTime'
  <2>1. CASE c = "evm" /\ d = "fund"
    BY <1>2, <2>1, ScriptRules DEF Mine, Outcome
  <2>2. CASE c = "evm" /\ d = "claim"
    BY <1>2, <2>2, ScriptRules DEF Mine, Outcome
  <2>3. CASE c = "evm" /\ d = "refund"
    BY <1>2, <2>3, ScriptRules DEF Mine, Outcome
  <2>4. CASE c = "zec"
    BY <1>2, <2>4 DEF Mine
  <2>. QED  BY <2>1, <2>2, <2>3, <2>4
<1>3. ASSUME NEW c \in Chain, Finalize(c) PROVE ClaimInTime'
  BY <1>3 DEF Finalize
<1>4. ASSUME NEW c \in Chain, Reorganize(c) PROVE ClaimInTime'
  BY <1>4 DEF Reorganize
<1>5. CASE Tick
  <2>1. SecretPublic /\ final["evm"] = "funded" => Waiting("evm", "claim")
    BY ScriptRules DEF Waiting, Outcome
  <2>2. Waiting("evm", "claim") => now < sent["evm"]["claim"] + Delay
    BY <1>5 DEF Tick
  <2>. QED  BY <1>5, <2>1, <2>2 DEF Tick
<1>6. CASE UNCHANGED swapVars
  BY <1>6 DEF swapVars
<1>. QED  BY <1>1, <1>2, <1>3, <1>4, <1>5, <1>6 DEF SwapNext

(* An honest seller is whole: the secret it shows is for a final lock, and *)
(* the claim that carries it is mined before the cutoff.                   *)
THEOREM SellerIsWhole == SwapSpec => []SellerWhole
<1>1. SwapInit => SellerSafe
  BY ForwardInit
  DEF SwapInit, SellerSafe, SwapTypeOK, ClaimInTime, SecretPublic, Lock, Chain, Deed
<1>2. SwapTypeOK' /\ SellerSafe /\ [SwapNext]_swapVars => SellerSafe'
  BY ForwardNext, SellerNext, HonestyStays DEF SellerSafe
<1>3. SellerSafe => SellerWhole
  BY DEF SellerSafe, LocksGoForward, ClaimInTime, SellerWhole
<1>. QED  BY <1>1, <1>2, <1>3, SwapTypeCorrect, PTL DEF SwapSpec

-----------------------------------------------------------------------------
(* The buyer's side.  It locks only against a final lock; a claim is mined *)
(* by the cutoff, final a Delay later, answered within Reaction, and the   *)
(* answer is final a Delay after that, before the ZEC refund.              *)
LocksAgainstFinal == sent["evm"]["fund"] # None => final["zec"] # "unfunded"

ClaimTimes ==
  /\ head["evm"] = "claimed" /\ final["evm"] # "claimed" =>
       headAt["evm"] <= EvmClaimSafetyCutoff /\ now <= headAt["evm"] + Delay
  /\ final["evm"] = "claimed" => claimedAt <= EvmClaimSafetyCutoff + Delay

AnswerInTime ==
  /\ sent["zec"]["claim"] # None =>
       /\ final["evm"] = "claimed"
       /\ sent["zec"]["claim"] \in Nat
       /\ sent["zec"]["claim"] <= claimedAt + Reaction
  /\ final["evm"] = "claimed" =>
       /\ head["zec"] \in {"funded", "claimed"}
       /\ final["zec"] \in {"funded", "claimed"}
       /\ final["zec"] = "funded" /\ sent["zec"]["claim"] = None => now <= claimedAt + Reaction
       /\ final["zec"] = "funded" /\ sent["zec"]["claim"] # None =>
            now <= sent["zec"]["claim"] + Delay

BuyerSafe ==
  /\ SwapTypeOK
  /\ LocksGoForward
  /\ "buyer" \in honest => LocksAgainstFinal /\ ClaimTimes /\ AnswerInTime

LEMMA BuyerNext ==
  ASSUME "buyer" \in honest, BuyerSafe, SwapTypeOK', LocksGoForward', [SwapNext]_swapVars
  PROVE  BuyerSafe'
<1>. USE SwapTiming, Actors, Reviews DEF BuyerSafe, LocksGoForward, LocksAgainstFinal,
       ClaimTimes, AnswerInTime, SwapTypeOK, SecretPublic, Chain, Deed, Lock
<1>1. ASSUME NEW c \in Chain, NEW d \in Deed, Send(c, d) PROVE BuyerSafe'
  <2>1. CASE c = "evm" /\ d = "fund"
    BY <1>1, <2>1 DEF Send, ReviewEvmFund
  <2>2. CASE c = "zec" /\ d = "claim"
    BY <1>1, <2>2 DEF Send, ReviewZecClaim
  <2>3. CASE ~(c = "evm" /\ d = "fund") /\ ~(c = "zec" /\ d = "claim")
    BY <1>1, <2>3 DEF Send
  <2>. QED  BY <2>1, <2>2, <2>3
<1>2. ASSUME NEW c \in Chain, NEW d \in Deed, Mine(c, d) PROVE BuyerSafe'
  <2>1. CASE c = "evm"
    BY <1>2, <2>1, ScriptRules DEF Mine, Outcome
  <2>2. CASE c = "zec" /\ d \in {"fund", "claim"}
    BY <1>2, <2>2, ScriptRules DEF Mine, Outcome
  <2>3. CASE c = "zec" /\ d = "refund"
    BY <1>2, <2>3, ScriptRules DEF Mine, Outcome
  <2>. QED  BY <2>1, <2>2, <2>3
<1>3. ASSUME NEW c \in Chain, Finalize(c) PROVE BuyerSafe'
  <2>1. CASE c = "evm"
    BY <1>3, <2>1 DEF Finalize
  <2>2. CASE c = "zec"
    BY <1>3, <2>2 DEF Finalize
  <2>. QED  BY <2>1, <2>2
<1>4. ASSUME NEW c \in Chain, Reorganize(c) PROVE BuyerSafe'
  BY <1>4 DEF Reorganize
<1>5. CASE Tick
  <2>1. final["evm"] # head["evm"] => now < headAt["evm"] + Delay
    BY <1>5 DEF Tick
  <2>2. final["evm"] = "claimed" /\ final["zec"] = "funded" /\ sent["zec"]["claim"] # None
          => now < sent["zec"]["claim"] + Delay
    <3>1. final["evm"] = "claimed" /\ final["zec"] = "funded" /\ sent["zec"]["claim"] # None
            => Waiting("zec", "claim")
      BY ScriptRules DEF Waiting, Outcome
    <3>. QED  BY <1>5, <3>1 DEF Tick
  <2>3. final["evm"] = "claimed" /\ final["zec"] = "funded" /\ sent["zec"]["claim"] = None
          => now < claimedAt + Reaction
    BY <1>5 DEF Tick, BuyerDue, ReviewZecClaim
  <2>. QED  BY <1>5, <2>1, <2>2, <2>3 DEF Tick
<1>6. CASE UNCHANGED swapVars
  BY <1>6 DEF swapVars
<1>. QED  BY <1>1, <1>2, <1>3, <1>4, <1>5, <1>6 DEF SwapNext

(* An honest buyer is whole: when its stablecoin is gone the ZEC is still  *)
(* locked for it, or its own.                                              *)
THEOREM BuyerIsWhole == SwapSpec => []BuyerWhole
<1>1. SwapInit => BuyerSafe
  BY ForwardInit DEF SwapInit, BuyerSafe, SwapTypeOK, LocksAgainstFinal, ClaimTimes,
     AnswerInTime, SecretPublic, Lock, Chain, Deed
<1>2. SwapTypeOK' /\ BuyerSafe /\ [SwapNext]_swapVars => BuyerSafe'
  <2>1. BuyerSafe => SwapTypeOK /\ LocksGoForward
    BY DEF BuyerSafe
  <2>2. SwapTypeOK' /\ BuyerSafe /\ [SwapNext]_swapVars /\ "buyer" \in honest => BuyerSafe'
    BY <2>1, ForwardNext, BuyerNext DEF BuyerSafe
  <2>3. SwapTypeOK' /\ BuyerSafe /\ [SwapNext]_swapVars /\ "buyer" \notin honest => BuyerSafe'
    BY <2>1, ForwardNext, HonestyStays DEF BuyerSafe
  <2>. QED  BY <2>2, <2>3
<1>3. BuyerSafe => BuyerWhole
  BY DEF BuyerSafe, AnswerInTime, BuyerWhole
<1>. QED  BY <1>1, <1>2, <1>3, SwapTypeCorrect, PTL DEF SwapSpec

-----------------------------------------------------------------------------
(* Reading evidence from a chain that moves.                               *)

EvidenceSpec == EvidenceInit /\ [][EvidenceNext]_evidenceVars

Blocks == [id : Nat, time : Nat, tx : Terminals \cup {"deploy", "fund", None}, ok : BOOLEAN]

ChainTypes ==
  /\ evmBlocks \in Seq(Blocks) /\ finalNumber \in 1..Len(evmBlocks) /\ mined \in Nat
  /\ \A i \in DOMAIN evmBlocks : evmBlocks[i].id <= mined
  /\ \A i, j \in DOMAIN evmBlocks : evmBlocks[i].id = evmBlocks[j].id => i = j
  /\ evmBlocks[1].tx = "deploy"
  /\ switched \in BOOLEAN

\* A lock is left once.
LeftOnce ==
  \A i, j \in DOMAIN evmBlocks :
    ~ (evmBlocks[i].ok /\ evmBlocks[i].tx = "claim" /\ evmBlocks[j].ok /\ evmBlocks[j].tx = "refund")

\* The pinned block is still there.
PinnedThere ==
  /\ reading.pinned.number \in DOMAIN evmBlocks
  /\ evmBlocks[reading.pinned.number].id = reading.pinned.id

\* A block that bears the hash of the receipt is the receipt's.
Names(r) ==
  /\ r.number \in Nat /\ r.id \in Nat /\ r.id <= mined
  /\ \A i \in DOMAIN evmBlocks :
       evmBlocks[i].id = r.id => evmBlocks[i].tx = r.tx /\ evmBlocks[i].ok

\* A receipt that was accepted lies under the pinned block.
Accepted(r, tx) ==
  /\ Names(r) /\ r.tx = tx /\ 1 < r.number /\ r.number <= reading.pinned.number
  /\ (PinnedThere => evmBlocks[r.number].id = r.id)

Fields == {"step", "action", "pinned", "tx", "receipt", "block", "funding", "terminal"}
Asking == {"receipt", "transaction", "block"}

\* The pinned block is final, and only another chain takes it away.
PinHolds ==
  /\ reading.pinned.number \in 1..finalNumber /\ reading.pinned.id \in Nat
  /\ reading.pinned.id <= mined
  /\ ~PinnedThere => switched

ReadInv ==
  /\ DOMAIN reading = Fields
  /\ reading.step \in {"idle", "pin", "code", "recheck", "bound", "failed"} \cup Asking
  /\ reading.action \in Terminals \cup {None}
  /\ reading.step \in Asking \cup {"code", "recheck", "bound"} => PinHolds
  /\ reading.step \in {"transaction", "block"} => Names(reading.receipt) /\ reading.receipt.tx = reading.tx
  /\ reading.step \in Asking =>
       \/ reading.tx \in {"deploy", "fund"}
       \/ /\ reading.tx \in Terminals /\ reading.tx = reading.action
          /\ Accepted(reading.funding, "fund")
  /\ reading.step \in {"code", "recheck", "bound"} => Accepted(reading.funding, "fund")
  /\ reading.step \in {"idle", "pin", "code"} \cup Asking => reading.terminal = None
  /\ (reading.step \in {"recheck", "bound"} /\ reading.terminal # None)
       => Accepted(reading.terminal, reading.action)
  /\ reading.step = "bound" => PinnedThere
  /\ (reading.step = "bound" /\ reading.action # None)
       => (reading.terminal # None /\ reading.funding.number < reading.terminal.number)

EvidenceInv == ChainTypes /\ LeftOnce /\ ReadInv

\* The reader starts with a chain of one block and nothing read.
LEMMA EvidenceInvInit == ASSUME EvidenceInit PROVE EvidenceInv
<1>1. /\ evmBlocks = <<[id |-> 1, time |-> 1, tx |-> "deploy", ok |-> TRUE]>>
      /\ finalNumber = 1 /\ mined = 1 /\ switched = FALSE
      /\ reading = [step |-> "idle", action |-> None, pinned |-> None, tx |-> None,
                    receipt |-> None, block |-> None, funding |-> None, terminal |-> None]
  BY DEF EvidenceInit
<1>2. ChainTypes
  <2>1. PICK b : b = [id |-> 1, time |-> 1, tx |-> "deploy", ok |-> TRUE]
    OBVIOUS
  <2>2. b \in Blocks /\ b.id = 1 /\ b.tx = "deploy"
    BY <2>1 DEF Blocks
  <2>3. evmBlocks = <<b>>
    BY <1>1, <2>1
  <2>4. evmBlocks \in Seq(Blocks) /\ Len(evmBlocks) = 1 /\ DOMAIN evmBlocks = {1} /\ evmBlocks[1] = b
    BY <2>2, <2>3
  <2>5. finalNumber \in 1..Len(evmBlocks) /\ mined \in Nat /\ switched \in BOOLEAN
    <3>1. switched \in BOOLEAN
      BY <1>1
    <3>. QED  BY <1>1, <2>4, <3>1
  <2>6. \A i \in DOMAIN evmBlocks : evmBlocks[i].id <= mined
    BY <1>1, <2>2, <2>4
  <2>. QED  BY <2>2, <2>4, <2>5, <2>6 DEF ChainTypes
<1>3. LeftOnce
  BY <1>1 DEF LeftOnce
<1>4. ReadInv
  BY <1>1 DEF ReadInv, Fields, Asking
<1>. QED  BY <1>2, <1>3, <1>4 DEF EvidenceInv

\* Whether the chain grows, becomes final or is reorganised: what is final stays,
\* and a block that was not there bears a hash of its own.
LEMMA ChainMoves ==
  ASSUME ChainTypes, LeftOnce, MineBlock \/ FinalizeBlocks \/ ReorganizeBlocks \/ SwitchChain
  PROVE  /\ ChainTypes' /\ LeftOnce'
         /\ finalNumber' >= finalNumber /\ mined' >= mined /\ reading' = reading
         /\ \A i \in DOMAIN evmBlocks' :
              (i \in DOMAIN evmBlocks /\ evmBlocks'[i] = evmBlocks[i]) \/ evmBlocks'[i].id > mined
         /\ \/ /\ switched' = switched
               /\ \A i \in 1..finalNumber : i \in DOMAIN evmBlocks' /\ evmBlocks'[i] = evmBlocks[i]
            \/ /\ switched' = TRUE /\ DOMAIN evmBlocks' = DOMAIN evmBlocks
               /\ evmBlocks'[1] = evmBlocks[1]
               /\ \A i \in DOMAIN evmBlocks \ {1} : evmBlocks'[i].id > mined
<1>1. /\ evmBlocks \in Seq(Blocks) /\ Len(evmBlocks) \in Nat /\ DOMAIN evmBlocks = 1..Len(evmBlocks)
      /\ finalNumber \in 1..Len(evmBlocks) /\ mined \in Nat
      /\ \A i \in DOMAIN evmBlocks : evmBlocks[i].id <= mined /\ evmBlocks[i] \in Blocks
      /\ evmBlocks[1].tx = "deploy" /\ switched \in BOOLEAN
  BY DEF ChainTypes
<1>2. CASE MineBlock
  <2>1. PICK tx \in {"fund", "claim", "refund", None} : evmBlocks' = Extended(evmBlocks, tx)
    BY <1>2 DEF MineBlock
  <2>2. mined' = mined + 1 /\ UNCHANGED <<finalNumber, switched, reading>>
    BY <1>2 DEF MineBlock
  <2>3. PICK b : b = [id |-> mined + 1, time |-> Len(evmBlocks) + 1, tx |-> tx,
                      ok |-> Admitted(evmBlocks, tx, Len(evmBlocks) + 1)]
    OBVIOUS
  <2>4. /\ evmBlocks' = Append(evmBlocks, b) /\ b.id = mined + 1 /\ b.tx = tx
        /\ b.ok = Admitted(evmBlocks, tx, Len(evmBlocks) + 1)
    BY <2>1, <2>3 DEF Extended
  <2>5. Admitted(evmBlocks, tx, Len(evmBlocks) + 1) \in BOOLEAN
    <3>1. ASSUME NEW t PROVE Succeeded(evmBlocks, t) \in BOOLEAN
      BY DEF Succeeded
    <3>2. CASE tx = "fund"
      <4>1. Admitted(evmBlocks, tx, Len(evmBlocks) + 1) = (Len(evmBlocks) + 1 <= EvmFundCutoff)
        BY <3>2 DEF Admitted
      <4>2. (Len(evmBlocks) + 1 <= EvmFundCutoff) \in BOOLEAN
        BY <1>1, EvidenceAssumption
      <4>. QED  BY <4>1, <4>2
    <3>3. CASE tx = "claim"
      <4>1. Admitted(evmBlocks, tx, Len(evmBlocks) + 1)
              = (Succeeded(evmBlocks, "fund") /\ ~Succeeded(evmBlocks, "refund") /\ Len(evmBlocks) + 1 <= EvmClaimCutoff)
        BY <3>3 DEF Admitted
      <4>. QED  BY <4>1
    <3>4. CASE tx = "refund"
      <4>1. Admitted(evmBlocks, tx, Len(evmBlocks) + 1)
              = (Succeeded(evmBlocks, "fund") /\ ~Succeeded(evmBlocks, "claim") /\ Len(evmBlocks) + 1 >= EvmRefundFrom)
        BY <3>4 DEF Admitted
      <4>. QED  BY <4>1
    <3>5. CASE tx \notin {"fund", "claim", "refund"}
      <4>1. Admitted(evmBlocks, tx, Len(evmBlocks) + 1) = TRUE
        BY <3>5 DEF Admitted
      <4>. QED  BY <4>1
    <3>. QED  BY <3>2, <3>3, <3>4, <3>5
  <2>6. b \in Blocks
    <3>1. mined + 1 \in Nat /\ Len(evmBlocks) + 1 \in Nat /\ tx \in Terminals \cup {"deploy", "fund", None}
      BY <1>1 DEF Terminals
    <3>. QED  BY <2>3, <2>5, <3>1 DEF Blocks
  <2>7. /\ evmBlocks' \in Seq(Blocks) /\ Len(evmBlocks') = Len(evmBlocks) + 1
        /\ DOMAIN evmBlocks' = 1..(Len(evmBlocks) + 1)
        /\ \A i \in DOMAIN evmBlocks : i \in DOMAIN evmBlocks' /\ evmBlocks'[i] = evmBlocks[i]
        /\ evmBlocks'[Len(evmBlocks) + 1] = b
    BY <1>1, <2>4, <2>6
  <2>8. \A i \in DOMAIN evmBlocks' : i \in DOMAIN evmBlocks \/ i = Len(evmBlocks) + 1
    BY <1>1, <2>7
  <2>9. ChainTypes'
    <3>1. \A i \in DOMAIN evmBlocks' : evmBlocks'[i].id <= mined'
      <4>1. \A i \in DOMAIN evmBlocks : evmBlocks[i].id \in Nat
        BY <1>1 DEF Blocks
      <4>. QED  BY <1>1, <2>2, <2>4, <2>7, <2>8, <4>1
    <3>2. evmBlocks'[1].tx = "deploy" /\ finalNumber' \in 1..Len(evmBlocks') /\ mined' \in Nat
      BY <1>1, <2>2, <2>7
    <3>3. ASSUME NEW i \in DOMAIN evmBlocks', NEW j \in DOMAIN evmBlocks', evmBlocks'[i].id = evmBlocks'[j].id
          PROVE  i = j
      <4>1. \A k \in DOMAIN evmBlocks : evmBlocks[k].id # mined + 1
        <5>1. \A k \in DOMAIN evmBlocks : evmBlocks[k].id \in Nat /\ evmBlocks[k].id <= mined
          BY <1>1 DEF Blocks
        <5>. QED  BY <1>1, <5>1
      <4>2. evmBlocks'[Len(evmBlocks) + 1].id = mined + 1
        BY <2>4, <2>7
      <4>3. \A k, l \in DOMAIN evmBlocks : evmBlocks[k].id = evmBlocks[l].id => k = l
        BY DEF ChainTypes
      <4>. QED  BY <2>7, <2>8, <3>3, <4>1, <4>2, <4>3
    <3>. QED  BY <1>1, <2>2, <2>7, <3>1, <3>2, <3>3 DEF ChainTypes
  <2>10. LeftOnce'
    <3>1. tx = "claim" /\ b.ok => ~Succeeded(evmBlocks, "refund")
      BY <2>4 DEF Admitted
    <3>2. tx = "refund" /\ b.ok => ~Succeeded(evmBlocks, "claim")
      BY <2>4 DEF Admitted
    <3>. QED  BY <2>4, <2>7, <2>8, <3>1, <3>2 DEF LeftOnce, Succeeded
  <2>11. \A i \in DOMAIN evmBlocks' :
           (i \in DOMAIN evmBlocks /\ evmBlocks'[i] = evmBlocks[i]) \/ evmBlocks'[i].id > mined
    BY <1>1, <2>4, <2>7, <2>8
  <2>12. \A i \in 1..finalNumber : i \in DOMAIN evmBlocks' /\ evmBlocks'[i] = evmBlocks[i]
    BY <1>1, <2>7
  <2>. QED  BY <1>1, <2>2, <2>9, <2>10, <2>11, <2>12
<1>3. CASE FinalizeBlocks
  <2>1. PICK n \in finalNumber+1..Len(evmBlocks) : finalNumber' = n
    BY <1>3 DEF FinalizeBlocks
  <2>2. UNCHANGED <<evmBlocks, mined, switched, reading>>
    BY <1>3 DEF FinalizeBlocks
  <2>3. finalNumber' \in 1..Len(evmBlocks) /\ finalNumber' >= finalNumber
    BY <1>1, <2>1
  <2>4. ChainTypes' /\ LeftOnce'
    BY <1>1, <2>2, <2>3 DEF ChainTypes, LeftOnce
  <2>. QED  BY <1>1, <2>2, <2>3, <2>4
<1>4. CASE ReorganizeBlocks
  <2>1. PICK n \in finalNumber..Len(evmBlocks)-1 : evmBlocks' = SubSeq(evmBlocks, 1, n)
    BY <1>4 DEF ReorganizeBlocks
  <2>2. UNCHANGED <<finalNumber, mined, switched, reading>>
    BY <1>4 DEF ReorganizeBlocks
  <2>3. n \in Nat /\ 1 <= n /\ n <= Len(evmBlocks) /\ finalNumber <= n
    BY <1>1
  <2>4. /\ evmBlocks' \in Seq(Blocks) /\ Len(evmBlocks') = n /\ DOMAIN evmBlocks' = 1..n
        /\ \A i \in 1..n : i \in DOMAIN evmBlocks /\ evmBlocks'[i] = evmBlocks[i]
    BY <1>1, <2>1, <2>3
  <2>5. ChainTypes'
    BY <1>1, <2>2, <2>3, <2>4 DEF ChainTypes
  <2>6. LeftOnce'
    BY <2>4 DEF LeftOnce
  <2>7. \A i \in 1..finalNumber : i \in DOMAIN evmBlocks' /\ evmBlocks'[i] = evmBlocks[i]
    BY <1>1, <2>3, <2>4
  <2>8. \A i \in DOMAIN evmBlocks' :
          (i \in DOMAIN evmBlocks /\ evmBlocks'[i] = evmBlocks[i]) \/ evmBlocks'[i].id > mined
    BY <2>4
  <2>9. finalNumber' >= finalNumber /\ mined' >= mined
    BY <1>1, <2>2
  <2>. QED  BY <2>2, <2>5, <2>6, <2>7, <2>8, <2>9
<1>5. CASE SwitchChain
  <2>1. /\ evmBlocks' = [i \in DOMAIN evmBlocks |->
                     IF i = 1 THEN evmBlocks[1]
                     ELSE [id |-> mined + i, time |-> i, tx |-> None, ok |-> TRUE]]
        /\ mined' = mined + Len(evmBlocks) /\ switched' = TRUE /\ UNCHANGED <<finalNumber, reading>>
    BY <1>5 DEF SwitchChain
  <2>2. /\ DOMAIN evmBlocks' = 1..Len(evmBlocks) /\ 1 \in DOMAIN evmBlocks
        /\ evmBlocks'[1] = evmBlocks[1]
        /\ \A i \in DOMAIN evmBlocks \ {1} :
             evmBlocks'[i].id = mined + i /\ evmBlocks'[i].tx = None /\ evmBlocks'[i] \in Blocks
    <3>1. /\ DOMAIN evmBlocks = 1..Len(evmBlocks) /\ 1 \in DOMAIN evmBlocks /\ mined \in Nat
          /\ DOMAIN evmBlocks' = DOMAIN evmBlocks /\ evmBlocks'[1] = evmBlocks[1]
      BY <1>1, <2>1
    <3>2. \A i \in DOMAIN evmBlocks \ {1} :
            evmBlocks'[i] = [id |-> mined + i, time |-> i, tx |-> None, ok |-> TRUE]
      BY <2>1
    <3>3. \A i \in DOMAIN evmBlocks \ {1} :
            [id |-> mined + i, time |-> i, tx |-> None, ok |-> TRUE] \in Blocks
      BY <3>1 DEF Blocks
    <3>. QED  BY <3>1, <3>2, <3>3
  <2>3. \A i \in DOMAIN evmBlocks \ {1} : evmBlocks'[i].id > mined /\ evmBlocks'[i].id <= mined'
    <3>. SUFFICES ASSUME NEW i \in DOMAIN evmBlocks \ {1}
                  PROVE  evmBlocks'[i].id > mined /\ evmBlocks'[i].id <= mined'
      OBVIOUS
    <3>1. i \in 1..Len(evmBlocks) /\ mined \in Nat /\ Len(evmBlocks) \in Nat
      BY <1>1
    <3>2. evmBlocks'[i].id = mined + i /\ mined' = mined + Len(evmBlocks)
      BY <2>1, <2>2
    <3>. QED  BY <3>1, <3>2
  <2>4. evmBlocks' \in Seq(Blocks) /\ Len(evmBlocks') = Len(evmBlocks)
    <3>1. evmBlocks' \in [1..Len(evmBlocks) -> Blocks]
      BY <1>1, <2>1, <2>2
    <3>. QED  BY <1>1, <3>1
  <2>5. ChainTypes'
    <3>1. evmBlocks'[1].id <= mined'
      <4>1. evmBlocks[1].id \in Nat /\ evmBlocks[1].id <= mined
        BY <1>1, <2>2 DEF Blocks
      <4>. QED  BY <1>1, <2>1, <2>2, <4>1
    <3>2. mined' \in Nat
      BY <1>1, <2>1
    <3>. QED  BY <1>1, <2>1, <2>2, <2>3, <2>4, <3>1, <3>2 DEF ChainTypes
  <2>6. LeftOnce'
    <3>1. \A i \in DOMAIN evmBlocks' : evmBlocks'[i].tx = "deploy" \/ evmBlocks'[i].tx = None
      BY <1>1, <2>2
    <3>. QED  BY <3>1 DEF LeftOnce
  <2>7. finalNumber' >= finalNumber /\ mined' >= mined
    BY <1>1, <2>1
  <2>8. \A i \in DOMAIN evmBlocks' :
          (i \in DOMAIN evmBlocks /\ evmBlocks'[i] = evmBlocks[i]) \/ evmBlocks'[i].id > mined
    BY <1>1, <2>2, <2>3
  <2>9. /\ switched' = TRUE /\ DOMAIN evmBlocks' = DOMAIN evmBlocks /\ evmBlocks'[1] = evmBlocks[1]
        /\ \A i \in DOMAIN evmBlocks \ {1} : evmBlocks'[i].id > mined
    BY <1>1, <2>1, <2>2, <2>3
  <2>. QED  BY <2>1, <2>5, <2>6, <2>7, <2>8, <2>9
<1>. QED  BY <1>2, <1>3, <1>4, <1>5

\* What was read stands by the chain's moves, or the pinned block goes with it.
LEMMA ReadKept ==
  ASSUME EvidenceInv, EvidenceNext, MineBlock \/ FinalizeBlocks \/ ReorganizeBlocks \/ SwitchChain
  PROVE  ReadInv'
<1>. USE DEF EvidenceInv
<1>1. /\ ChainTypes' /\ LeftOnce'
      /\ finalNumber' >= finalNumber /\ mined' >= mined /\ reading' = reading
      /\ \A i \in DOMAIN evmBlocks' :
           (i \in DOMAIN evmBlocks /\ evmBlocks'[i] = evmBlocks[i]) \/ evmBlocks'[i].id > mined
      /\ \/ /\ switched' = switched
            /\ \A i \in 1..finalNumber : i \in DOMAIN evmBlocks' /\ evmBlocks'[i] = evmBlocks[i]
         \/ /\ switched' = TRUE /\ DOMAIN evmBlocks' = DOMAIN evmBlocks
            /\ evmBlocks'[1] = evmBlocks[1]
            /\ \A i \in DOMAIN evmBlocks \ {1} : evmBlocks'[i].id > mined
  BY ChainMoves
<1>2. /\ DOMAIN evmBlocks = 1..Len(evmBlocks) /\ Len(evmBlocks) \in Nat
      /\ finalNumber \in 1..Len(evmBlocks) /\ mined \in Nat /\ finalNumber' \in Nat /\ mined' \in Nat
      /\ \A i \in DOMAIN evmBlocks' : evmBlocks'[i].id \in Nat
  <2>1. \A i \in DOMAIN evmBlocks' : evmBlocks'[i] \in Blocks
    BY <1>1 DEF ChainTypes
  <2>2. finalNumber' \in Nat /\ mined' \in Nat
    BY <1>1 DEF ChainTypes
  <2>. QED  BY <2>1, <2>2 DEF ChainTypes, Blocks
<1>3. reading.step \notin {"failed", "bound"}
  BY DEF EvidenceNext
<1>4. ASSUME NEW r, Names(r) PROVE Names(r)'
  <2>1. r.number \in Nat /\ r.id \in Nat /\ r.id <= mined
    BY <1>4 DEF Names
  <2>2. ASSUME NEW i \in DOMAIN evmBlocks', evmBlocks'[i].id = r.id
        PROVE  evmBlocks'[i].tx = r.tx /\ evmBlocks'[i].ok
    <3>1. i \in DOMAIN evmBlocks /\ evmBlocks'[i] = evmBlocks[i]
      BY <1>1, <1>2, <2>1, <2>2
    <3>. QED  BY <1>4, <2>2, <3>1 DEF Names
  <2>. QED  BY <1>1, <1>2, <2>1, <2>2 DEF Names
<1>5. ASSUME PinHolds, PinnedThere' PROVE PinnedThere
  <2>1. /\ reading.pinned.number \in DOMAIN evmBlocks'
        /\ evmBlocks'[reading.pinned.number].id = reading.pinned.id
    BY <1>1, <1>5 DEF PinnedThere
  <2>2. reading.pinned.id \in Nat /\ reading.pinned.id <= mined
    BY <1>5 DEF PinHolds
  <2>3. /\ reading.pinned.number \in DOMAIN evmBlocks
        /\ evmBlocks'[reading.pinned.number] = evmBlocks[reading.pinned.number]
    BY <1>1, <1>2, <2>1, <2>2
  <2>. QED  BY <2>1, <2>3 DEF PinnedThere
<1>6. ASSUME PinHolds PROVE PinHolds'
  <2>1. /\ reading.pinned.number \in 1..finalNumber /\ reading.pinned.id \in Nat
        /\ reading.pinned.id <= mined /\ (~PinnedThere => switched)
    BY <1>6 DEF PinHolds
  <2>2. reading.pinned.number \in 1..finalNumber' /\ reading.pinned.id <= mined'
    BY <1>1, <1>2, <2>1
  <2>3. ~PinnedThere' => switched'
    <3>1. CASE switched' = TRUE
      BY <3>1
    <3>2. CASE switched' # TRUE
      <4>1. /\ reading.pinned.number \in DOMAIN evmBlocks'
            /\ evmBlocks'[reading.pinned.number] = evmBlocks[reading.pinned.number]
            /\ switched' = switched
        BY <1>1, <2>1, <3>2
      <4>2. PinnedThere' = PinnedThere
        BY <1>1, <1>2, <2>1, <4>1 DEF PinnedThere
      <4>. QED  BY <2>1, <4>1, <4>2
    <3>. QED  BY <3>1, <3>2
  <2>. QED  BY <1>1, <2>1, <2>2, <2>3 DEF PinHolds
<1>7. ASSUME PinHolds, NEW r, NEW tx, Accepted(r, tx) PROVE Accepted(r, tx)'
  <2>1. /\ Names(r) /\ r.tx = tx /\ 1 < r.number /\ r.number <= reading.pinned.number
        /\ (PinnedThere => evmBlocks[r.number].id = r.id)
    BY <1>7 DEF Accepted
  <2>2. Names(r)'
    BY <1>4, <2>1
  <2>3. ASSUME PinnedThere' PROVE evmBlocks'[r.number].id = r.id
    <3>1. PinnedThere
      BY <1>5, <1>7, <2>3
    <3>2. r.number \in 1..finalNumber /\ reading.pinned.number \in 1..finalNumber
      BY <1>2, <1>7, <2>1 DEF PinHolds, Names
    <3>3. CASE \A i \in 1..finalNumber : i \in DOMAIN evmBlocks' /\ evmBlocks'[i] = evmBlocks[i]
      BY <2>1, <3>1, <3>2, <3>3
    <3>4. CASE \A i \in DOMAIN evmBlocks \ {1} : evmBlocks'[i].id > mined
      <4>1. reading.pinned.number \in DOMAIN evmBlocks \ {1}
        BY <1>2, <2>1, <3>2
      <4>2. /\ evmBlocks'[reading.pinned.number].id = reading.pinned.id
            /\ reading.pinned.number \in DOMAIN evmBlocks'
        BY <1>1, <2>3 DEF PinnedThere
      <4>3. reading.pinned.id \in Nat /\ reading.pinned.id <= mined
        BY <1>7 DEF PinHolds
      <4>. QED  BY <1>2, <3>4, <4>1, <4>2, <4>3
    <3>. QED  BY <1>1, <3>3, <3>4
  <2>. QED  BY <1>1, <2>1, <2>2, <2>3 DEF Accepted
<1>8. PICK read : read = reading
  OBVIOUS
<1>9. reading' = read
  BY <1>1, <1>8
<1>10. /\ DOMAIN reading' = Fields
       /\ reading'.step \in {"idle", "pin", "code", "recheck", "bound", "failed"} \cup Asking
       /\ reading'.step \notin {"failed", "bound"}
       /\ reading'.action \in Terminals \cup {None}
       /\ reading'.step \in {"idle", "pin", "code"} \cup Asking => reading'.terminal = None
  BY <1>3, <1>8, <1>9 DEF ReadInv
<1>11. reading'.step \in Asking \cup {"code", "recheck", "bound"} => PinHolds'
  BY <1>6, <1>8, <1>9 DEF ReadInv
<1>12. reading'.step \in {"transaction", "block"} => Names(reading.receipt)' /\ reading'.receipt.tx = reading'.tx
  <2>1. read.step \in {"transaction", "block"} => Names(read.receipt) /\ read.receipt.tx = read.tx
    BY <1>8 DEF ReadInv
  <2>2. read.step \in {"transaction", "block"} => Names(read.receipt)'
    BY <1>4, <2>1
  <2>. QED  BY <1>9, <2>1, <2>2
<1>13. \/ reading'.step \notin Asking
       \/ reading'.tx \in {"deploy", "fund"}
       \/ /\ reading'.tx \in Terminals /\ reading'.tx = reading'.action
          /\ Accepted(reading.funding, "fund")'
  <2>1. \/ read.step \notin Asking
        \/ read.tx \in {"deploy", "fund"}
        \/ /\ read.tx \in Terminals /\ read.tx = read.action
           /\ PinHolds /\ Accepted(read.funding, "fund")
    BY <1>8 DEF ReadInv
  <2>2. PinHolds /\ Accepted(read.funding, "fund") => Accepted(read.funding, "fund")'
    BY <1>7
  <2>. QED  BY <1>9, <2>1, <2>2
<1>14. reading'.step \in {"code", "recheck", "bound"} => Accepted(reading.funding, "fund")'
  <2>1. read.step \in {"code", "recheck", "bound"} => PinHolds /\ Accepted(read.funding, "fund")
    BY <1>8 DEF ReadInv
  <2>2. PinHolds /\ Accepted(read.funding, "fund") => Accepted(read.funding, "fund")'
    BY <1>7
  <2>. QED  BY <1>9, <2>1, <2>2
<1>15. reading'.step \in {"recheck", "bound"} /\ reading'.terminal # None
         => Accepted(reading.terminal, reading.action)'
  <2>1. read.step \in {"recheck", "bound"} /\ read.terminal # None
          => PinHolds /\ Accepted(read.terminal, read.action)
    BY <1>8 DEF ReadInv
  <2>2. PinHolds /\ Accepted(read.terminal, read.action) => Accepted(read.terminal, read.action)'
    BY <1>7
  <2>. QED  BY <1>9, <2>1, <2>2
<1>. QED  BY <1>10, <1>11, <1>12, <1>13, <1>14, <1>15 DEF ReadInv

\* Every answer leaves the reader with what it may rely on.
LEMMA ReadMoves ==
  ASSUME EvidenceInv, EvidenceNext,
         BeginRead \/ PinFinalized \/ ReadReceipt \/ ReadTransaction \/ ReadBlock \/ ReadCode \/ Recheck
  PROVE  ReadInv'
<1>. USE DEF EvidenceInv
<1>1. UNCHANGED evmWorld
  BY DEF BeginRead, PinFinalized, ReadReceipt, ReadTransaction, ReadBlock, ReadCode, Recheck
<1>2. /\ evmBlocks' = evmBlocks /\ finalNumber' = finalNumber /\ mined' = mined /\ switched' = switched
  BY <1>1 DEF evmWorld
<1>3. DOMAIN reading = Fields
  BY DEF ReadInv
<1>4. /\ evmBlocks \in Seq(Blocks) /\ DOMAIN evmBlocks = 1..Len(evmBlocks) /\ Len(evmBlocks) \in Nat
      /\ finalNumber \in 1..Len(evmBlocks) /\ mined \in Nat
      /\ \A i \in DOMAIN evmBlocks :
           evmBlocks[i].id \in Nat /\ evmBlocks[i].id <= mined
  <2>1. \A i \in DOMAIN evmBlocks : evmBlocks[i] \in Blocks
    BY DEF ChainTypes
  <2>. QED  BY <2>1 DEF ChainTypes, Blocks
\* The pinned block is the same, and what lies under it.
<1>5. ASSUME reading'.pinned = reading.pinned
      PROVE  /\ PinHolds' = PinHolds /\ PinnedThere' = PinnedThere
             /\ \A r : Names(r)' = Names(r)
             /\ \A r, tx : Accepted(r, tx)' = Accepted(r, tx)
  <2>1. PinnedThere' = PinnedThere
    BY <1>2, <1>5 DEF PinnedThere
  <2>2. PinHolds' = PinHolds
    BY <1>2, <1>5, <2>1 DEF PinHolds
  <2>3. ASSUME NEW r PROVE Names(r)' = Names(r)
    BY <1>2 DEF Names
  <2>4. ASSUME NEW r, NEW tx PROVE Accepted(r, tx)' = Accepted(r, tx)
    BY <1>2, <1>5, <2>1, <2>3 DEF Accepted
  <2>. QED  BY <2>1, <2>2, <2>3, <2>4
<1>6. ASSUME FailRead PROVE ReadInv'
  <2>1. reading' = [reading EXCEPT !.step = "failed"]
    BY <1>6 DEF FailRead
  <2>2. /\ DOMAIN reading' = Fields /\ reading'.step = "failed" /\ reading'.action = reading.action
    BY <1>3, <2>1 DEF Fields
  <2>3. reading.action \in Terminals \cup {None}
    BY DEF ReadInv
  <2>. QED  BY <2>2, <2>3 DEF ReadInv, Asking
<1>7. CASE BeginRead
  <2>1. PICK a \in Terminals \cup {None} : reading' = [reading EXCEPT !.step = "pin", !.action = a]
    BY <1>7 DEF BeginRead
  <2>2. /\ DOMAIN reading' = Fields /\ reading'.step = "pin" /\ reading'.action = a
        /\ reading'.terminal = reading.terminal
    BY <1>3, <2>1 DEF Fields
  <2>3. reading.terminal = None
    BY <1>7 DEF BeginRead, ReadInv
  <2>. QED  BY <2>2, <2>3 DEF ReadInv, Asking
<1>8. CASE PinFinalized
  <2>1. PICK pin : pin = [number |-> finalNumber, id |-> evmBlocks[finalNumber].id]
    OBVIOUS
  <2>2. reading' = [reading EXCEPT !.step = "receipt", !.tx = "deploy", !.pinned = pin]
    BY <1>8, <2>1 DEF PinFinalized
  <2>3. /\ DOMAIN reading' = Fields /\ reading'.step = "receipt" /\ reading'.tx = "deploy"
        /\ reading'.pinned = pin /\ reading'.action = reading.action /\ reading'.terminal = reading.terminal
    BY <1>3, <2>2 DEF Fields
  <2>4. pin.number = finalNumber /\ pin.id = evmBlocks[finalNumber].id
    BY <2>1
  <2>5. PinHolds'
    <3>1. PinnedThere'
      BY <1>2, <1>4, <2>3, <2>4 DEF PinnedThere
    <3>. QED  BY <1>2, <1>4, <2>3, <2>4, <3>1 DEF PinHolds
  <2>6. reading.terminal = None /\ reading.action \in Terminals \cup {None}
    BY <1>8 DEF PinFinalized, ReadInv
  <2>. QED  BY <2>3, <2>5, <2>6 DEF ReadInv, Asking
<1>9. CASE ReadReceipt
  <2>1. reading.step = "receipt"
    BY <1>9 DEF ReadReceipt
  <2>2. CASE ~FailRead
    <3>1. PICK r \in Receipt(reading.tx) :
            reading' = [reading EXCEPT !.step = "transaction", !.receipt = r]
      BY <1>9, <2>2 DEF ReadReceipt
    <3>2. /\ DOMAIN reading' = Fields /\ reading'.step = "transaction" /\ reading'.receipt = r
          /\ reading'.pinned = reading.pinned /\ reading'.action = reading.action
          /\ reading'.tx = reading.tx /\ reading'.funding = reading.funding
          /\ reading'.terminal = reading.terminal
      BY <1>3, <3>1 DEF Fields
    <3>3. PICK i \in DOMAIN evmBlocks :
            /\ evmBlocks[i].tx = reading.tx /\ evmBlocks[i].ok
            /\ r = [tx |-> reading.tx, number |-> i, id |-> evmBlocks[i].id, time |-> evmBlocks[i].time]
      BY DEF Receipt, Positions
    <3>4. r.tx = reading.tx /\ r.number = i /\ r.id = evmBlocks[i].id
      BY <3>3
    <3>5. Names(r)
      <4>1. \A j \in DOMAIN evmBlocks : evmBlocks[j].id = evmBlocks[i].id => j = i
        BY DEF ChainTypes
      <4>. QED  BY <1>4, <3>3, <3>4, <4>1 DEF Names
    <3>. QED  BY <1>5, <2>1, <3>2, <3>4, <3>5 DEF ReadInv, Asking
  <2>. QED  BY <1>6, <2>2
<1>10. CASE ReadTransaction
  <2>1. CASE ~FailRead
    <3>1. reading.step = "transaction" /\ reading' = [reading EXCEPT !.step = "block"]
      BY <1>10, <2>1 DEF ReadTransaction
    <3>2. /\ DOMAIN reading' = Fields /\ reading'.step = "block" /\ reading'.receipt = reading.receipt
          /\ reading'.pinned = reading.pinned /\ reading'.action = reading.action
          /\ reading'.tx = reading.tx /\ reading'.funding = reading.funding
          /\ reading'.terminal = reading.terminal
      BY <1>3, <3>1 DEF Fields
    <3>. QED  BY <1>5, <3>1, <3>2 DEF ReadInv, Asking
  <2>. QED  BY <1>6, <2>1
<1>11. CASE ReadBlock
  <2>1. CASE ~FailRead
    <3>1. /\ reading.step = "block"
          /\ reading.receipt.number \in DOMAIN evmBlocks
          /\ evmBlocks[reading.receipt.number].id = reading.receipt.id
          /\ reading.receipt.number <= reading.pinned.number
          /\ InOrder(reading.receipt)
      BY <1>11, <2>1 DEF ReadBlock, AtOrBeforeFinalized
    <3>2. reading' = CASE reading.tx = "deploy" -> [reading EXCEPT !.step = "receipt", !.tx = "fund"]
                       [] reading.tx = "fund" -> [reading EXCEPT !.step = "code", !.funding = reading.receipt]
                       [] OTHER -> [reading EXCEPT !.step = "recheck", !.terminal = reading.receipt]
      BY <1>11, <2>1 DEF ReadBlock
    <3>3. /\ PinHolds /\ Names(reading.receipt) /\ reading.receipt.tx = reading.tx
          /\ reading.action \in Terminals \cup {None} /\ reading.terminal = None
          /\ \/ reading.tx \in {"deploy", "fund"}
             \/ /\ reading.tx \in Terminals /\ reading.tx = reading.action
                /\ Accepted(reading.funding, "fund")
      BY <3>1 DEF ReadInv, Asking
    <3>4. CASE reading.tx = "deploy"
      <4>1. reading' = [reading EXCEPT !.step = "receipt", !.tx = "fund"]
        BY <3>2, <3>4
      <4>2. /\ DOMAIN reading' = Fields /\ reading'.step = "receipt" /\ reading'.tx = "fund"
            /\ reading'.pinned = reading.pinned /\ reading'.action = reading.action
            /\ reading'.terminal = reading.terminal
        BY <1>3, <4>1 DEF Fields
      <4>. QED  BY <1>5, <3>3, <4>2 DEF ReadInv, Asking
    <3>5. CASE reading.tx = "fund"
      <4>1. reading' = [reading EXCEPT !.step = "code", !.funding = reading.receipt]
        BY <3>2, <3>5
      <4>2. /\ DOMAIN reading' = Fields /\ reading'.step = "code" /\ reading'.funding = reading.receipt
            /\ reading'.pinned = reading.pinned /\ reading'.action = reading.action
            /\ reading'.terminal = reading.terminal
        BY <1>3, <4>1 DEF Fields
      <4>3. Accepted(reading.receipt, "fund")
        BY <3>1, <3>3, <3>5 DEF Accepted, InOrder
      <4>. QED  BY <1>5, <3>3, <4>2, <4>3 DEF ReadInv, Asking
    <3>6. CASE reading.tx \in Terminals
      <4>1. reading' = [reading EXCEPT !.step = "recheck", !.terminal = reading.receipt]
        BY <3>2, <3>6 DEF Terminals
      <4>2. /\ DOMAIN reading' = Fields /\ reading'.step = "recheck" /\ reading'.terminal = reading.receipt
            /\ reading'.pinned = reading.pinned /\ reading'.action = reading.action
            /\ reading'.funding = reading.funding
        BY <1>3, <4>1 DEF Fields
      <4>3. Accepted(reading.funding, "fund") /\ reading.tx = reading.action
        BY <3>3, <3>6 DEF Terminals
      <4>4. Accepted(reading.receipt, reading.action)
        <5>1. reading.funding.number \in Nat /\ 1 < reading.funding.number
          BY <4>3 DEF Accepted, Names
        <5>2. reading.receipt.number > reading.funding.number /\ reading.receipt.number \in Nat
          BY <3>1, <3>3, <3>6 DEF InOrder, Names
        <5>. QED  BY <3>1, <3>3, <4>3, <5>1, <5>2 DEF Accepted
      <4>. QED  BY <1>5, <3>3, <4>2, <4>3, <4>4 DEF ReadInv, Asking
    <3>. QED  BY <3>3, <3>4, <3>5, <3>6
  <2>. QED  BY <1>6, <2>1
<1>12. CASE ReadCode
  <2>1. CASE ~FailRead
    <3>1. reading.step = "code" /\ reading' = [reading EXCEPT !.step = "recheck"]
      BY <1>12, <2>1 DEF ReadCode
    <3>2. /\ DOMAIN reading' = Fields /\ reading'.step = "recheck"
          /\ reading'.pinned = reading.pinned /\ reading'.action = reading.action
          /\ reading'.funding = reading.funding /\ reading'.terminal = reading.terminal
      BY <1>3, <3>1 DEF Fields
    <3>3. /\ PinHolds /\ Accepted(reading.funding, "fund") /\ reading.terminal = None
          /\ reading.action \in Terminals \cup {None}
      BY <3>1 DEF ReadInv
    <3>. QED  BY <1>5, <3>2, <3>3 DEF ReadInv, Asking
  <2>. QED  BY <1>6, <2>1
<1>13. CASE Recheck
  <2>1. CASE ~FailRead
    <3>1. /\ reading.step = "recheck" /\ PinnedThere
          /\ PinHolds /\ Accepted(reading.funding, "fund")
          /\ reading.action \in Terminals \cup {None}
          /\ (reading.terminal # None => Accepted(reading.terminal, reading.action))
      BY <1>13, <2>1 DEF Recheck, PinnedThere, ReadInv
    <3>2. CASE reading.action # None /\ reading.terminal = None
      <4>1. reading' = [reading EXCEPT !.step = "receipt", !.tx = reading.action]
        BY <1>13, <2>1, <3>2 DEF Recheck
      <4>2. /\ DOMAIN reading' = Fields /\ reading'.step = "receipt" /\ reading'.tx = reading.action
            /\ reading'.pinned = reading.pinned /\ reading'.action = reading.action
            /\ reading'.funding = reading.funding /\ reading'.terminal = reading.terminal
        BY <1>3, <4>1 DEF Fields
      <4>. QED  BY <1>5, <3>1, <3>2, <4>2 DEF ReadInv, Asking
    <3>3. CASE ~(reading.action # None /\ reading.terminal = None)
      <4>1. /\ reading' = [reading EXCEPT !.step = "bound"]
            /\ (reading.terminal # None => BindsSpend(reading.terminal, reading.funding))
        BY <1>13, <2>1, <3>3 DEF Recheck
      <4>2. /\ DOMAIN reading' = Fields /\ reading'.step = "bound"
            /\ reading'.pinned = reading.pinned /\ reading'.action = reading.action
            /\ reading'.funding = reading.funding /\ reading'.terminal = reading.terminal
        BY <1>3, <4>1 DEF Fields
      <4>3. reading.terminal # None => reading.funding.number < reading.terminal.number
        BY <4>1 DEF BindsSpend
      <4>. QED  BY <1>5, <3>1, <3>3, <4>2, <4>3 DEF ReadInv, Asking
    <3>. QED  BY <3>2, <3>3
  <2>. QED  BY <1>6, <2>1
<1>. QED  BY <1>7, <1>8, <1>9, <1>10, <1>11, <1>12, <1>13

\* A read that ends well describes one chain, however the chain moved between
\* its requests: the pinned block was final when it was pinned and there again
\* at the end, and the hash a receipt names belongs to one block for good
\* (readEvmFundingBundleWithAuthority, readEvmTerminalReceiptWithAuthority).
THEOREM EvidenceReadStands == EvidenceSpec => []EvidenceStands
<1>1. EvidenceInit => EvidenceInv
  BY EvidenceInvInit
<1>2. EvidenceInv /\ [EvidenceNext]_evidenceVars => EvidenceInv'
  <2>1. ASSUME EvidenceInv, UNCHANGED evidenceVars PROVE EvidenceInv'
    BY <2>1 DEF evidenceVars, EvidenceInv, ChainTypes, LeftOnce, ReadInv, PinHolds, PinnedThere, Accepted, Names
  <2>2. ASSUME EvidenceInv, EvidenceNext PROVE EvidenceInv'
    <3>1. CASE MineBlock \/ FinalizeBlocks \/ ReorganizeBlocks \/ SwitchChain
      BY <2>2, <3>1, ChainMoves, ReadKept DEF EvidenceInv
    <3>2. CASE BeginRead \/ PinFinalized \/ ReadReceipt \/ ReadTransaction \/ ReadBlock \/ ReadCode \/ Recheck
      <4>1. ReadInv'
        BY <2>2, <3>2, ReadMoves
      <4>2. UNCHANGED evmWorld
        BY <3>2 DEF BeginRead, PinFinalized, ReadReceipt, ReadTransaction, ReadBlock, ReadCode, Recheck
      <4>3. ChainTypes' /\ LeftOnce'
        BY <2>2, <4>2 DEF EvidenceInv, ChainTypes, LeftOnce, evmWorld
      <4>. QED  BY <4>1, <4>3 DEF EvidenceInv
    <3>. QED  BY <2>2, <3>1, <3>2 DEF EvidenceNext
  <2>. QED  BY <2>1, <2>2
<1>3. EvidenceInv => EvidenceStands
  <2>1. SUFFICES ASSUME EvidenceInv, reading.step = "bound"
                 PROVE  /\ Stands(reading.funding)
                        /\ reading.action # None =>
                             /\ Stands(reading.terminal)
                             /\ reading.funding.number < reading.terminal.number
                             /\ ~\E other \in Terminals \ {reading.action} : Succeeded(evmBlocks, other)
    BY DEF EvidenceStands
  <2>2. /\ PinHolds /\ PinnedThere /\ Accepted(reading.funding, "fund")
        /\ reading.action \in Terminals \cup {None}
        /\ reading.action # None => /\ Accepted(reading.terminal, reading.action)
                                    /\ reading.funding.number < reading.terminal.number
    BY <2>1 DEF EvidenceInv, ReadInv
  <2>3. DOMAIN evmBlocks = 1..Len(evmBlocks) /\ Len(evmBlocks) \in Nat /\ finalNumber \in 1..Len(evmBlocks)
    BY <2>1 DEF EvidenceInv, ChainTypes
  <2>4. ASSUME NEW r, NEW tx, Accepted(r, tx)
        PROVE  Stands(r) /\ evmBlocks[r.number].ok /\ evmBlocks[r.number].tx = tx
    <3>1. r.number \in DOMAIN evmBlocks /\ r.number <= finalNumber
      BY <2>2, <2>3, <2>4 DEF Accepted, Names, PinHolds
    <3>. QED  BY <2>2, <2>4, <3>1 DEF Accepted, Names, Stands
  <2>5. ASSUME reading.action # None
        PROVE  ~\E other \in Terminals \ {reading.action} : Succeeded(evmBlocks, other)
    <3>1. /\ reading.terminal.number \in DOMAIN evmBlocks /\ evmBlocks[reading.terminal.number].ok
          /\ evmBlocks[reading.terminal.number].tx = reading.action
      BY <2>2, <2>4, <2>5 DEF Stands
    <3>. QED  BY <2>1, <2>2, <2>5, <3>1 DEF EvidenceInv, LeftOnce, Succeeded, Terminals
  <2>. QED  BY <2>2, <2>4, <2>5
<1>. QED  BY <1>1, <1>2, <1>3, PTL DEF EvidenceSpec

-----------------------------------------------------------------------------
(* The swap observer. *)

ObserverSpec == ObserverInit /\ [][ObserverNext]_observerVars

LogsOfLock == {<<>>, <<"funded">>, <<"funded", "claimed">>, <<"funded", "refunded">>}
Outpoints == {None, "funded", "claimed", "refunded"}
Ended(kind) == kind \in {"claimed", "refunded"}

\* A projection of the fill has the lock's leg ended only as these logs say.
Follows(projection, logs) ==
  /\ projection \in [fill : Fills \cup {None}]
  /\ projection.fill # None /\ Ended(projection.fill.evm) => logs = <<"funded", projection.fill.evm>>

\* The lock's logs only grow, and no more than one follows the funding.
Earlier(logs) == logs \in LogsOfLock /\ (Len(logs) = 2 => evmLogs = logs)

ObserverInv ==
  /\ evmLogs \in LogsOfLock /\ observerNow \in Nat
  /\ Follows(held, evmLogs)
  /\ snapshot \in {None, Torn} \/ Follows(snapshot, evmLogs)
  /\ DOMAIN observing = Polls
  /\ \A p \in Polls :
       /\ observing[p].step \in {"zec", "write", "hold"} => Earlier(observing[p].logs)
       /\ observing[p].step = "zec" => Follows(observing[p].base, observing[p].logs) /\ observing[p].now \in Nat
       /\ observing[p].step \in {"write", "hold"} =>
            /\ Follows(observing[p].next, observing[p].logs)
            /\ Shows(observing[p].next, observing[p].logs)

\* What followed earlier logs follows the later ones.
LEMMA FollowsOn ==
  ASSUME NEW projection, NEW logs, NEW later, Follows(projection, logs),
         logs \in LogsOfLock, later \in LogsOfLock, Len(logs) = 2 => later = logs
  PROVE  Follows(projection, later)
<1>1. ASSUME NEW kind, Ended(kind), logs = <<"funded", kind>> PROVE later = <<"funded", kind>>
  BY <1>1
<1>. QED  BY <1>1 DEF Follows

\* One transition changes its own leg, if it does any.
LEMMA Transition ==
  ASSUME NEW projection \in [fill : Fills \cup {None}], NEW at \in Nat,
         NEW leg \in {"evm", "zec"}, NEW kind \in {"funded", "claimed", "refunded"},
         NEW fill, fill = (IF projection.fill = None THEN EmptyDiagnosticFill(at) ELSE projection.fill),
         NEW result, result = ApplyTransition(projection, leg, kind, at)
  PROVE  /\ fill \in Fills
         /\ Accepts(fill, leg, kind, at) =>
              result \in [fill : Fills] /\ result.fill = [fill EXCEPT ![leg] = kind]
         /\ ~Accepts(fill, leg, kind, at) => result = projection
<1>1. EmptyDiagnosticFill(at) \in Fills
  BY ObserverAssumption DEF EmptyDiagnosticFill, Fills, LegStates
<1>2. fill \in Fills
  BY <1>1
<1>3. [fill EXCEPT ![leg] = kind] \in Fills
  BY <1>2 DEF Fills, LegStates
<1>4. result = IF Accepts(fill, leg, kind, at) THEN [fill |-> [fill EXCEPT ![leg] = kind]] ELSE projection
  BY DEF ApplyTransition
<1>. QED  BY <1>2, <1>3, <1>4

\* The funding shows afterwards, if it did not before.
LEMMA FundingShows ==
  ASSUME NEW projection, NEW logs, Follows(projection, logs), NEW at \in Nat,
         NEW result, result = ApplyTransition(projection, "evm", "funded", at)
  PROVE  Follows(result, logs) /\ result.fill \in Fills /\ result.fill.evm # "pending"
<1>1. projection \in [fill : Fills \cup {None}]
  BY DEF Follows
<1>2. PICK fill : fill = IF projection.fill = None THEN EmptyDiagnosticFill(at) ELSE projection.fill
  OBVIOUS
<1>3. /\ fill \in Fills
      /\ Accepts(fill, "evm", "funded", at) =>
           result \in [fill : Fills] /\ result.fill = [fill EXCEPT !["evm"] = "funded"]
      /\ ~Accepts(fill, "evm", "funded", at) => result = projection
  BY <1>1, <1>2, Transition
<1>4. Accepts(fill, "evm", "funded", at) <=> fill.evm = "pending"
  BY DEF Accepts
<1>5. CASE fill.evm = "pending"
  <2>1. result \in [fill : Fills] /\ result.fill.evm = "funded"
    BY <1>3, <1>4, <1>5 DEF Fills
  <2>. QED  BY <2>1 DEF Follows, Ended
<1>6. CASE fill.evm # "pending"
  <2>1. result = projection
    BY <1>3, <1>4, <1>6
  <2>2. projection.fill # None
    BY <1>2, <1>6 DEF EmptyDiagnosticFill
  <2>. QED  BY <1>1, <1>2, <1>6, <2>1, <2>2
<1>. QED  BY <1>5, <1>6

\* And then how the leg ended: a claim always, a refund once its time has come.
LEMMA EndShows ==
  ASSUME NEW projection, NEW kind, Ended(kind), NEW logs, logs = <<"funded", kind>>,
         Follows(projection, logs), projection.fill \in Fills, projection.fill.evm # "pending",
         NEW at \in Nat,
         NEW result, result = ApplyTransition(projection, "evm", kind, at)
  PROVE  /\ Follows(result, logs) /\ result.fill \in Fills /\ result.fill.evm # "pending"
         /\ kind = "claimed" => result.fill.evm = "claimed"
<1>1. projection \in [fill : Fills \cup {None}] /\ projection.fill # None
  BY ObserverAssumption DEF Follows
<1>2. kind \in {"claimed", "refunded"}
  BY DEF Ended
<1>3. PICK fill : fill = projection.fill
  OBVIOUS
<1>4. /\ Accepts(fill, "evm", kind, at) =>
           result \in [fill : Fills] /\ result.fill = [fill EXCEPT !["evm"] = kind]
      /\ ~Accepts(fill, "evm", kind, at) => result = projection
  <2>1. fill = (IF projection.fill = None THEN EmptyDiagnosticFill(at) ELSE projection.fill)
    BY <1>1, <1>3
  <2>2. kind \in {"funded", "claimed", "refunded"} /\ "evm" \in {"evm", "zec"}
    BY <1>2
  <2>3. projection \in [fill : Fills \cup {None}]
    BY <1>1
  <2>. QED  BY <2>1, <2>2, <2>3, Transition
<1>5. fill.evm \in {"funded", kind}
  <2>1. fill.evm \in LegStates /\ fill.evm # "pending"
    BY <1>3 DEF Fills
  <2>2. Ended(fill.evm) => logs = <<"funded", fill.evm>>
    BY <1>1, <1>3 DEF Follows
  <2>. QED  BY <1>2, <2>1, <2>2 DEF LegStates, Ended
<1>6. kind = "claimed" => (Accepts(fill, "evm", kind, at) <=> fill.evm = "funded")
  BY DEF Accepts
<1>7. CASE Accepts(fill, "evm", kind, at)
  <2>1. result \in [fill : Fills] /\ result.fill.evm = kind
    BY <1>3, <1>4, <1>7 DEF Fills
  <2>2. result.fill \in Fills /\ result \in [fill : Fills \cup {None}]
    BY <2>1
  <2>. QED  BY <1>2, <2>1, <2>2 DEF Follows
<1>8. CASE ~Accepts(fill, "evm", kind, at)
  BY <1>3, <1>4, <1>5, <1>6, <1>8
<1>. QED  BY <1>7, <1>8

\* A poll applies the whole log.
LEMMA LogsAreApplied ==
  ASSUME NEW projection, NEW logs \in LogsOfLock, Follows(projection, logs), NEW at \in Nat,
         NEW result, result = ReduceEvmEvents(projection, logs, at)
  PROVE  /\ Follows(result, logs)
         /\ logs # <<>> => /\ result.fill \in Fills /\ result.fill.evm # "pending"
                           /\ Len(logs) = 2 /\ logs[2] = "claimed" => result.fill.evm = "claimed"
<1>. DEFINE Next1 == ApplyTransition(projection, "evm", logs[1], at)
            Next2 == ApplyTransition(Next1, "evm", logs[2], at)
            Rule(f) == [i \in 0..Len(logs) |->
                          IF i = 0 THEN projection ELSE ApplyTransition(f[i - 1], "evm", logs[i], at)]
            applied == CHOOSE f : f = Rule(f)
<1>1. result = applied[Len(logs)]
  BY DEF ReduceEvmEvents
<1>2. applied = Rule(applied)
  <2>. DEFINE g == [i \in 0..Len(logs) |-> IF i = 0 THEN projection ELSE IF i = 1 THEN Next1 ELSE Next2]
  <2>1. Len(logs) \in {0, 1, 2}
    BY DEF LogsOfLock
  <2>2. \A i \in 0..Len(logs) : Rule(g)[i] = g[i]
    <3>1. ASSUME NEW i \in 0..Len(logs) PROVE Rule(g)[i] = g[i]
      <4>. HIDE DEF Next1, Next2
      <4>1. CASE i = 0
        BY <4>1
      <4>2. CASE i = 1
        <5>1. g[0] = projection
          BY <2>1
        <5>. QED  BY <4>2, <5>1 DEF Next1
      <4>3. CASE i = 2
        <5>1. g[1] = Next1
          BY <2>1, <4>3
        <5>. QED  BY <4>3, <5>1 DEF Next2
      <4>. QED  BY <2>1, <4>1, <4>2, <4>3
    <3>. QED  BY <3>1
  <2>3. g = Rule(g)
    <3>. HIDE DEF Next1, Next2
    <3>. QED  BY <2>2
  <2>. HIDE DEF g, Rule
  <2>. QED  BY <2>3
<1>. HIDE DEF applied
<1>3. \A i \in 0..Len(logs) :
        applied[i] = IF i = 0 THEN projection ELSE ApplyTransition(applied[i - 1], "evm", logs[i], at)
  BY <1>2
<1>4. CASE logs = <<>>
  BY <1>1, <1>3, <1>4
<1>5. CASE logs = <<"funded">>
  <2>1. applied[0] = projection
    BY <1>3, <1>5
  <2>2. result = ApplyTransition(projection, "evm", "funded", at)
    BY <1>1, <1>3, <1>5, <2>1
  <2>3. Follows(result, logs) /\ result.fill \in Fills /\ result.fill.evm # "pending"
    BY <2>2, FundingShows
  <2>. QED  BY <1>5, <2>3
<1>6. ASSUME NEW kind, Ended(kind), logs = <<"funded", kind>>
      PROVE  /\ Follows(result, logs)
             /\ logs # <<>> => /\ result.fill \in Fills /\ result.fill.evm # "pending"
                               /\ Len(logs) = 2 /\ logs[2] = "claimed" => result.fill.evm = "claimed"
  <2>0. Len(logs) = 2 /\ logs[1] = "funded" /\ logs[2] = kind
    BY <1>6
  <2>1. applied[0] = projection
    BY <1>3, <2>0
  <2>2. PICK funded : funded = applied[1]
    OBVIOUS
  <2>3. funded = ApplyTransition(projection, "evm", "funded", at)
    BY <1>3, <2>0, <2>1, <2>2
  <2>4. result = ApplyTransition(funded, "evm", kind, at)
    BY <1>1, <1>3, <2>0, <2>2
  <2>5. Follows(funded, logs) /\ funded.fill \in Fills /\ funded.fill.evm # "pending"
    BY <2>3, FundingShows
  <2>6. /\ Follows(result, logs) /\ result.fill \in Fills /\ result.fill.evm # "pending"
        /\ kind = "claimed" => result.fill.evm = "claimed"
    BY <1>6, <2>4, <2>5, EndShows
  <2>. QED  BY <2>0, <2>6
<1>. QED  BY <1>4, <1>5, <1>6 DEF LogsOfLock, Ended

\* What the other chain shows leaves the lock's leg.
LEMMA ZcashLeaves ==
  ASSUME NEW projection, NEW logs, Follows(projection, logs), NEW at \in Nat,
         NEW outpoint \in Outpoints,
         NEW result, result = ReduceZcashEvents(projection, outpoint, at)
  PROVE  /\ Follows(result, logs)
         /\ projection.fill \in Fills => result.fill \in Fills /\ result.fill.evm = projection.fill.evm
<1>1. CASE outpoint = None
  BY <1>1 DEF ReduceZcashEvents
<1>2. CASE outpoint # None
  <2>1. projection \in [fill : Fills \cup {None}]
    BY DEF Follows
  <2>2. PICK fill : fill = IF projection.fill = None THEN EmptyDiagnosticFill(at) ELSE projection.fill
    OBVIOUS
  <2>3. result = ApplyTransition(projection, "zec", outpoint, at)
    BY <1>2 DEF ReduceZcashEvents
  <2>4. /\ fill \in Fills
        /\ Accepts(fill, "zec", outpoint, at) =>
             result \in [fill : Fills] /\ result.fill = [fill EXCEPT !["zec"] = outpoint]
        /\ ~Accepts(fill, "zec", outpoint, at) => result = projection
    <3>1. outpoint \in {"funded", "claimed", "refunded"} /\ "zec" \in {"evm", "zec"}
      BY <1>2 DEF Outpoints
    <3>. QED  BY <2>1, <2>2, <2>3, <3>1, Transition
  <2>5. CASE Accepts(fill, "zec", outpoint, at)
    <3>1. result \in [fill : Fills] /\ result.fill.evm = fill.evm
      BY <2>4, <2>5 DEF Fills
    <3>2. projection.fill = None => fill.evm = "pending"
      BY <2>2 DEF EmptyDiagnosticFill
    <3>3. result.fill \in Fills /\ result \in [fill : Fills \cup {None}]
      BY <3>1
    <3>4. projection.fill \in Fills => projection.fill # None
      BY ObserverAssumption
    <3>. QED  BY <2>2, <3>1, <3>2, <3>3, <3>4 DEF Follows, Ended
  <2>6. CASE ~Accepts(fill, "zec", outpoint, at)
    BY <2>4, <2>6
  <2>. QED  BY <2>5, <2>6
<1>. QED  BY <1>1, <1>2

LEMMA ObserverStarts == ASSUME ObserverInit PROVE ObserverInv
<1>1. Follows(NoFill, <<>>)
  BY DEF Follows, NoFill
<1>2. DOMAIN observing = Polls /\ \A p \in Polls : observing[p].step = "idle"
  BY DEF ObserverInit, Idle
<1>. QED  BY <1>1, <1>2 DEF ObserverInit, ObserverInv, LogsOfLock

\* A poll that is left alone, while the lock's logs grow.
Fine(poll) ==
  /\ poll.step \in {"zec", "write", "hold"} => Earlier(poll.logs)
  /\ poll.step = "zec" => Follows(poll.base, poll.logs) /\ poll.now \in Nat
  /\ poll.step \in {"write", "hold"} => Follows(poll.next, poll.logs) /\ Shows(poll.next, poll.logs)

LEMMA FundedThen ==
  ASSUME NEW kind \in LegStates
  PROVE  Append(<<"funded">>, kind) = <<"funded", kind>>
<1>1. PICK s \in Seq(LegStates) : s = <<"funded">> /\ Len(s) = 1 /\ s[1] = "funded"
  <2>1. <<"funded">> \in Seq(LegStates)
    BY DEF LegStates
  <2>. QED  BY <2>1
<1>2. /\ Append(s, kind) \in Seq(LegStates) /\ Len(Append(s, kind)) = Len(s) + 1
      /\ \A i \in 1..Len(s) : Append(s, kind)[i] = s[i]
      /\ Append(s, kind)[Len(s) + 1] = kind
  BY AppendProperties
<1>3. PICK t : t = Append(s, kind)
  OBVIOUS
<1>4. t \in Seq(LegStates) /\ Len(t) = 2 /\ t[1] = "funded" /\ t[2] = kind
  BY <1>1, <1>2, <1>3
<1>5. t = <<"funded", kind>>
  BY <1>4
<1>. QED  BY <1>1, <1>3, <1>5

LEMMA LogsGrow ==
  ASSUME ObserverInv, EvmLegMoves
  PROVE  /\ evmLogs' \in LogsOfLock
         /\ \A logs : Earlier(logs) => Earlier(logs)'
         /\ \A projection : Follows(projection, evmLogs) => Follows(projection, evmLogs')
<1>1. evmLogs \in LogsOfLock
  BY DEF ObserverInv
<1>2. evmLogs' \in LogsOfLock /\ Len(evmLogs) # 2
  <2>1. CASE evmLogs = <<>> /\ evmLogs' = <<"funded">>
    BY <2>1 DEF LogsOfLock
  <2>2. ASSUME NEW kind \in {"claimed", "refunded"}, Len(evmLogs) = 1, evmLogs' = Append(evmLogs, kind)
        PROVE  evmLogs' \in LogsOfLock /\ Len(evmLogs) # 2
    <3>1. evmLogs = <<"funded">>
      BY <1>1, <2>2 DEF LogsOfLock
    <3>2. evmLogs' = <<"funded", kind>>
      <4>. QED  BY <2>2, <3>1, FundedThen DEF LegStates
    <3>. QED  BY <2>2, <3>2 DEF LogsOfLock
  <2>. QED  BY <2>1, <2>2 DEF EvmLegMoves
<1>3. \A logs : Earlier(logs) => Earlier(logs)'
  BY <1>2 DEF Earlier
<1>4. ASSUME NEW projection, Follows(projection, evmLogs) PROVE Follows(projection, evmLogs')
  BY <1>1, <1>2, <1>4, FollowsOn
<1>. QED  BY <1>2, <1>3, <1>4

\* One poll changes, the chain and the file do not.
LEMMA PollMoves ==
  ASSUME ObserverInv, NEW p \in Polls, NEW poll, Fine(poll),
         observing' = [observing EXCEPT ![p] = poll],
         UNCHANGED <<evmLogs, observerNow>>,
         Follows(held', evmLogs), snapshot' \in {None, Torn} \/ Follows(snapshot', evmLogs)
  PROVE  ObserverInv'
<1>1. DOMAIN observing' = Polls /\ observing'[p] = poll /\ \A q \in Polls \ {p} : observing'[q] = observing[q]
  BY DEF ObserverInv
<1>2. \A logs : Earlier(logs)' <=> Earlier(logs)
  BY DEF Earlier
<1>3. \A q \in Polls : Fine(observing'[q])
  BY <1>1 DEF ObserverInv, Fine
<1>. QED  BY <1>1, <1>2, <1>3 DEF ObserverInv, Fine

LEMMA PollReads ==
  ASSUME ObserverInv, zecOutpoint \in Outpoints, NEW p \in Polls, PollZcash(p)
  PROVE  ObserverInv'
<1>1. PICK poll : poll = observing[p]
  OBVIOUS
<1>2. PICK applied, result :
        /\ applied = ReduceEvmEvents(poll.base, poll.logs, poll.now)
        /\ result = ReduceZcashEvents(applied, zecOutpoint, poll.now)
        /\ observing' = [observing EXCEPT ![p] = [step |-> "write", logs |-> poll.logs, next |-> result]]
  BY <1>1 DEF PollZcash
<1>3. poll.step = "zec" /\ Earlier(poll.logs) /\ Follows(poll.base, poll.logs) /\ poll.now \in Nat
  BY <1>1 DEF PollZcash, ObserverInv
<1>4. poll.logs \in LogsOfLock
  BY <1>3 DEF Earlier
<1>5. /\ Follows(applied, poll.logs)
      /\ poll.logs # <<>> =>
           /\ applied.fill \in Fills /\ applied.fill.evm # "pending"
           /\ Len(poll.logs) = 2 /\ poll.logs[2] = "claimed" => applied.fill.evm = "claimed"
  BY <1>2, <1>3, <1>4, LogsAreApplied
<1>6. /\ Follows(result, poll.logs)
      /\ applied.fill \in Fills => result.fill \in Fills /\ result.fill.evm = applied.fill.evm
  <2>1. Follows(applied, poll.logs) /\ poll.now \in Nat
    BY <1>3, <1>5
  <2>2. PICK outpoint, logs, at : outpoint = zecOutpoint /\ logs = poll.logs /\ at = poll.now
    OBVIOUS
  <2>3. outpoint \in Outpoints
    BY <2>2
  <2>4. result = ReduceZcashEvents(applied, outpoint, at)
    BY <1>2, <2>2
  <2>5. Follows(result, logs) /\ (applied.fill \in Fills => result.fill \in Fills /\ result.fill.evm = applied.fill.evm)
    BY <2>1, <2>2, <2>3, <2>4, ZcashLeaves
  <2>. QED  BY <2>2, <2>5
<1>7. Shows(result, poll.logs)
  <2>1. CASE poll.logs = <<>>
    BY <2>1 DEF Shows
  <2>2. CASE poll.logs # <<>> /\ Last(poll.logs) = "claimed"
    <3>1. Len(poll.logs) = 2 /\ poll.logs[2] = "claimed"
      BY <1>4, <2>2 DEF LogsOfLock, Last
    <3>. QED  BY <1>5, <1>6, <2>2, <3>1 DEF Shows
  <2>3. CASE poll.logs # <<>> /\ Last(poll.logs) # "claimed"
    BY <1>5, <1>6, <2>3 DEF Shows
  <2>. QED  BY <2>1, <2>2, <2>3
<1>8. Fine([step |-> "write", logs |-> poll.logs, next |-> result])
  BY <1>3, <1>6, <1>7 DEF Fine
<1>9. /\ UNCHANGED <<evmLogs, observerNow>> /\ Follows(held', evmLogs)
      /\ snapshot' \in {None, Torn} \/ Follows(snapshot', evmLogs)
  BY DEF PollZcash, ObserverInv
<1>. QED  BY <1>2, <1>8, <1>9, PollMoves

LEMMA ObserverKeeps ==
  ASSUME ObserverInv, zecOutpoint \in Outpoints, ObserverNext
  PROVE  ObserverInv' /\ zecOutpoint' \in Outpoints
<1>0. ASSUME UNCHANGED <<evmLogs, zecOutpoint>>
      PROVE  /\ \A logs : Earlier(logs)' <=> Earlier(logs)
             /\ zecOutpoint' \in Outpoints
  BY <1>0 DEF Earlier
<1>1. CASE EvmLegMoves
  <2>1. /\ evmLogs' \in LogsOfLock
        /\ \A logs : Earlier(logs) => Earlier(logs)'
        /\ \A projection : Follows(projection, evmLogs) => Follows(projection, evmLogs')
    BY <1>1, LogsGrow
  <2>2. UNCHANGED <<zecOutpoint, observerNow, held, snapshot, marker, bootstrap, observing, stops>>
    BY <1>1 DEF EvmLegMoves
  <2>. QED  BY <2>1, <2>2 DEF ObserverInv
<1>2. CASE ZecLegMoves
  <2>1. UNCHANGED <<evmLogs, observerNow, held, snapshot, marker, bootstrap, observing, stops>>
    BY <1>2 DEF ZecLegMoves, Outpoints
  <2>2. \A logs : Earlier(logs)' <=> Earlier(logs)
    BY <2>1 DEF Earlier
  <2>3. zecOutpoint' \in Outpoints
    BY <1>2 DEF ZecLegMoves, Outpoints
  <2>. QED  BY <2>1, <2>2, <2>3 DEF ObserverInv
<1>3. CASE ObserverSecond
  <2>1. UNCHANGED <<evmLogs, zecOutpoint, held, snapshot, marker, bootstrap, observing, stops>>
    BY <1>3 DEF ObserverSecond
  <2>2. observerNow' \in Nat
    BY <1>3 DEF ObserverSecond, ObserverInv
  <2>. QED  BY <1>0, <2>1, <2>2 DEF ObserverInv
<1>4. CASE BootstrapService
  <2>1. UNCHANGED <<evmLogs, zecOutpoint, observerNow, snapshot, observing, stops>> /\ held' = Restored
    BY <1>4 DEF BootstrapService
  <2>2. Follows(NoFill, evmLogs)
    BY DEF Follows, NoFill
  <2>3. Follows(held', evmLogs)
    BY <2>1, <2>2 DEF Restored, ObserverInv
  <2>. QED  BY <1>0, <2>1, <2>3 DEF ObserverInv
<1>5. CASE StopObserver
  <2>1. /\ UNCHANGED <<evmLogs, zecOutpoint, observerNow>> /\ held' = NoFill
        /\ snapshot' \in {snapshot, Torn} /\ observing' = [p \in Polls |-> Idle]
    BY <1>5 DEF StopObserver
  <2>2. Follows(NoFill, evmLogs)
    BY DEF Follows, NoFill
  <2>3. DOMAIN observing' = Polls /\ \A p \in Polls : observing'[p].step = "idle"
    BY <2>1 DEF Idle
  <2>. QED  BY <1>0, <2>1, <2>2, <2>3 DEF ObserverInv
<1>6. ASSUME NEW p \in Polls, Observe(p)
      PROVE  ObserverInv' /\ zecOutpoint' \in Outpoints
  <2>1. PICK poll : poll = [step |-> "zec", base |-> held, now |-> observerNow, logs |-> evmLogs]
    OBVIOUS
  <2>2. Fine(poll)
    BY <2>1 DEF Fine, ObserverInv, Earlier
  <2>3. /\ observing' = [observing EXCEPT ![p] = poll]
        /\ UNCHANGED <<evmLogs, zecOutpoint, observerNow, held, snapshot>>
    BY <1>6, <2>1 DEF Observe
  <2>. QED  BY <1>0, <2>2, <2>3, PollMoves DEF ObserverInv
<1>7. ASSUME NEW p \in Polls, PollZcash(p)
      PROVE  ObserverInv' /\ zecOutpoint' \in Outpoints
  <2>1. UNCHANGED <<evmLogs, zecOutpoint>>
    BY <1>7 DEF PollZcash
  <2>. QED  BY <1>0, <1>7, <2>1, PollReads
<1>8. ASSUME NEW p \in Polls, WriteSnapshot(p)
      PROVE  ObserverInv' /\ zecOutpoint' \in Outpoints
  <2>1. PICK poll : poll = [observing[p] EXCEPT !.step = "hold"]
    OBVIOUS
  <2>2. /\ observing[p].step = "write" /\ snapshot' = observing[p].next
        /\ observing' = [observing EXCEPT ![p].step = "hold"]
        /\ UNCHANGED <<evmLogs, zecOutpoint, observerNow, held>>
    BY <1>8 DEF WriteSnapshot
  <2>3. /\ Earlier(observing[p].logs) /\ Follows(observing[p].next, observing[p].logs)
        /\ Shows(observing[p].next, observing[p].logs)
    BY <2>2 DEF ObserverInv
  <2>4. poll.step \in {"hold", observing[p].step} /\ poll.logs = observing[p].logs /\ poll.next = observing[p].next
    BY <2>1
  <2>5. Fine(poll)
    BY <2>2, <2>3, <2>4 DEF Fine
  <2>6. observing' = [observing EXCEPT ![p] = poll]
    BY <2>1, <2>2
  <2>7. Follows(snapshot', evmLogs)
    BY <2>2, <2>3, FollowsOn DEF Earlier, ObserverInv
  <2>8. Follows(held', evmLogs)
    BY <2>2 DEF ObserverInv
  <2>. QED  BY <1>0, <2>2, <2>5, <2>6, <2>7, <2>8, PollMoves
<1>9. ASSUME NEW p \in Polls, HoldOutcome(p)
      PROVE  ObserverInv' /\ zecOutpoint' \in Outpoints
  <2>1. /\ observing[p].step = "hold" /\ held' = observing[p].next
        /\ observing' = [observing EXCEPT ![p] = Idle]
        /\ UNCHANGED <<evmLogs, zecOutpoint, observerNow, snapshot>>
    BY <1>9 DEF HoldOutcome
  <2>2. Earlier(observing[p].logs) /\ Follows(observing[p].next, observing[p].logs)
    BY <2>1 DEF ObserverInv
  <2>3. Follows(held', evmLogs)
    BY <2>1, <2>2, FollowsOn DEF Earlier, ObserverInv
  <2>4. Fine(Idle)
    BY DEF Fine, Idle
  <2>5. snapshot' \in {None, Torn} \/ Follows(snapshot', evmLogs)
    BY <2>1 DEF ObserverInv
  <2>. QED  BY <1>0, <2>1, <2>3, <2>4, <2>5, PollMoves
<1>10. ASSUME NEW p \in Polls, PollFails(p)
      PROVE  ObserverInv' /\ zecOutpoint' \in Outpoints
  <2>1. /\ observing' = [observing EXCEPT ![p] = Idle]
        /\ UNCHANGED <<evmLogs, zecOutpoint, observerNow, held, snapshot>>
    BY <1>10 DEF PollFails
  <2>2. Fine(Idle)
    BY DEF Fine, Idle
  <2>3. Follows(held', evmLogs) /\ (snapshot' \in {None, Torn} \/ Follows(snapshot', evmLogs))
    BY <2>1 DEF ObserverInv
  <2>. QED  BY <1>0, <2>1, <2>2, <2>3, PollMoves
<1>. QED  BY <1>1, <1>2, <1>3, <1>4, <1>5, <1>6, <1>7, <1>8, <1>9, <1>10 DEF ObserverNext

\* Whatever the projection a poll began with, the outcome it writes and holds
\* shows the lock's leg as the chain did when the poll read it: every poll
\* applies the whole log, and nothing is projected that the log does not say
\* (pollOnceInto, applyTransition).
THEOREM OutcomesShowChain == ObserverSpec => []OutcomeShowsChain
<1>. DEFINE Inv == ObserverInv /\ zecOutpoint \in Outpoints
<1>1. ObserverInit => Inv
  BY ObserverStarts DEF ObserverInit, Outpoints
<1>2. Inv /\ [ObserverNext]_observerVars => Inv'
  <2>1. CASE Inv /\ ObserverNext
    BY <2>1, ObserverKeeps
  <2>2. CASE Inv /\ UNCHANGED observerVars
    BY <2>2 DEF observerVars, ObserverInv, Earlier
  <2>. QED  BY <2>1, <2>2
<1>3. Inv => OutcomeShowsChain
  BY DEF ObserverInv, OutcomeShowsChain
<1>. QED  BY <1>1, <1>2, <1>3, PTL DEF ObserverSpec

-----------------------------------------------------------------------------
(* The Zcash artifacts. *)

ZcashSpec == ZcashInit /\ [][ZcashNext]_zcashVars

\* What holds of an artifact from the moment it is built, whatever the chain does next.
Standing(a) ==
  a # None =>
    /\ a.value = a.paid + a.change + a.fee
    /\ ValidFee(a.fee, a.change > 0)
    /\ a.kind = "refund" => zecTip.time > RefundLock
    /\ a.kind = "claim" => a.preimage /\ view.secret

ZcashTypes ==
  /\ DOMAIN zecTip = {"height", "time", "output"} /\ zecTip.time \in Nat
  /\ DOMAIN view = {"output", "secret", "disputed", "prepared"}
  /\ seen.time # None => seen.time \in Nat /\ seen.time <= zecTip.time

ZcashInv ==
  /\ ZcashTypes
  /\ Standing(built) /\ Standing(review.artifact) /\ Standing(agreed)
  /\ saved # None => Standing(saved.artifact)
  /\ resumed.artifact # None => /\ resumed.artifact = agreed
                                /\ resumed.height # None => resumed.artifact.expiry = 0
                                                            \/ resumed.height <= resumed.artifact.expiry

\* The median time and the confirmed secret do not go back.
LEMMA StandingStays ==
  ASSUME ZcashTypes, ZcashTypes', zecTip'.time >= zecTip.time, view.secret => view'.secret
  PROVE  \A a : Standing(a) => Standing(a)'
<1>1. zecTip.time > RefundLock => zecTip'.time > RefundLock
  BY ZcashAssumption DEF ZcashTypes
<1>2. ASSUME NEW a, Standing(a) PROVE Standing(a)'
  BY <1>1, <1>2 DEF Standing
<1>. QED  BY <1>2

LEMMA BuiltStands ==
  ASSUME ZcashInv, NEW a, Build(a), a.kind = "claim" => view.secret
  PROVE  ZcashInv'
<1>1. /\ built' = a
      /\ UNCHANGED <<zecTip, seen, view, review, agreed, saved, resumed>>
      /\ a.value = a.paid + a.change + a.fee /\ ValidFee(a.fee, a.change > 0)
      /\ a.kind = "claim" => a.preimage
      /\ a.kind = "refund" => RefundMature(seen.time)
  BY DEF Build, Commits, ArtifactSemantics
<1>2. RefundMature(seen.time) => zecTip.time > RefundLock
  BY ZcashAssumption DEF RefundMature, ZcashInv, ZcashTypes
<1>3. Standing(a)
  BY <1>1, <1>2 DEF Standing
<1>. QED  BY <1>1, <1>3 DEF ZcashInv, ZcashTypes, Standing

LEMMA ZcashKeeps == ASSUME ZcashInv, ZcashNext PROVE ZcashInv'
<1>1. CASE MineZec
  <2>1. PICK t \in zecTip.time .. zecTip.height + 1 :
          /\ zecTip' = [zecTip EXCEPT !.height = @ + 1, !.time = t]
          /\ resumed' = NotResumed
          /\ UNCHANGED <<seen, view, built, review, agreed, saved>>
    BY <1>1 DEF MineZec
  <2>2. DOMAIN zecTip' = {"height", "time", "output"} /\ zecTip'.time = t
    BY <2>1 DEF ZcashInv, ZcashTypes
  <2>3. t \in Nat /\ t >= zecTip.time
    BY DEF ZcashInv, ZcashTypes
  <2>4. ZcashTypes'
    BY <2>1, <2>2, <2>3 DEF ZcashInv, ZcashTypes
  <2>5. \A a : Standing(a) => Standing(a)'
    BY <2>1, <2>2, <2>3, <2>4, StandingStays DEF ZcashInv
  <2>. QED  BY <2>1, <2>4, <2>5 DEF ZcashInv, NotResumed
<1>2. CASE FundOnChain
  <2>1. PICK o : zecTip' = [zecTip EXCEPT !.output = o] /\ UNCHANGED <<seen, view, built, review, agreed, saved, resumed>>
    BY <1>2 DEF FundOnChain
  <2>2. DOMAIN zecTip' = {"height", "time", "output"} /\ zecTip'.time = zecTip.time
    BY <2>1 DEF ZcashInv, ZcashTypes
  <2>3. ZcashTypes'
    BY <2>1, <2>2 DEF ZcashInv, ZcashTypes
  <2>4. \A a : Standing(a) => Standing(a)'
    BY <2>1, <2>2 DEF Standing
  <2>. QED  BY <2>1, <2>3, <2>4 DEF ZcashInv
<1>3. ASSUME UNCHANGED <<zecTip, seen, built, review, agreed, saved, resumed>>,
             DOMAIN view' = {"output", "secret", "disputed", "prepared"},
             view.secret => view'.secret
      PROVE  ZcashInv'
  <2>1. ZcashTypes'
    BY <1>3 DEF ZcashInv, ZcashTypes
  <2>2. \A a : Standing(a) => Standing(a)'
    BY <1>3 DEF Standing
  <2>. QED  BY <1>3, <2>1, <2>2 DEF ZcashInv
<1>4. CASE FollowChain
  <2>1. UNCHANGED <<zecTip, seen, built, review, agreed, saved, resumed>>
    BY <1>4 DEF FollowChain
  <2>2. DOMAIN view' = {"output", "secret", "disputed", "prepared"}
    BY <1>4 DEF FollowChain, ZcashInv, ZcashTypes
  <2>3. view.secret => view'.secret
    BY <1>4 DEF FollowChain, ZcashInv, ZcashTypes
  <2>. QED  BY <1>3, <2>1, <2>2, <2>3
<1>5. CASE PrepareFunding
  <2>1. UNCHANGED <<zecTip, seen, built, review, agreed, saved, resumed>> /\ view' = [view EXCEPT !.prepared = TRUE]
    BY <1>5 DEF PrepareFunding
  <2>2. DOMAIN view' = {"output", "secret", "disputed", "prepared"} /\ view'.secret = view.secret
    BY <2>1 DEF ZcashInv, ZcashTypes
  <2>. QED  BY <1>3, <2>1, <2>2
<1>6. CASE LookUp
  <2>1. PICK t \in {None, zecTip.time} :
          seen' = [height |-> zecTip.height, time |-> t] /\ UNCHANGED <<zecTip, view, built, review, agreed, saved, resumed>>
    BY <1>6 DEF LookUp
  <2>2. ZcashTypes'
    BY <2>1 DEF ZcashInv, ZcashTypes
  <2>3. \A a : Standing(a) => Standing(a)'
    BY <2>1 DEF Standing
  <2>. QED  BY <2>1, <2>2, <2>3 DEF ZcashInv
<1>7. CASE BuildFunding
  <2>1. PICK coin \in Coins, fee \in SpendFees, addToFee \in BOOLEAN, expiry \in ExpiryHeights :
          Build([kind |-> "fund", input |-> None, value |-> coin, paid |-> Contract,
                 change |-> ChangePlan(coin, fee, addToFee).change, fee |-> ChangePlan(coin, fee, addToFee).fee,
                 expiry |-> expiry, preimage |-> FALSE])
    BY <1>7 DEF BuildFunding
  <2>2. PICK a : a = [kind |-> "fund", input |-> None, value |-> coin, paid |-> Contract,
                      change |-> ChangePlan(coin, fee, addToFee).change, fee |-> ChangePlan(coin, fee, addToFee).fee,
                      expiry |-> expiry, preimage |-> FALSE]
    OBVIOUS
  <2>3. a.kind # "claim" /\ Build(a)
    BY <2>1, <2>2
  <2>. QED  BY <2>3, BuiltStands
<1>8. ASSUME NEW kind, NEW expiry, NEW fee, PrepareSpend(kind, expiry, fee), kind = "claim" => view.secret
      PROVE  ZcashInv'
  <2>1. PICK a : a = [kind |-> kind, input |-> view.output, value |-> Contract,
                      paid |-> Contract - fee, change |-> 0, fee |-> fee, expiry |-> expiry,
                      preimage |-> kind = "claim"]
    OBVIOUS
  <2>2. Build(a) /\ a.kind = kind
    BY <1>8, <2>1 DEF PrepareSpend
  <2>. QED  BY <1>8, <2>2, BuiltStands
<1>9. CASE BuildClaim
  BY <1>8, <1>9 DEF BuildClaim, ClaimAuthorized
<1>10. CASE BuildRefund
  BY <1>8, <1>10 DEF BuildRefund
<1>11. CASE RequestReview
  <2>1. /\ review'.artifact = built /\ agreed' = built /\ resumed' = NotResumed
        /\ UNCHANGED <<zecTip, seen, view, built, saved>>
    BY <1>11 DEF RequestReview
  <2>2. (\A a : Standing(a) => Standing(a)') /\ ZcashTypes'
    BY <2>1 DEF Standing, ZcashInv, ZcashTypes
  <2>. QED  BY <2>1, <2>2 DEF ZcashInv, NotResumed
<1>12. ASSUME NEW l, review' = [review EXCEPT !.lifecycle = l],
              UNCHANGED <<zecTip, seen, view, built, agreed, saved, resumed>>
       PROVE  ZcashInv'
  <2>1. review'.artifact = review.artifact
    BY <1>12
  <2>2. (\A a : Standing(a) => Standing(a)') /\ ZcashTypes'
    BY <1>12 DEF Standing, ZcashInv, ZcashTypes
  <2>. QED  BY <1>12, <2>1, <2>2 DEF ZcashInv
<1>13. CASE TakeInspection
  BY <1>12, <1>13 DEF TakeInspection
<1>14. CASE LabelReview
  BY <1>12, <1>14 DEF LabelReview
<1>15. CASE SaveSnapshot
  <2>1. saved'.artifact = review.artifact /\ UNCHANGED <<zecTip, seen, view, built, review, agreed, resumed>>
    BY <1>15 DEF SaveSnapshot
  <2>2. (\A a : Standing(a) => Standing(a)') /\ ZcashTypes'
    BY <2>1 DEF Standing, ZcashInv, ZcashTypes
  <2>. QED  BY <2>1, <2>2 DEF ZcashInv
<1>16. CASE LoseMemory
  <2>1. /\ review' = Unreviewed /\ resumed' = NotResumed /\ saved' \in {saved, None}
        /\ UNCHANGED <<zecTip, seen, view, built, agreed>>
    BY <1>16 DEF LoseMemory
  <2>2. (\A a : Standing(a) => Standing(a)') /\ ZcashTypes'
    BY <2>1 DEF Standing, ZcashInv, ZcashTypes
  <2>3. review'.artifact = None /\ resumed'.artifact = None /\ Standing(None)'
    BY <2>1 DEF Unreviewed, NotResumed, Standing
  <2>. QED  BY <2>1, <2>2, <2>3 DEF ZcashInv
<1>17. CASE Resume
  <2>1. PICK height \in {None, seen.height} :
          /\ saved # None /\ RestartReady(saved, height)
          /\ review' = [artifact |-> saved.artifact, lifecycle |-> saved.lifecycle]
          /\ resumed' = [artifact |-> saved.artifact, height |-> height]
          /\ UNCHANGED <<zecTip, seen, view, built, agreed, saved>>
    BY <1>17 DEF Resume
  <2>2. (\A a : Standing(a) => Standing(a)') /\ ZcashTypes'
    BY <2>1 DEF Standing, ZcashInv, ZcashTypes
  <2>3. saved.artifact = agreed
    BY <2>1 DEF RestartReady
  <2>4. height # None => saved.artifact.expiry = 0 \/ height <= saved.artifact.expiry
    BY <2>1 DEF RestartReady, HeightFor, ExpiryState
  <2>5. /\ review'.artifact = saved.artifact /\ resumed'.artifact = saved.artifact /\ resumed'.height = height
        /\ agreed' = agreed /\ built' = built /\ saved' = saved
    BY <2>1
  <2>. QED  BY <2>1, <2>2, <2>3, <2>4, <2>5 DEF ZcashInv
<1>. QED  BY <1>1, <1>2, <1>4, <1>5, <1>6, <1>7, <1>9, <1>10, <1>11, <1>13, <1>14, <1>15, <1>16, <1>17 DEF ZcashNext

\* What a restart takes up again was last put to the wallet and still stands: a
\* refund's lock is past by the chain's own time, a claim has its preimage, the
\* fee is one its owner approved, and at the height supplied it has not expired
\* (assertWalletPcztRestartReady, validateManifestShape).
THEOREM ResumedArtifactsStand == ZcashSpec => []ResumedStands
<1>1. ZcashInit => ZcashInv
  <2>. SUFFICES ASSUME ZcashInit PROVE ZcashInv
    OBVIOUS
  <2>1. review.artifact = None /\ resumed.artifact = None /\ built = None /\ agreed = None /\ saved = None
    BY DEF ZcashInit, Unreviewed, NotResumed
  <2>2. ZcashTypes
    BY DEF ZcashInit, ZcashTypes
  <2>. QED  BY <2>1, <2>2 DEF ZcashInv, Standing
<1>2. ZcashInv /\ [ZcashNext]_zcashVars => ZcashInv'
  <2>1. CASE ZcashInv /\ ZcashNext
    BY <2>1, ZcashKeeps
  <2>2. CASE ZcashInv /\ UNCHANGED zcashVars
    BY <2>2 DEF zcashVars, ZcashInv, ZcashTypes, Standing
  <2>. QED  BY <2>1, <2>2
<1>3. ZcashInv => ResumedStands
  BY DEF ZcashInv, ResumedStands, Standing
<1>. QED  BY <1>1, <1>2, <1>3, PTL DEF ZcashSpec

-----------------------------------------------------------------------------
(* From a fill to the terms. *)

PlannedPairs == [taker : PlanParties, maker : PlanParties, fill : PlannedFills]

\* The plan is one the fill and a policy gave, the terms are those of the plan
\* and a given, and a swap was opened with every window kept.
PlanSound == \E policy \in PlanPolicies : Plannable(match, policy) /\ plan = PlanOf(match, policy)

TermsSound ==
  \E given \in TermsContexts :
    /\ Complete(given) /\ terms = TermsOf(match, plan, given)
    /\ ValidTerms(terms)

SwapPlanInv ==
  /\ match \in PlannedPairs
  /\ swapTime \in Nat
  /\ stage \in {"planned", "written", "opened"} => PlanSound
  /\ stage \in {"written", "opened"} => TermsSound
  /\ stage = "opened" => timing \in TimingPolicies /\ WindowsKept(terms, timing)

LEMMA SwapPlanKeeps == ASSUME SwapPlanInv, SwapPlanNext PROVE SwapPlanInv'
<1>1. ASSUME Refuse PROVE SwapPlanInv'
  BY <1>1 DEF Refuse, SwapPlanInv
<1>2. ASSUME NEW policy \in PlanPolicies, CreatePlan(policy) PROVE SwapPlanInv'
  <2>1. CASE Plannable(match, policy)
    <3>1. stage' = "planned" /\ plan' = PlanOf(match, policy) /\ UNCHANGED <<match, terms, timing, swapTime>>
      BY <1>2, <2>1 DEF CreatePlan
    <3>2. PlanSound'
      BY <2>1, <3>1 DEF PlanSound
    <3>. QED  BY <3>1, <3>2 DEF SwapPlanInv
  <2>2. CASE ~Plannable(match, policy)
    BY <1>1, <1>2, <2>2 DEF CreatePlan
  <2>. QED  BY <2>1, <2>2
<1>3. ASSUME NEW given \in TermsContexts, WriteTerms(given) PROVE SwapPlanInv'
  <2>1. CASE Refuse
    BY <1>1, <2>1
  <2>2. CASE ~Refuse
    <3>1. /\ stage = "planned" /\ Complete(given) /\ ValidTerms(TermsOf(match, plan, given))
          /\ stage' = "written" /\ terms' = TermsOf(match, plan, given)
          /\ UNCHANGED <<match, plan, timing, swapTime>>
      BY <1>3, <2>2 DEF WriteTerms
    <3>2. PlanSound' /\ TermsSound'
      BY <3>1 DEF SwapPlanInv, PlanSound, TermsSound
    <3>. QED  BY <3>1, <3>2 DEF SwapPlanInv
  <2>. QED  BY <2>1, <2>2
<1>4. ASSUME NEW policy \in TimingPolicies, NEW markets \in MarketPolicies, OpenSwap(policy, markets)
      PROVE  SwapPlanInv'
  <2>1. CASE Refuse
    BY <1>1, <2>1
  <2>2. CASE ~Refuse
    <3>1. /\ stage = "written" /\ WindowsKept(terms, policy)
          /\ stage' = "opened" /\ timing' = policy
          /\ UNCHANGED <<match, plan, terms, swapTime>>
      BY <1>4, <2>2 DEF OpenSwap
    <3>2. PlanSound' /\ TermsSound'
      BY <3>1 DEF SwapPlanInv, PlanSound, TermsSound
    <3>3. WindowsKept(terms, timing)'
      BY <3>1 DEF WindowsKept
    <3>. QED  BY <3>1, <3>2, <3>3 DEF SwapPlanInv
  <2>. QED  BY <2>1, <2>2
<1>5. ASSUME SwapTick PROVE SwapPlanInv'
  <2>1. UNCHANGED <<match, stage, plan, terms, timing>> /\ swapTime' \in Nat
    BY <1>5 DEF SwapTick, SwapPlanInv
  <2>2. (PlanSound => PlanSound') /\ (TermsSound => TermsSound') /\ (WindowsKept(terms, timing) => WindowsKept(terms, timing)')
    BY <2>1 DEF PlanSound, TermsSound
  <2>. QED  BY <2>1, <2>2 DEF SwapPlanInv
<1>. QED  BY <1>2, <1>3, <1>4, <1>5 DEF SwapPlanNext

\* The planned quote is within what both parties signed.
LEMMA QuoteIsWithinLimits ==
  ASSUME NEW m \in PlannedPairs, NEW policy \in PlanPolicies, Plannable(m, policy)
  PROVE  /\ {Buyer(m), Seller(m)} = {m.taker, m.maker} /\ PlannedQuote(m) \in Nat
         /\ PlannedQuote(m) * PriceDivisor <= m.fill.base * Buyer(m).order.limit
         /\ PlannedQuote(m) * PriceDivisor >= m.fill.base * Seller(m).order.limit
<1>1. m.taker \in PlanParties /\ m.maker \in PlanParties /\ m.fill \in PlannedFills
  BY DEF PlannedPairs
<1>2. {Buyer(m), Seller(m)} = {m.taker, m.maker}
  BY DEF Buyer, Seller
<1>3. PICK d \in Nat \ {0}, b \in Nat, p \in Nat : d = PriceDivisor /\ b = m.fill.base /\ p = m.fill.price
  BY <1>1, SwapPlanAssumption
<1>4. PICK high \in Nat, low \in Nat : high = Buyer(m).order.limit /\ low = Seller(m).order.limit
  BY <1>1, SwapPlanAssumption DEF Buyer, Seller
<1>5. b * p \in Nat /\ b * high \in Nat /\ b * low \in Nat
  BY <1>3, <1>4
<1>6. PICK q \in Nat : q = PlannedQuote(m)
  <2>1. (b * p) \div d \in Nat /\ (b * p + d - 1) \div d \in Nat
    BY <1>3, <1>5, Quotients
  <2>. QED  BY <1>3, <2>1 DEF PlannedQuote, DivideUp
<1>7. q >= (b * low + d - 1) \div d /\ q <= (b * high) \div d
  BY <1>3, <1>4, <1>6 DEF Plannable, QuoteKeepsLimits, DivideUp
<1>8. PICK least \in Nat, most \in Nat :
        /\ least = (b * low + d - 1) \div d /\ b * low <= d * least
        /\ most = (b * high) \div d /\ d * most <= b * high
  BY <1>3, <1>5, Quotients
<1>9. d * least <= d * q /\ d * q <= d * most
  BY <1>6, <1>7, <1>8, ProductsKeepOrder
<1>10. q * d = d * q /\ q * d \in Nat /\ d * least \in Nat /\ d * most \in Nat
  OBVIOUS
<1>11. q * d <= b * high /\ q * d >= b * low
  BY <1>5, <1>8, <1>9, <1>10
<1>. QED  BY <1>2, <1>3, <1>4, <1>6, <1>11

\* The six times in their order.
LEMMA TimesInOrder ==
  ASSUME NEW t, Increasing(Deadlines(t)), t.authorize \in Nat, t.zecFund \in Nat, t.evmFund \in Nat,
         t.cutoff \in Nat, t.evmRefund \in Nat, t.zecRefund \in Nat
  PROVE  t.zecFund < t.evmFund /\ t.evmFund < t.cutoff
<1>1. Len(Deadlines(t)) = 6 /\ Deadlines(t)[2] = t.zecFund /\ Deadlines(t)[3] = t.evmFund /\ Deadlines(t)[4] = t.cutoff
  BY DEF Deadlines
<1>2. \A i \in 1..5 : Deadlines(t)[i] < Deadlines(t)[i + 1]
  BY <1>1 DEF Increasing
<1>3. Deadlines(t)[2] < Deadlines(t)[2 + 1] /\ Deadlines(t)[3] < Deadlines(t)[3 + 1]
  BY <1>2
<1>. QED  BY <1>1, <1>3

LEMMA OpenedBindsBoth == ASSUME SwapPlanInv, stage = "opened" PROVE TermsBindBoth
<1>1. match \in PlannedPairs /\ swapTime \in Nat /\ timing \in TimingPolicies /\ WindowsKept(terms, timing)
  BY DEF SwapPlanInv
<1>2. PICK policy \in PlanPolicies : Plannable(match, policy) /\ plan = PlanOf(match, policy)
  BY DEF SwapPlanInv, PlanSound
<1>3. PICK given \in TermsContexts :
        Complete(given) /\ terms = TermsOf(match, plan, given) /\ ValidTerms(terms)
  BY DEF SwapPlanInv, TermsSound
<1>4. /\ match.taker \in PlanParties /\ match.maker \in PlanParties /\ match.fill \in PlannedFills
  BY <1>1 DEF PlannedPairs
<1>5. PICK bought, sold : bought = Buyer(match).order /\ sold = Seller(match).order
  OBVIOUS
<1>6. /\ plan.base = match.fill.base /\ plan.quote = PlannedQuote(match) /\ plan.legs = LegAccounts(match)
      /\ plan.evmRefund = match.fill.accepted + policy.delay
      /\ plan.zecRefund = match.fill.accepted + policy.delay + policy.delta
  BY <1>2 DEF PlanOf
<1>7. /\ terms.base = plan.base /\ terms.quote = plan.quote /\ terms.legs = plan.legs
      /\ terms.secret = given.secret
      /\ terms.lock = LockScript(given.secret, plan.legs.zec.claimant, plan.legs.zec.refundTo, plan.zecRefund)
      /\ terms.sellers.zec = sold.maker /\ terms.sellers.evm = bought.maker
      /\ terms.authorize = given.authorize /\ terms.zecFund = given.zecFund
      /\ terms.evmFund = given.evmFund /\ terms.cutoff = given.cutoff
      /\ terms.evmRefund = plan.evmRefund /\ terms.zecRefund = plan.zecRefund
  BY <1>3, <1>5 DEF TermsOf
<1>8. /\ terms.quote * PriceDivisor <= terms.base * bought.limit
      /\ terms.quote * PriceDivisor >= terms.base * sold.limit
  BY <1>1, <1>2, <1>5, <1>6, <1>7, QuoteIsWithinLimits
<1>9. \A party \in {match.taker, match.maker} : /\ match.fill.base <= party.order.amount
                                                /\ party.accounts.source = party.order.maker
                                                /\ party.accounts.recipient = party.order.recipient
  BY <1>2 DEF Plannable, AccountsBound
<1>10. Buyer(match) \in {match.taker, match.maker} /\ Seller(match) \in {match.taker, match.maker}
  BY DEF Buyer, Seller
<1>11. terms.base <= bought.amount /\ terms.base <= sold.amount
  BY <1>5, <1>6, <1>7, <1>9, <1>10
<1>12. /\ terms.legs.evm.claimant = sold.recipient /\ terms.legs.evm.refundTo = bought.maker
       /\ plan.legs.zec.claimant = bought.recipient /\ plan.legs.zec.refundTo = sold.maker
  BY <1>5, <1>6, <1>7, <1>9, <1>10 DEF LegAccounts
<1>13. /\ terms.lock.claimant = bought.recipient /\ terms.lock.refundTo = sold.maker
       /\ terms.lock.secret = terms.secret /\ terms.lock.refundTime = terms.zecRefund
  BY <1>7, <1>12 DEF LockScript
<1>14. RoleOf(terms, bought.maker) = "stablecoin-seller" /\ RoleOf(terms, sold.maker) = "zec-seller"
  <2>1. terms.sellers.zec # terms.sellers.evm
    BY <1>3 DEF ValidTerms
  <2>. QED  BY <1>7, <2>1 DEF RoleOf
<1>15. /\ terms.authorize \in Nat /\ terms.zecFund \in Nat /\ terms.evmFund \in Nat /\ terms.cutoff \in Nat
       /\ terms.evmRefund \in Nat /\ terms.zecRefund \in Nat /\ timing.safety \in Nat
  <2>1. given.authorize # None /\ given.zecFund # None /\ given.evmFund # None /\ given.cutoff # None
    BY <1>3, SwapPlanAssumption DEF Complete
  <2>2. {given.authorize, given.zecFund, given.evmFund, given.cutoff} \subseteq Nat \cup {None}
    BY SwapPlanAssumption
  <2>3. match.fill.accepted \in Nat /\ policy.delay \in Nat /\ policy.delta \in Nat
    BY <1>4, SwapPlanAssumption
  <2>4. timing.safety \in Nat
    BY <1>1, SwapPlanAssumption
  <2>. QED  BY <1>6, <1>7, <2>1, <2>2, <2>3, <2>4
<1>16. /\ terms.zecFund < terms.evmFund /\ terms.evmFund < terms.cutoff
       /\ terms.evmRefund > terms.cutoff + 1 /\ terms.zecRefund - terms.evmRefund >= timing.safety
  BY <1>1, <1>15, TimesInOrder DEF WindowsKept
<1>17. LET status == DeadlineStatus(terms, swapTime)
       IN  /\ status.zecFundingOpen => status.evmFundingOpen
           /\ status.evmFundingOpen => status.evmClaimSafe
           /\ ~(status.evmClaimSafe /\ status.evmRefundEligible)
           /\ status.zecRefundEligible => swapTime - terms.evmRefund >= timing.safety
  <2>1. /\ swapTime < terms.zecFund => swapTime <= terms.evmFund
        /\ swapTime <= terms.evmFund => swapTime <= terms.cutoff
        /\ ~(swapTime <= terms.cutoff /\ swapTime >= terms.evmRefund)
        /\ swapTime >= terms.zecRefund => swapTime - terms.evmRefund >= timing.safety
    BY <1>1, <1>15, <1>16
  <2>2. PICK status : status = DeadlineStatus(terms, swapTime)
    OBVIOUS
  <2>3. /\ status.zecFundingOpen = (swapTime < terms.zecFund) /\ status.evmFundingOpen = (swapTime <= terms.evmFund)
        /\ status.evmClaimSafe = (swapTime <= terms.cutoff) /\ status.evmRefundEligible = (swapTime >= terms.evmRefund)
        /\ status.zecRefundEligible = (swapTime >= terms.zecRefund)
    BY <2>2 DEF DeadlineStatus
  <2>. QED  BY <2>1, <2>2, <2>3
<1>. QED  BY <1>5, <1>8, <1>11, <1>12, <1>13, <1>14, <1>17 DEF TermsBindBoth

\* A swap that was opened is one both parties signed up to, in price, amount
\* and accounts, and its windows leave room at every moment, whatever was rounded
\* on the way and whoever chose the deadlines (createAtomicSwapPlan,
\* materializeMatcherSwapTerms, assertSwapTimingPolicy).
THEOREM OpenedTermsBindBoth == SwapPlanSpec => []TermsBindBoth
<1>1. SwapPlanInit => SwapPlanInv
  BY SwapPlanAssumption DEF SwapPlanInit, SwapPlanInv, PlannedPairs
<1>2. SwapPlanInv /\ [SwapPlanNext]_planVars => SwapPlanInv'
  <2>1. CASE SwapPlanInv /\ SwapPlanNext
    BY <2>1, SwapPlanKeeps
  <2>2. CASE SwapPlanInv /\ UNCHANGED planVars
    BY <2>2 DEF planVars, SwapPlanInv, PlanSound, TermsSound, WindowsKept
  <2>. QED  BY <2>1, <2>2
<1>3. SwapPlanInv => TermsBindBoth
  BY OpenedBindsBoth DEF TermsBindBoth
<1>. QED  BY <1>1, <1>2, <1>3, PTL DEF SwapPlanSpec

=============================================================================
