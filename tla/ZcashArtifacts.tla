--------------------------- MODULE ZcashArtifacts ----------------------------
(***************************************************************************)
(* The Zcash leg of a swap as its owner prepares it: a funding, a claim or *)
(* a refund is built from the swap's terms and its confirmed state, bound  *)
(* to them, reviewed by a wallet with the bytes it would sign, saved, and  *)
(* taken up again after a restart at whatever height the chain then is.    *)
(*                                                                         *)
(* A digest is the thing it is a digest of, a heading (PCZT) its version.  *)
(* The redeem script is the one the terms give, so its hashes, keys and    *)
(* refund time are the constants of the swap; the height of a block is its *)
(* time.                                                                   *)
(***************************************************************************)
EXTENDS Integers, Absent

CONSTANTS
  Contract,          \* zatoshis the terms lock
  Coins,             \* values of the owner's transparent outputs
  SpendFees,         \* fees the owner may ask for
  ConventionalFee,   \* ZIP 317: [FALSE, TRUE -> fee without, with change]
  MaximumFee, MinimumOutput,
  ZecOutputs,        \* outputs a funding can create: a fork gives another
  ExpiryHeights,     \* 0: none
  RefundLock,        \* the script's CHECKLOCKTIMEVERIFY operand
  TransactionVersion, \* 5 or 6
  MaxTip             \* bound

ASSUME ZcashAssumption == RefundLock \in Nat

VARIABLES
  zecTip,      \* Zcash: height, median time past, and the contract's output
  seen,        \* the height and the median time the owner last looked up
  view,        \* the swap's state: confirmed output, confirmed secret, dispute, journal
  built,       \* the newest artifact built and bound to the swap
  review,      \* in memory: the artifact under review and how far it came
  agreed,      \* the manifest digest the owner keeps
  saved,       \* the restart snapshot on disk
  resumed      \* what the last restart took up, and the height it relied on

zcashVars == <<zecTip, seen, view, built, review, agreed, saved, resumed>>

Unreviewed == [artifact |-> None, lifecycle |-> "created"]
NotResumed == [artifact |-> None, height |-> None]

ZcashInit ==
  /\ zecTip = [height |-> 0, time |-> 0, output |-> None]
  /\ seen = [height |-> 0, time |-> None]
  /\ view = [output |-> None, secret |-> FALSE, disputed |-> FALSE, prepared |-> FALSE]
  /\ built = None /\ review = Unreviewed /\ agreed = None /\ saved = None
  /\ resumed = NotResumed

-----------------------------------------------------------------------------
(* The chain and the coordinator.                                          *)

\* A block; the median of the last block times follows it at its own pace.
MineZec ==
  /\ zecTip.height < MaxTip
  /\ \E t \in zecTip.time .. zecTip.height + 1 :
       zecTip' = [zecTip EXCEPT !.height = @ + 1, !.time = t]
  /\ resumed' = NotResumed
  /\ UNCHANGED <<seen, view, built, review, agreed, saved>>

\* A prepared funding is mined, or a fork brings another one in its place.
FundOnChain ==
  /\ view.prepared
  /\ \E o \in ZecOutputs \ {zecTip.output} : zecTip' = [zecTip EXCEPT !.output = o]
  /\ UNCHANGED <<seen, view, built, review, agreed, saved, resumed>>

\* The coordinator confirms the funding it finds, retracts one that is gone,
\* confirms the claim on Ethereum, opens or resolves a dispute.
FollowChain ==
  /\ \/ view' = [view EXCEPT !.output = IF @ = None THEN zecTip.output ELSE None]
        /\ view.output # zecTip.output
     \/ view.output # None /\ view' = [view EXCEPT !.secret = TRUE]
     \/ view' = [view EXCEPT !.disputed = ~@]
  /\ UNCHANGED <<zecTip, seen, built, review, agreed, saved, resumed>>

\* The owner looks at the chain: the median time is not always to be had.
LookUp ==
  /\ \E t \in {None, zecTip.time} : seen' = [height |-> zecTip.height, time |-> t]
  /\ UNCHANGED <<zecTip, view, built, review, agreed, saved, resumed>>

-----------------------------------------------------------------------------
(* Fees and heights.                                                       *)

ValidFee(fee, withChange) == fee >= ConventionalFee[withChange] /\ fee <= MaximumFee

\* What is left above the contract and the fee is change, or too little to be
\* change: then it is refused, or added to the fee.
ChangePlan(coin, fee, addToFee) ==
  LET left == coin - Contract - fee
      change == IF left >= MinimumOutput THEN left ELSE 0
      paid == fee + left - change
  IN [fits |-> /\ left >= 0
               /\ change = 0 => left = 0 \/ addToFee
               /\ ValidFee(paid, change > 0),
      change |-> change, fee |-> paid]

ExpiryState(expiry, height) ==
  IF expiry = 0 THEN "disabled" ELSE IF height = None THEN "unresolved"
  ELSE IF height <= expiry THEN "eligible" ELSE "expired"

\* The locktime of the refund is the operand, its sequence is not final.
RefundMature(time) == time # None /\ time > RefundLock

-----------------------------------------------------------------------------
(* Building.                                                               *)

\* A claim opens the script's hash; a refund is past its lock when it is made.
ArtifactSemantics(a, time) ==
  /\ a.kind = "claim" => a.preimage
  /\ a.kind = "refund" => RefundMature(time)

\* What the manifest must say of itself before it is given a digest.
Commits(a, height) ==
  /\ a.kind # "fund" => ExpiryState(a.expiry, height) # "expired"
  /\ a.value = a.paid + a.change + a.fee
  /\ ValidFee(a.fee, a.change > 0)
  /\ a.paid >= MinimumOutput /\ (a.change = 0 \/ a.change >= MinimumOutput)
  /\ a.kind = "claim" <=> a.preimage

\* The artifact is committed and bound to the swap and its action.
Build(a) ==
  /\ Commits(a, seen.height)
  /\ ArtifactSemantics(a, seen.time)
  /\ built' = a
  /\ UNCHANGED <<zecTip, seen, view, review, agreed, saved, resumed>>

BuildFunding ==
  \E coin \in Coins, fee \in SpendFees, addToFee \in BOOLEAN, expiry \in ExpiryHeights :
    LET plan == ChangePlan(coin, fee, addToFee) IN
    /\ plan.fits
    /\ expiry = 0 \/ expiry >= seen.height
    /\ Build([kind |-> "fund", input |-> None, value |-> coin, paid |-> Contract,
              change |-> plan.change, fee |-> plan.fee, expiry |-> expiry,
              preimage |-> FALSE])

\* The journal takes a funding of these terms, and only then may it go out.
PrepareFunding ==
  /\ ~view.prepared
  /\ built # None
  /\ built.kind = "fund"
  /\ view' = [view EXCEPT !.prepared = TRUE]
  /\ UNCHANGED <<zecTip, seen, built, review, agreed, saved, resumed>>

\* A spend takes the confirmed output whole: recipient and fee, no change.
PrepareSpend(kind, expiry, fee) ==
  /\ Contract - fee >= MinimumOutput
  /\ ValidFee(fee, FALSE)
  /\ expiry = 0 \/ expiry >= seen.height
  /\ ExpiryState(expiry, seen.height) \in {"eligible", "disabled"}
  /\ Build([kind |-> kind, input |-> view.output, value |-> Contract,
            paid |-> Contract - fee, change |-> 0, fee |-> fee, expiry |-> expiry,
            preimage |-> kind = "claim"])

SpendContext(fee) == view.output # None /\ fee < Contract

ClaimAuthorized == view.secret /\ ~view.disputed

BuildClaim ==
  \E expiry \in ExpiryHeights, fee \in SpendFees :
    /\ SpendContext(fee)
    /\ ClaimAuthorized
    /\ PrepareSpend("claim", expiry, fee)

\* A refund asks neither for the other leg nor for the disputes.
BuildRefund ==
  \E expiry \in ExpiryHeights, fee \in SpendFees :
    /\ SpendContext(fee)
    /\ RefundMature(seen.time)
    /\ PrepareSpend("refund", expiry, fee)

-----------------------------------------------------------------------------
(* Review, snapshot, restart.                                              *)

PcztVersions == IF TransactionVersion = 5 THEN {1, 2} ELSE {2}

\* The review request binds the manifest to the bytes of a permitted version.
RequestReview ==
  /\ built # None
  /\ \E pczt \in 1 .. 2 :
       /\ pczt \in PcztVersions
       /\ review' = [artifact |-> built, lifecycle |-> "review-requested"]
  /\ agreed' = built
  /\ resumed' = NotResumed
  /\ UNCHANGED <<zecTip, seen, view, built, saved>>

\* The wallet shows what it read: only the exact request is an inspection.
TakeInspection ==
  /\ review.lifecycle = "review-requested"
  /\ \E exact \in BOOLEAN :
       review' = [review EXCEPT !.lifecycle = IF exact THEN "inspected" ELSE "failed"]
  /\ UNCHANGED <<zecTip, seen, view, built, agreed, saved, resumed>>

\* The owner's own label: the wallet said it signed (or extracted, which is
\* refused the same), or it gave up (or found it expired).
LabelReview ==
  /\ review.artifact # None
  /\ \E l \in {"signed", "failed"} :
       review' = [review EXCEPT !.lifecycle = l]
  /\ UNCHANGED <<zecTip, seen, view, built, agreed, saved, resumed>>

\* A snapshot that is expired where it was made is not made.
SaveSnapshot ==
  /\ review.artifact # None
  /\ \E height \in {None, seen.height} :
       /\ ExpiryState(review.artifact.expiry, height) # "expired"
       /\ saved' = [artifact |-> review.artifact, lifecycle |-> review.lifecycle, height |-> height]
  /\ UNCHANGED <<zecTip, seen, view, built, review, agreed, resumed>>

\* The process ends; a snapshot half written fails its checksum.
LoseMemory ==
  /\ review # Unreviewed
  /\ review' = Unreviewed /\ resumed' = NotResumed
  /\ saved' \in {saved, None}
  /\ UNCHANGED <<zecTip, seen, view, built, agreed>>

(* Fault: the snapshot's own height stands in for one that is supplied. *)
StoredFirst(stored, supplied) == IF stored # None THEN stored ELSE supplied

HeightFor(stored, supplied) == IF supplied # None THEN supplied ELSE stored

SnapshotExpired(s, height) ==
  "expired" \in {ExpiryState(s.artifact.expiry, s.height),
                 ExpiryState(s.artifact.expiry, HeightFor(s.height, height))}

\* What a restart may go on with.
RestartReady(s, height) ==
  /\ s.artifact = agreed
  /\ ~SnapshotExpired(s, height)
  /\ s.lifecycle \notin {"signed", "failed"}
  /\ ExpiryState(s.artifact.expiry, HeightFor(s.height, height)) \in {"eligible", "disabled"}

Resume ==
  /\ review = Unreviewed /\ saved # None
  /\ \E height \in {None, seen.height} :
       /\ RestartReady(saved, height)
       /\ review' = [artifact |-> saved.artifact, lifecycle |-> saved.lifecycle]
       /\ resumed' = [artifact |-> saved.artifact, height |-> height]
  /\ UNCHANGED <<zecTip, seen, view, built, agreed, saved>>

ZcashNext ==
  \/ MineZec \/ FundOnChain \/ FollowChain \/ LookUp
  \/ BuildFunding \/ PrepareFunding \/ BuildClaim \/ BuildRefund
  \/ RequestReview \/ TakeInspection \/ LabelReview \/ SaveSnapshot
  \/ LoseMemory \/ Resume

-----------------------------------------------------------------------------
(* What is taken up again after a restart at a known height is what was    *)
(* last put to the wallet, and a block at that height would take it if its *)
(* output is there: it has not expired, a refund is past its lock by the   *)
(* chain's own median time, a claim carries the preimage, and its fee is   *)
(* between the conventional one and the most its owner approved -- however *)
(* long it lay, and whatever was built, reviewed or lost in between.       *)
ResumedStands ==
  LET a == resumed.artifact IN
  a # None =>
    /\ a = agreed
    /\ a.value = a.paid + a.change + a.fee
    /\ ValidFee(a.fee, a.change > 0)
    /\ a.kind = "refund" => zecTip.time > RefundLock
    /\ a.kind = "claim" => a.preimage /\ view.secret
    /\ resumed.height # None => a.expiry = 0 \/ resumed.height <= a.expiry
=============================================================================
