----------------------------- MODULE EvmEvidence -----------------------------
(***************************************************************************)
(* Reading the proof that a lock on Ethereum was funded, and then claimed  *)
(* or refunded, from a node: a dozen requests one after the other, while   *)
(* blocks are mined, become final and are reorganized away, and the node   *)
(* may once turn to another chain altogether.                              *)
(*                                                                         *)
(* A block is [id, time, tx, ok]: one transaction of the lock at most, and *)
(* whether it succeeded.  The deployment is in the first block.            *)
(***************************************************************************)
EXTENDS Integers, Sequences, Absent

CONSTANTS
  EvmFundCutoff, EvmClaimCutoff, EvmRefundFrom,   \* times of the lock
  MaxHeight, MaxUndone                            \* bounds

ASSUME EvidenceAssumption ==
  EvmFundCutoff \in Nat /\ EvmClaimCutoff \in Nat /\ EvmRefundFrom \in Nat

VARIABLES
  evmBlocks,   \* the chain the node answers from
  finalNumber, \* its last final block
  mined,       \* blocks ever mined: names the next
  undone,      \* reorganizations so far
  switched,    \* the node has turned to another chain
  reading      \* the reader

evidenceVars == <<evmBlocks, finalNumber, mined, undone, switched, reading>>
evmWorld == <<evmBlocks, finalNumber, mined, undone, switched>>

Terminals == {"claim", "refund"}

EvidenceInit ==
  /\ evmBlocks = <<[id |-> 1, time |-> 1, tx |-> "deploy", ok |-> TRUE]>>
  /\ finalNumber = 1 /\ mined = 1 /\ undone = 0 /\ switched = FALSE
  /\ reading = [step |-> "idle", action |-> None, pinned |-> None, tx |-> None,
                receipt |-> None, block |-> None, funding |-> None, terminal |-> None]

-----------------------------------------------------------------------------
(* The chain.                                                              *)

Succeeded(blocks, tx) == \E i \in DOMAIN blocks : blocks[i].tx = tx /\ blocks[i].ok

\* What the lock lets happen at a time.
Admitted(blocks, tx, time) ==
  CASE tx = "fund" -> time <= EvmFundCutoff
    [] tx = "claim" -> Succeeded(blocks, "fund") /\ ~Succeeded(blocks, "refund") /\ time <= EvmClaimCutoff
    [] tx = "refund" -> Succeeded(blocks, "fund") /\ ~Succeeded(blocks, "claim") /\ time >= EvmRefundFrom
    [] OTHER -> TRUE

Extended(blocks, tx) ==
  Append(blocks, [id |-> mined + 1, time |-> Len(blocks) + 1, tx |-> tx,
                  ok |-> Admitted(blocks, tx, Len(blocks) + 1)])

MineBlock ==
  /\ Len(evmBlocks) < MaxHeight
  /\ \E tx \in {"fund", "claim", "refund", None} :
       /\ tx # None => \A i \in DOMAIN evmBlocks : evmBlocks[i].tx # tx
       /\ evmBlocks' = Extended(evmBlocks, tx)
  /\ mined' = mined + 1
  /\ UNCHANGED <<finalNumber, undone, switched, reading>>

FinalizeBlocks ==
  /\ \E n \in finalNumber+1..Len(evmBlocks) : finalNumber' = n
  /\ UNCHANGED <<evmBlocks, mined, undone, switched, reading>>

ReorganizeBlocks ==
  /\ undone < MaxUndone
  /\ \E n \in finalNumber..Len(evmBlocks)-1 : evmBlocks' = SubSeq(evmBlocks, 1, n)
  /\ undone' = undone + 1
  /\ UNCHANGED <<finalNumber, mined, switched, reading>>

\* The node answers from another chain, as long and as final, which holds no
\* funding.
SwitchChain ==
  /\ ~switched /\ finalNumber > 1
  /\ switched' = TRUE
  /\ evmBlocks' = [i \in DOMAIN evmBlocks |->
                     IF i = 1 THEN evmBlocks[1]
                     ELSE [id |-> mined + i, time |-> i, tx |-> None, ok |-> TRUE]]
  /\ mined' = mined + Len(evmBlocks)
  /\ UNCHANGED <<finalNumber, undone, reading>>

-----------------------------------------------------------------------------
(* The reader: every request is a step, and every answer is checked before *)
(* the next.                                                               *)

FailRead == reading' = [reading EXCEPT !.step = "failed"]

\* The caller asks for the funding alone, or for it and what became of it.
BeginRead ==
  /\ reading.step = "idle"
  /\ \E a \in Terminals \cup {None} : reading' = [reading EXCEPT !.step = "pin", !.action = a]
  /\ UNCHANGED evmWorld

PinFinalized ==
  /\ reading.step = "pin"
  /\ reading' = [reading EXCEPT !.step = "receipt", !.tx = "deploy",
                   !.pinned = [number |-> finalNumber, id |-> evmBlocks[finalNumber].id]]
  /\ UNCHANGED evmWorld

Positions(tx) == {i \in DOMAIN evmBlocks : evmBlocks[i].tx = tx}

\* The receipt names the block; a receipt of a failed call is no evidence.
Receipt(tx) ==
  {[tx |-> tx, number |-> i, id |-> evmBlocks[i].id, time |-> evmBlocks[i].time] :
     i \in {j \in Positions(tx) : evmBlocks[j].ok}}

ReadReceipt ==
  /\ reading.step = "receipt"
  /\ IF Receipt(reading.tx) = {} THEN FailRead
     ELSE \E r \in Receipt(reading.tx) :
            reading' = [reading EXCEPT !.step = "transaction", !.receipt = r]
  /\ UNCHANGED evmWorld

ReadTransaction ==
  /\ reading.step = "transaction"
  /\ IF \E i \in Positions(reading.tx) : i = reading.receipt.number /\ evmBlocks[i].id = reading.receipt.id
     THEN reading' = [reading EXCEPT !.step = "block"]
     ELSE FailRead
  /\ UNCHANGED evmWorld

(* Fault: the block may be later than the final one. *)
AnyBlock(number, id) == TRUE

AtOrBeforeFinalized(number, id) ==
  /\ number <= reading.pinned.number
  /\ number = reading.pinned.number => id = reading.pinned.id

\* Each transaction is in a later block than the one before it.
InOrder(r) == /\ r.tx = "fund" => r.number > 1
              /\ r.tx \in Terminals => r.number > reading.funding.number

\* The block of a receipt is read by its number and must bear its hash, and lie
\* not after the pinned final block.
ReadBlock ==
  /\ reading.step = "block"
  /\ IF /\ reading.receipt.number \in DOMAIN evmBlocks
        /\ evmBlocks[reading.receipt.number].id = reading.receipt.id
        /\ AtOrBeforeFinalized(reading.receipt.number, reading.receipt.id)
        /\ InOrder(reading.receipt)
     THEN reading' = CASE reading.tx = "deploy" -> [reading EXCEPT !.step = "receipt", !.tx = "fund"]
                       [] reading.tx = "fund" -> [reading EXCEPT !.step = "code", !.funding = reading.receipt]
                       [] OTHER -> [reading EXCEPT !.step = "recheck", !.terminal = reading.receipt]
     ELSE FailRead
  /\ UNCHANGED evmWorld

\* The code is asked for at the pinned block by its hash.
ReadCode ==
  /\ reading.step = "code"
  /\ IF \E i \in DOMAIN evmBlocks : evmBlocks[i].id = reading.pinned.id
     THEN reading' = [reading EXCEPT !.step = "recheck"]
     ELSE FailRead
  /\ UNCHANGED evmWorld

\* The facts bound to the swap: within the deadlines it signed.
BindsFunding(r) == r.number > 1 /\ r.time <= EvmFundCutoff
BindsSpend(r, funding) ==
  /\ funding.number < r.number /\ funding.time <= r.time
  /\ r.tx = "claim" => r.time <= EvmClaimCutoff
  /\ r.tx = "refund" => r.time >= EvmRefundFrom

\* The pinned block is read again by its number.  After the funding's bundle the
\* terminal receipt follows, under the same pinned block.
Recheck ==
  /\ reading.step = "recheck"
  /\ IF ~(/\ reading.pinned.number \in DOMAIN evmBlocks
          /\ evmBlocks[reading.pinned.number].id = reading.pinned.id)
     THEN FailRead
     ELSE IF reading.action # None /\ reading.terminal = None
     THEN reading' = [reading EXCEPT !.step = "receipt", !.tx = reading.action]
     ELSE IF /\ BindsFunding(reading.funding)
             /\ reading.terminal # None => BindsSpend(reading.terminal, reading.funding)
     THEN reading' = [reading EXCEPT !.step = "bound"]
     ELSE FailRead
  /\ UNCHANGED evmWorld

\* Once the read is over the chain no longer matters to it.
EvidenceNext ==
  /\ reading.step \notin {"failed", "bound"}
  /\ \/ MineBlock \/ FinalizeBlocks \/ ReorganizeBlocks \/ SwitchChain
     \/ BeginRead \/ PinFinalized \/ ReadReceipt \/ ReadTransaction \/ ReadBlock \/ ReadCode \/ Recheck

-----------------------------------------------------------------------------
Stands(r) == /\ r.number \in DOMAIN evmBlocks
             /\ evmBlocks[r.number].id = r.id /\ evmBlocks[r.number].tx = r.tx
             /\ r.number <= finalNumber

\* A read that ends well describes one chain: the funding it returns, and the
\* claim or refund, are final there, in that order, and the lock was left by the
\* terminal it names, however the chain moved between the requests
\* (readEvmFundingBundleWithAuthority, readEvmTerminalReceiptWithAuthority).
EvidenceStands ==
  reading.step = "bound" =>
    /\ Stands(reading.funding)
    /\ reading.action # None =>
         /\ Stands(reading.terminal)
         /\ reading.funding.number < reading.terminal.number
         /\ ~\E other \in Terminals \ {reading.action} : Succeeded(evmBlocks, other)
=============================================================================
