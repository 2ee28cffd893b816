----------------------------- MODULE SwapObserver -----------------------------
(***************************************************************************)
(* The observer of the two chains: whoever posts to /observe has it read   *)
(* both chains, apply what it saw to the projection it holds, write the    *)
(* projection to a file and only then hold it.  Several polls may be       *)
(* under way, a source may fail, the process may die and the power fail.   *)
(*                                                                         *)
(* One fill is followed: [evm, zec] are the states of its legs, and the    *)
(* two deadlines are set when it is first seen.  The log of alerts and the *)
(* cursor, which only count, are left out.                                 *)
(***************************************************************************)
EXTENDS Integers, Sequences, SequencesExt, Absent

CONSTANTS
  EvmRefundOffset, ZecRefundOffset,             \* seconds from the first sight of the fill
  MaxObserverTime, MaxObserverPolls, MaxStops   \* bounds

LegStates == {"pending", "funded", "claimed", "refunded"}
Fills == [evm : LegStates, zec : LegStates, evmRefundAfter : Nat, zecRefundAfter : Nat]

ASSUME ObserverAssumption ==
  /\ EvmRefundOffset \in Nat /\ ZecRefundOffset \in Nat
  /\ 0 < EvmRefundOffset /\ EvmRefundOffset < ZecRefundOffset
  /\ None \notin Fills

VARIABLES
  evmLogs,      \* kinds of the lock's logs on the chain
  zecOutpoint,  \* what the address holds: None, or the state of its outpoint
  observerNow,
  held,         \* the projection the service holds
  snapshot,     \* the file: None, Torn, or a projection
  marker,       \* the file that says there was a snapshot
  bootstrap,    \* "down", or what the start found
  observing,    \* the polls under way, by number
  stops         \* crashes and power failures so far

observerVars == <<evmLogs, zecOutpoint, observerNow, held, snapshot, marker, bootstrap,
                  observing, stops>>

NoFill == [fill |-> None]
Torn == [torn |-> TRUE]
Idle == [step |-> "idle"]
Polls == 1..MaxObserverPolls

ObserverInit ==
  /\ evmLogs = <<>> /\ zecOutpoint = None /\ observerNow = 1
  /\ held = NoFill /\ snapshot = None /\ marker = FALSE /\ bootstrap = "down"
  /\ observing = [p \in Polls |-> Idle] /\ stops = 0

-----------------------------------------------------------------------------
(* The chains.                                                             *)

EvmLegMoves ==
  /\ \/ evmLogs = <<>> /\ evmLogs' = <<"funded">>
     \/ Len(evmLogs) = 1 /\ \E k \in {"claimed", "refunded"} : evmLogs' = Append(evmLogs, k)
  /\ UNCHANGED <<zecOutpoint, observerNow, held, snapshot, marker, bootstrap, observing, stops>>

ZecLegMoves ==
  /\ \/ zecOutpoint = None /\ zecOutpoint' = "funded"
     \/ zecOutpoint = "funded" /\ zecOutpoint' \in {"claimed", "refunded"}
  /\ UNCHANGED <<evmLogs, observerNow, held, snapshot, marker, bootstrap, observing, stops>>

ObserverSecond ==
  /\ observerNow < MaxObserverTime
  /\ observerNow' = observerNow + 1
  /\ UNCHANGED <<evmLogs, zecOutpoint, held, snapshot, marker, bootstrap, observing, stops>>

-----------------------------------------------------------------------------
(* The projection.                                                         *)

EmptyDiagnosticFill(now) ==
  [evm |-> "pending", zec |-> "pending",
   evmRefundAfter |-> now + EvmRefundOffset, zecRefundAfter |-> now + ZecRefundOffset]

\* Each leg is funded before anything else, and refunded after its deadline.
Accepts(fill, leg, kind, now) ==
  CASE kind = "funded" -> fill[leg] = "pending"
    [] kind = "claimed" -> fill[leg] = "funded"
    [] kind = "refunded" ->
         fill[leg] = "funded"
         /\ now >= (IF leg = "evm" THEN fill.evmRefundAfter ELSE fill.zecRefundAfter)

\* A transition the projection refuses leaves it, and an alert in the log.
ApplyTransition(projection, leg, kind, now) ==
  LET fill == IF projection.fill = None THEN EmptyDiagnosticFill(now) ELSE projection.fill
  IN  IF Accepts(fill, leg, kind, now) THEN [fill |-> [fill EXCEPT ![leg] = kind]] ELSE projection

(* Fault: a refused transition ends the batch. *)
UpToRefused(projection, logs, now) ==
  LET first == ApplyTransition(projection, "evm", logs[1], now)
  IN  IF logs = <<>> \/ first = projection THEN projection
      ELSE IF Len(logs) = 1 THEN first ELSE ApplyTransition(first, "evm", logs[2], now)

\* The lock's logs are applied in the order of the chain; every poll brings all
\* of them.
ReduceEvmEvents(projection, logs, now) ==
  LET seen[i \in 0..Len(logs)] ==
        IF i = 0 THEN projection ELSE ApplyTransition(seen[i - 1], "evm", logs[i], now)
  IN  seen[Len(logs)]

\* Of the outpoint a poll sees what it is by then, not how it came to be.
ReduceZcashEvents(projection, outpoint, now) ==
  IF outpoint = None THEN projection ELSE ApplyTransition(projection, "zec", outpoint, now)

-----------------------------------------------------------------------------
(* The service.                                                            *)

\* What a file gives back is what was written to it, deadlines included.
Restored == IF snapshot \in {None, Torn} THEN NoFill ELSE snapshot

\* A snapshot that cannot be read, or is gone while the marker is there, is
\* reported by the service's health; it runs on all the same, from nothing.
BootstrapService ==
  /\ bootstrap = "down"
  /\ held' = Restored
  /\ bootstrap' = CASE snapshot = Torn -> "error"
                    [] snapshot = None /\ marker = TRUE -> "missing"
                    [] OTHER -> "ready"
  /\ marker' = IF snapshot = Torn THEN marker ELSE TRUE
  /\ UNCHANGED <<evmLogs, zecOutpoint, observerNow, snapshot, observing, stops>>

\* A poll begins with the projection held and reads the lock's logs: nothing it
\* depends on can change between the two.
Observe(p) ==
  /\ bootstrap # "down" /\ observing[p].step = "idle"
  /\ \A q \in 1..p-1 : observing[q].step # "idle"   \* the first number free
  /\ observing' = [observing EXCEPT ![p] =
       [step |-> "zec", base |-> held, now |-> observerNow, logs |-> evmLogs]]
  /\ UNCHANGED <<evmLogs, zecOutpoint, observerNow, held, snapshot, marker, bootstrap, stops>>

\* The address is read, and then its outpoint; both chains' events are applied to
\* the projection as it was when the poll began.
PollZcash(p) ==
  /\ observing[p].step = "zec"
  /\ \E poll \in {observing[p]} :
       observing' = [observing EXCEPT ![p] =
         [step |-> "write", logs |-> poll.logs,
          next |-> ReduceZcashEvents(ReduceEvmEvents(poll.base, poll.logs, poll.now), zecOutpoint, poll.now)]]
  /\ UNCHANGED <<evmLogs, zecOutpoint, observerNow, held, snapshot, marker, bootstrap, stops>>

WriteSnapshot(p) ==
  /\ observing[p].step = "write"
  /\ snapshot' = observing[p].next
  /\ observing' = [observing EXCEPT ![p].step = "hold"]
  /\ UNCHANGED <<evmLogs, zecOutpoint, observerNow, held, marker, bootstrap, stops>>

HoldOutcome(p) ==
  /\ observing[p].step = "hold"
  /\ held' = observing[p].next
  /\ observing' = [observing EXCEPT ![p] = Idle]
  /\ UNCHANGED <<evmLogs, zecOutpoint, observerNow, snapshot, marker, bootstrap, stops>>

\* A source or the file system fails: the caller is told, nothing is held.
PollFails(p) ==
  /\ observing[p].step \in {"zec", "write"}
  /\ observing' = [observing EXCEPT ![p] = Idle]
  /\ UNCHANGED <<evmLogs, zecOutpoint, observerNow, held, snapshot, marker, bootstrap, stops>>

\* The snapshot is renamed into place without having been synced: a power
\* failure may leave it torn.
StopObserver ==
  /\ bootstrap # "down" /\ stops < MaxStops
  /\ stops' = stops + 1
  /\ bootstrap' = "down" /\ held' = NoFill
  /\ observing' = [p \in Polls |-> Idle]
  /\ \/ UNCHANGED snapshot
     \/ snapshot # None /\ snapshot' = Torn
  /\ UNCHANGED <<evmLogs, zecOutpoint, observerNow, marker>>

ObserverNext ==
  \/ EvmLegMoves \/ ZecLegMoves \/ ObserverSecond \/ BootstrapService \/ StopObserver
  \/ \E p \in Polls :
       Observe(p) \/ PollZcash(p) \/ WriteSnapshot(p) \/ HoldOutcome(p) \/ PollFails(p)

-----------------------------------------------------------------------------
Shows(projection, logs) ==
  logs # <<>> => IF Last(logs) = "claimed" THEN projection.fill.evm = "claimed"
                 ELSE projection.fill.evm # "pending"

\* What a poll is about to write and to hold shows what the chain showed when the
\* poll read it, whatever projection it began with: polls overlap and overwrite
\* each other's outcome, an outcome is lost with the process, and the service may
\* have begun again from nothing, but every poll applies the chain's whole log
\* (pollOnceInto, applyTransition).
OutcomeShowsChain ==
  \A p \in Polls : observing[p].step \in {"write", "hold"} => Shows(observing[p].next, observing[p].logs)
=============================================================================
