----------------------------- MODULE DurableLog -----------------------------
(***************************************************************************)
(* What a store of one swap promises its callers: the events form one log, *)
(* and a log that a caller was once shown is never lost, whatever crashes. *)
(* A write that was not acknowledged may be kept or lost.                  *)
(***************************************************************************)
EXTENDS SequencesExt

CONSTANT Events

VARIABLES
  log,    \* the events the next reader finds
  shown   \* every log some caller was shown

logVars == <<log, shown>>

LogInit == log = <<>> /\ shown = {}

Write(e) == log' = Append(log, e) /\ UNCHANGED shown

(* A reader may still be answered from before the last writes. *)
Show ==
  \E n \in 0 .. Len(log) : shown' = shown \cup {SubSeq(log, 1, n)} /\ UNCHANGED log

(* A crash may undo what nobody was shown. *)
Lose ==
  \E n \in 0 .. Len(log) :
    /\ \A s \in shown : Len(s) <= n
    /\ log' = SubSeq(log, 1, n)
    /\ UNCHANGED shown

LogNext == (\E e \in Events : Write(e)) \/ Show \/ Lose

LogSpec == LogInit /\ [][LogNext]_logVars

(* Every log that was shown to a caller is a prefix of the present one:    *)
(* persistent-store.ts acknowledges an append only once it is durable.     *)
ShownSurvives == \A s \in shown : IsPrefix(s, log)

=============================================================================
