---------------------------- MODULE MatcherStore ----------------------------
(***************************************************************************)
(* The matcher's store (services/matcher/persistent-store.ts, journal.ts): *)
(* one process that owns a directory by its writer.lock, a journal that is *)
(* appended to and synced, a checkpoint and an initialization marker that  *)
(* are replaced atomically.  disk is what a process reads, safe what a     *)
(* power failure leaves for certain: a step of the process begins once its *)
(* previous write has returned, so it makes that write safe.               *)
(***************************************************************************)
EXTENDS FiniteSetsExt, SequencesExt, Absent

CONSTANTS
  Ids,          \* request IDs of commands
  Bodies,       \* what a command asks for, its signature included
  Raw,          \* bodies that carry a legacy control signature
  Refused,      \* bodies the matcher refuses: policy, nonce, signature
  Needs,        \* the body of the order a control acts on, None for an order
  MaxTime,      \* bound: the trusted clock runs in 0 .. MaxTime
  MaxFuture,    \* maximumFutureEventSeconds
  MaxRecords,   \* maximumJournalRecords, the system record apart
  MaxQueue,     \* bound: calls of mutate that wait
  MaxTroubles,  \* bound: crashes and failed writes
  Weather       \* the kinds of crash of one behaviour: "process", "power", "both"

ASSUME MatcherStoreConstants ==
  /\ {MaxTime, MaxFuture, MaxRecords, MaxQueue, MaxTroubles} \subseteq Nat
  /\ MaxRecords > 0
  /\ Raw \subseteq Bodies
  /\ Refused \subseteq Bodies
  /\ Needs \in [Bodies -> Bodies \cup {None}]
  /\ {None, "cutover", "legacy"} \cap (Ids \cup Bodies) = {}

VARIABLES
  disk,      \* marker, journal, torn tail and checkpoint as a process reads them
  safe,      \* the same as they were last synced
  lock,      \* writer.lock exists
  pc,        \* where the process is in open, or that it is up or down
  mem,       \* its log, its checkpoint, the receipts whose checkpoint it knows
  fault,     \* the store refuses every further mutation
  closed,    \* close() was called
  queue,     \* calls of mutate that have not begun
  job,       \* the call that has begun
  answers,   \* settled calls the caller has not looked at
  clock,     \* the trusted clock
  weather,   \* the kind of crash this behaviour has
  troubles,  \* crashes and failed writes so far
  shown,     \* every log some caller was shown
  told       \* every receipt some caller was given

storeVars == <<disk, safe, lock, pc, mem, fault, closed, queue, job, answers,
               clock, weather, troubles, shown, told>>

Times == 0 .. MaxTime
Commands == [id : Ids, body : Bodies, at : Times]

(* A journal record: a command with its intake time, or a system record.   *)
System(kind) == [id |-> kind, body |-> kind, at |-> 0]
Cutover == System("cutover")
Legacy == System("legacy")
Records == Commands \cup {Cutover, Legacy}

(* A call of mutate that has begun: its caller, the stamped command and    *)
(* what is being written for it.                                           *)
Jobs == [from : {None} \cup (Ids \X Nat), record : Commands,
         stage : {"append", "checkpoint", "again"}]

ASSUME NoneIsApart ==
  /\ None \notin Nat \cup Seq(Records) \cup Jobs
  /\ None \notin {"initializing", "legacy", "current"}

Idle == [log |-> <<>>, checkpoint |-> 0, kept |-> {}]

NewDirectory == [marker |-> None, journal |-> None, torn |-> FALSE, checkpoint |-> None]

(* What an earlier release left: raw controls, no cutover, a marker of v1. *)
LegacyDirectory ==
  [marker |-> "legacy", journal |-> <<Legacy>>, torn |-> FALSE, checkpoint |-> 1]

MatcherStoreInit ==
  /\ disk \in {NewDirectory, LegacyDirectory}
  /\ safe = disk
  /\ lock = FALSE
  /\ pc = "down"
  /\ mem = Idle
  /\ fault = FALSE
  /\ closed = FALSE
  /\ queue = <<>>
  /\ job = None
  /\ answers = {}
  /\ clock = 0
  /\ weather \in Weather
  /\ troubles = 0
  /\ shown = {}
  /\ told = {}

-----------------------------------------------------------------------------
(* What replay accepts.                                                    *)

CutoversOf(j) == {n \in DOMAIN j : j[n] = Cutover}

UserRecords(j) == Len(j) - (IF CutoversOf(j) = {} THEN 0 ELSE 1)

(* The commands of a journal. *)
UserLog(j) ==
  LET users[n \in 0 .. Len(j)] ==
        IF n = 0 THEN <<>>
        ELSE IF j[n].id \in Ids THEN Append(users[n - 1], j[n]) ELSE users[n - 1]
  IN  IF j = None THEN <<>> ELSE users[Len(j)]

(* findRequestReceipt: the record of a request, if the log holds one. *)
Prior(log, id) == {r \in ToSet(log) : r.id = id}

LastTime(log) == IF log = <<>> THEN 0 ELSE Last(log).at

(* applyPersistentMatcherEvent succeeds: time does not run back, the       *)
(* request is new, the same thing was not done before, and a control finds *)
(* its order.                                                              *)
Applies(log, r) ==
  LET done == {q.body : q \in ToSet(log)}
  IN  /\ r.at >= LastTime(log)
      /\ Prior(log, r.id) = {}
      /\ r.body \notin Refused \cup done
      /\ Needs[r.body] \in done \cup {None}

TimeFits(r, now) == r.at <= now + MaxFuture

Readable(d) == ~d.torn
CheckpointFits(d) == d.checkpoint <= Len(d.journal)
OneCutover(d) == Cardinality(CutoversOf(d.journal)) <= 1
CapacityFits(d) == UserRecords(d.journal) <= MaxRecords
RawBeforeCutover(d) ==
  \A n \in DOMAIN d.journal, c \in CutoversOf(d.journal) :
    d.journal[n] = Legacy \/ d.journal[n].body \in Raw => n < c
ExactInitializing(d) ==
  d.marker = "initializing" =>
    \/ d.journal = <<>> /\ d.checkpoint = 0
    \/ d.journal = <<Cutover>> /\ d.checkpoint \in {0, 1}
MarkerBinds(d) == d.marker = "current" => CutoversOf(d.journal) # {}
Replays(j) ==
  \A n \in DOMAIN j :
    j[n].id \in Ids => Applies(UserLog(SubSeq(j, 1, n - 1)), j[n])

(* What open asks of the files apart from a whole tail and the clock. *)
Sound(d) ==
  /\ CheckpointFits(d)
  /\ OneCutover(d)
  /\ CapacityFits(d)
  /\ RawBeforeCutover(d)
  /\ ExactInitializing(d)
  /\ MarkerBinds(d)
  /\ Replays(d.journal)

-----------------------------------------------------------------------------
(* Steps of the process.                                                   *)

(* Replacing a file syncs the directory, which says nothing of a record    *)
(* some dead process appended and never synced.                            *)
Write(d) ==
  /\ disk' = d
  /\ safe' = [disk EXCEPT !.journal = IF safe.journal = None THEN @ ELSE safe.journal,
                          !.torn = safe.torn]

(* Fault: an append returns before the file is synced. *)
WriteAfterUnsyncedAppend(d) == Write(d)

(* The previous write was an append that returned: the whole file is safe. *)
WriteAfterAppend(d) == disk' = d /\ safe' = disk

serving == <<mem, fault, closed, queue, job, answers, shown, told>>

world == <<clock, weather, troubles>>

(* One step of open: the lock is held and the calls have not begun. *)
GoOn(from, to) ==
  /\ pc = from
  /\ pc' = to
  /\ UNCHANGED <<lock, serving, world>>

Opening(from, to, d) == GoOn(from, to) /\ Write(d)

(* open throws and releases the lock. *)
OpenFails(from) ==
  /\ pc = from
  /\ pc' = "down"
  /\ lock' = FALSE
  /\ Write(disk)
  /\ UNCHANGED <<serving, world>>

AcquireWriterLock ==
  /\ pc = "down"
  /\ ~lock
  /\ pc' = "marker"
  /\ lock' = TRUE
  /\ UNCHANGED <<disk, safe, serving, world>>

(* A new directory gets the marker of a store that is being made, then an  *)
(* empty journal, then the checkpoint of genesis.                          *)
ReadMarker ==
  \/ /\ disk.marker # None
     /\ Opening("marker", "files", disk)
  \/ /\ disk = NewDirectory
     /\ Opening("marker", "files", [disk EXCEPT !.marker = "initializing"])

PrepareFiles ==
  \/ /\ disk.journal # None /\ disk.checkpoint # None
     /\ Opening("files", "replay", disk)
  \/ /\ disk.marker = "initializing"
     /\ disk.journal = None /\ disk.checkpoint = None
     /\ Opening("files", "files", [disk EXCEPT !.journal = <<>>])
  \/ /\ disk.marker = "initializing"
     /\ disk.journal = <<>> /\ ~disk.torn /\ disk.checkpoint = None
     /\ Opening("files", "replay", [disk EXCEPT !.checkpoint = 0])

ReplayFits ==
  /\ Readable(disk)
  /\ Sound(disk)
  /\ \A r \in ToSet(disk.journal) : TimeFits(r, clock)

(* readJournal, its checks, the replay of every record, and the system     *)
(* record that closes the legacy prefix when there is none yet.            *)
Replay ==
  /\ pc = "replay"
  /\ \/ /\ ReplayFits
        /\ CutoversOf(disk.journal) # {}
        /\ Opening("replay", "checkpoint", disk)
     \/ /\ ReplayFits
        /\ CutoversOf(disk.journal) = {}
        /\ Opening("replay", "sealed", [disk EXCEPT !.journal = Append(@, Cutover)])

WriteHead ==
  LET head == [disk EXCEPT !.checkpoint = Len(disk.journal)]
  IN  \/ Opening("checkpoint", "stamp", head)
      \/ GoOn("sealed", "stamp") /\ WriteAfterAppend(head)

(* The states of the files that none of the steps above goes on from. *)
Unusable(stage) ==
  \/ stage = "marker" /\ disk.marker = None /\ disk # NewDirectory
  \/ /\ stage = "files"
     /\ disk.journal = None \/ disk.checkpoint = None
     /\ \/ disk.marker # "initializing"
        \/ disk.journal = None /\ disk.checkpoint # None
        \/ disk.journal # None /\ (disk.journal # <<>> \/ disk.torn)
  \/ stage = "replay" /\ ~ReplayFits

RefuseToOpen ==
  \E stage \in {pc} : Unusable(stage) /\ OpenFails(stage)

StampMarker == Opening("stamp", "opened", [disk EXCEPT !.marker = "current"])

Opened ==
  /\ pc = "opened"
  /\ pc' = "up"
  /\ Write(disk)
  /\ mem' = [log |-> disk.journal, checkpoint |-> disk.checkpoint,
             kept |-> {r.id : r \in ToSet(disk.journal)} \cap Ids]
  /\ UNCHANGED <<lock, fault, closed, queue, job, answers, shown, told, world>>

OpenStep ==
  \/ AcquireWriterLock
  \/ ReadMarker
  \/ PrepareFiles
  \/ Replay
  \/ RefuseToOpen
  \/ WriteHead
  \/ StampMarker
  \/ Opened

-----------------------------------------------------------------------------
(* mutate: calls queue up and settle one after the other.                  *)

Accepting == pc = "up" /\ ~closed /\ ~fault

Submit(from, c) ==
  /\ Accepting
  /\ Len(queue) < MaxQueue
  /\ queue' = Append(queue, [from |-> from, command |-> c])
  /\ UNCHANGED <<disk, safe, lock, pc, mem, fault, closed, job, answers, shown, told, world>>

Answer(from, result, r) ==
  answers' = answers \cup {[from |-> from, result |-> result, record |-> r]}

steady == <<lock, pc, closed, world>>

Begin(from, c) ==
  /\ job = None
  /\ queue # <<>>
  /\ queue[1] = [from |-> from, command |-> c]
  /\ queue' = Tail(queue)

(* A call that writes nothing. *)
Settle(from, c, result) ==
  /\ Begin(from, c)
  /\ Answer(from, result, None)
  /\ UNCHANGED <<disk, safe, mem, job, shown, told, steady>>

(* Fault: an error of one call ends the chain of those behind it. *)
AnswerFaultClosed(from, c) == fault /\ closed /\ Settle(from, c, "fault") /\ UNCHANGED fault

AnswerFault(from, c) == fault /\ Settle(from, c, "fault") /\ UNCHANGED fault

(* The command is stamped with the trusted clock, a known one with the     *)
(* time it was first taken in.                                             *)
Stamped(c) ==
  LET prior == Prior(mem.log, c.id)
  IN  [c EXCEPT !.at = IF prior = {} THEN clock ELSE (CHOOSE r \in prior : TRUE).at]

Known(c) == Prior(mem.log, c.id) # {}

Inadmissible(c) ==
  \/ c.body \in Raw
  \/ ~TimeFits(c, clock)
  \/ Known(c) /\ Stamped(c) \notin ToSet(mem.log)
  \/ ~Known(c) /\ ~Applies(UserLog(mem.log), Stamped(c))

Refuse(from, c) ==
  /\ ~fault
  /\ Inadmissible(c)
  /\ Settle(from, c, "refused")
  /\ UNCHANGED fault

Started(from, c, stage) ==
  /\ ~fault
  /\ ~Inadmissible(c)
  /\ Begin(from, c)
  /\ job' = [from |-> from, record |-> Stamped(c), stage |-> stage]
  /\ UNCHANGED <<mem, fault, answers, shown, told, steady>>

CheckpointAt(n) == [disk EXCEPT !.checkpoint = n]

(* appendJournal: one whole record, if there is room for it. *)
Appended(j, r) == [disk EXCEPT !.journal = Append(j, r)]
Room == Len(disk.journal) < MaxRecords + 1

(* Fault: the checkpoint is written before the record. *)
BeginAppendLast(from, c) ==
  /\ ~Known(c)
  /\ Room
  /\ Started(from, c, "append")
  /\ Write(CheckpointAt(Len(mem.log) + 1))

(* Fault: memory advances before the append has returned. *)
BeginAppendEarly(from, c) ==
  /\ ~fault /\ ~Known(c) /\ ~Inadmissible(c) /\ Room
  /\ Begin(from, c)
  /\ job' = [from |-> from, record |-> Stamped(c), stage |-> "checkpoint"]
  /\ mem' = [mem EXCEPT !.log = Append(@, Stamped(c))]
  /\ Write(Appended(disk.journal, Stamped(c)))
  /\ UNCHANGED <<fault, answers, shown, told, steady>>

BeginAppend(from, c) ==
  /\ ~Known(c)
  /\ Room
  /\ Started(from, c, "append")
  /\ Write(Appended(disk.journal, Stamped(c)))

(* A journal at its limit latches the fault: it is an error of the append. *)
JournalFull(from, c) ==
  /\ ~fault /\ ~Inadmissible(c) /\ ~Known(c) /\ ~Room
  /\ fault' = TRUE
  /\ Settle(from, c, "fault")

BeginReplay(from, c) ==
  /\ Known(c)
  /\ Started(from, c, "again")
  /\ Write(CheckpointAt(Len(mem.log)))

(* The record is synced: memory advances, then the checkpoint is written. *)
Advance ==
  /\ job # None
  /\ job.stage = "append"
  /\ mem' = [mem EXCEPT !.log = Append(@, job.record)]
  /\ WriteAfterAppend(CheckpointAt(Len(mem.log) + 1))
  /\ job' = [job EXCEPT !.stage = "checkpoint"]
  /\ UNCHANGED <<fault, queue, answers, shown, told, steady>>

(* Fault: a repeated request is given the receipt checkpoint of the head. *)
PositionOfHead(r) == Len(mem.log)

PositionOf(r) == CHOOSE n \in DOMAIN mem.log : mem.log[n] = r

Finish ==
  /\ job # None
  /\ job.stage \in {"checkpoint", "again"}
  /\ LET kept == mem.kept \cup (IF job.stage = "checkpoint" THEN {job.record.id} ELSE {})
     IN  /\ mem' = [mem EXCEPT !.checkpoint = Len(mem.log), !.kept = kept]
         /\ job.record.id \in kept
  /\ Write(disk)
  /\ Answer(job.from, IF job.stage = "again" THEN "replayed" ELSE "accepted", job.record)
  /\ told' = told \cup {[record |-> job.record, sequence |-> PositionOf(job.record)]}
  /\ shown' = shown \cup {UserLog(mem.log)}
  /\ job' = None
  /\ UNCHANGED <<fault, queue, steady>>

MutateStep ==
  \/ \E q \in ToSet(queue) :
       \/ AnswerFault(q.from, q.command)
       \/ Refuse(q.from, q.command)
       \/ BeginAppend(q.from, q.command)
       \/ JournalFull(q.from, q.command)
       \/ BeginReplay(q.from, q.command)
  \/ Advance
  \/ Finish

(* The state is public as soon as memory holds it. *)
ShowState ==
  /\ Accepting
  /\ UserLog(mem.log) \notin shown
  /\ shown' = shown \cup {UserLog(mem.log)}
  /\ UNCHANGED <<disk, safe, lock, pc, mem, fault, closed, queue, job, answers, told, world>>

BeginClose ==
  /\ pc = "up"
  /\ ~closed
  /\ closed' = TRUE
  /\ UNCHANGED <<disk, safe, lock, pc, mem, fault, queue, job, answers, shown, told, world>>

(* close: the queue settles first, then the owned lock is removed. *)
ReleaseWriterLock ==
  /\ pc = "up" /\ closed /\ queue = <<>> /\ job = None
  /\ pc' = "down"
  /\ lock' = FALSE
  /\ mem' = Idle
  /\ fault' = FALSE
  /\ closed' = FALSE
  /\ UNCHANGED <<disk, safe, queue, job, answers, shown, told, world>>

-----------------------------------------------------------------------------
(* What can go wrong.                                                      *)

Trouble == troubles < MaxTroubles /\ troubles' = troubles + 1

(* The files without the write that is in flight. *)
Appending == pc = "sealed" \/ (job # None /\ job.stage = "append")
Before == IF Appending THEN [disk EXCEPT !.journal = Front(@)]
                       ELSE [disk EXCEPT !.checkpoint = mem.checkpoint]

(* An append in flight may leave half a record, and to a power failure so  *)
(* may every record that was not synced.                                   *)
Torn(d) == [d EXCEPT !.torn = TRUE]
HalfAppended == IF Appending THEN {Torn(Before)} ELSE {}
HalfSynced ==
  IF disk.journal # safe.journal /\ safe.journal # None THEN {Torn(safe)} ELSE {}

(* A write of a mutation fails: the store keeps serving reads of nothing   *)
(* but its fault.  A failed append may have left the whole record.         *)
WriteFails ==
  /\ Trouble
  /\ job # None
  /\ weather \in {"process", "both"}
  /\ disk' \in {disk, Before} \cup HalfAppended
  /\ fault' = TRUE
  /\ Answer(job.from, "fault", None)
  /\ job' = None
  /\ UNCHANGED <<safe, lock, pc, mem, closed, queue, clock, weather, shown, told>>

(* The process dies, and with it all calls; the lock stays. *)
Dies(kind, left) ==
  /\ weather \in {kind, "both"}
  /\ Trouble
  /\ pc # "down"
  /\ disk' \in left
  /\ pc' = "down"
  /\ mem' = Idle
  /\ fault' = FALSE
  /\ closed' = FALSE
  /\ queue' = <<>>
  /\ job' = None
  /\ answers' = {}
  /\ UNCHANGED <<lock, clock, weather, shown, told>>

ProcessDies == Dies("process", {disk} \cup HalfAppended) /\ UNCHANGED safe
PowerFails == Dies("power", {disk, safe} \cup HalfSynced) /\ safe' = disk'

OperatorRemovesLock ==
  /\ pc = "down"
  /\ lock
  /\ lock' = FALSE
  /\ UNCHANGED <<disk, safe, pc, serving, world>>

(* The clock of the host may be set back. *)
ClockMoves ==
  /\ clock' \in {clock - 1, clock + 1} \cap Times
  /\ UNCHANGED <<disk, safe, lock, pc, serving, weather, troubles>>

(* The caller of mutate takes its answer. *)
Take(a) ==
  /\ a \in answers
  /\ answers' = answers \ {a}
  /\ UNCHANGED <<disk, safe, lock, pc, mem, fault, closed, queue, job, shown, told, world>>

-----------------------------------------------------------------------------

(* A record is applied once, whatever was retried or restarted, and every  *)
(* receipt a caller holds is the record at its place in the journal: what  *)
(* findRequestReceipt and the stamped time of #mutate are for.             *)
AppliedOnce ==
  disk.journal # None =>
    /\ \A m, n \in DOMAIN disk.journal :
         disk.journal[m].id = disk.journal[n].id => m = n
    /\ \A t \in told :
         t.sequence \in DOMAIN disk.journal /\ disk.journal[t.sequence] = t.record

(* Whatever crashed and whichever write failed, the files are ones open    *)
(* accepts, unless the tail is torn or the clock was set back.             *)
Reopenable ==
  disk.journal # None /\ disk.checkpoint # None => Sound(disk)

(* The journal is sound: it holds each accepted command once, every receipt *)
(* is a place in it, and a restart can open it again, whatever was retried, *)
(* crashed or left half written (persistent-store.ts:1132-1200).            *)
JournalSound == AppliedOnce /\ Reopenable

Durable == INSTANCE DurableLog WITH
  Events <- Commands, log <- UserLog(disk.journal), shown <- shown

(* The store keeps the promise of DurableLog: "Matcher events are appended *)
(* and fsynced before state publication."                                  *)
MatcherIsDurableLog == Durable!LogSpec
=============================================================================
