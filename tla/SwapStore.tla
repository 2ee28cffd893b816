----------------------------- MODULE SwapStore ------------------------------
(***************************************************************************)
(* The coordinator's store of one swap (persistent-store.ts): a directory  *)
(* that holds store.json and writer.lock, and the handles that processes   *)
(* open on it.  Every append rewrites store.json: a temporary file is      *)
(* written and synced, renamed over it, and the directory is synced.       *)
(* disk is what a process sees, durable what a machine crash leaves for    *)
(* certain.  A handle stands for one PersistentSwapStore object and its    *)
(* process; its lock's random owner token is the handle itself.            *)
(***************************************************************************)
EXTENDS SequencesExt, Absent

CONSTANTS
  Handles,     \* the handles ever made
  Events,      \* the payloads appended
  MaxEvents,   \* maximumEvents
  MaxQueue     \* bound: appends waiting on one handle

ASSUME StoreConstants ==
  /\ MaxEvents \in Nat
  /\ MaxQueue \in Nat
  /\ None \notin Handles
  /\ None \notin Seq(Events)
  /\ None \notin [stage : {"check", "write", "sync", "commit"}, next : Seq(Events)]

VARIABLES
  careful,   \* the operator proves a lock stale before removing it
  disk,      \* the directory as processes see it
  durable,   \* the directory as last synced
  pc,        \* where each handle is
  closing,   \* close() was called
  poisoned,  \* the handle refuses every further append
  mem,       \* the events in the handle's memory
  queue,     \* its appends that have not begun
  job,       \* its append that has begun
  shown      \* every log a caller was shown

storeVars == <<careful, disk, durable, pc, closing, poisoned, mem, queue, job, shown>>

Logs == {s \in SeqOf(Events, MaxEvents) : IsInjective(s)}
Requests == [expected : Logs, event : Events]

Gone == {"new", "closed", "failed", "dead"}
Alive(h) == pc[h] \notin Gone

StoreInit ==
  /\ careful \in BOOLEAN
  /\ disk = [made |-> FALSE, store |-> None, lock |-> None]
  /\ durable = disk
  /\ pc = [h \in Handles |-> "new"]
  /\ closing = [h \in Handles |-> FALSE]
  /\ poisoned = [h \in Handles |-> FALSE]
  /\ mem = [h \in Handles |-> <<>>]
  /\ queue = [h \in Handles |-> <<>>]
  /\ job = [h \in Handles |-> None]
  /\ shown = {}

-----------------------------------------------------------------------------
(* Steps the operations share.                                             *)

Idle(h) == job[h] = None

GoTo(h, from, to) == pc[h] = from /\ pc' = [pc EXCEPT ![h] = to]

SyncDirectory == durable' = [disk EXCEPT !.made = durable.made]

memory == <<closing, poisoned, mem, queue, job>>

(* What open and initialize return: a handle on a log. *)
Ready(h, log) ==
  /\ mem' = [mem EXCEPT ![h] = log]
  /\ shown' = shown \cup {log}
  /\ UNCHANGED <<closing, poisoned, queue, job>>

-----------------------------------------------------------------------------
(* acquireLock.  Its exclusive create fails when the file exists; an error *)
(* after it leaves the file behind, for the callers' try comes later.      *)

(* Fault: a lock that exists is taken over. *)
AcquireLockOver(h, to) ==
  /\ disk.made
  /\ disk' = [disk EXCEPT !.lock = h] /\ pc' = [pc EXCEPT ![h] = to]
  /\ UNCHANGED <<durable, memory, shown>>

AcquireLock(h, to) ==
  /\ disk.made
  /\ IF disk.lock = None
       THEN disk' = [disk EXCEPT !.lock = h] /\ pc' = [pc EXCEPT ![h] = to]
       ELSE UNCHANGED disk /\ pc' = [pc EXCEPT ![h] = "failed"]
  /\ UNCHANGED <<durable, memory, shown>>

(* Fault: the lock's directory entry is not synced. *)
SyncLockLazily(h) ==
  /\ \/ GoTo(h, "init-locked", "init-write")
     \/ GoTo(h, "open-locked", "open-read")
  /\ UNCHANGED <<disk, durable, memory, shown>>

SyncLock(h) ==
  /\ \/ GoTo(h, "init-locked", "init-write")
     \/ GoTo(h, "open-locked", "open-read")
  /\ SyncDirectory
  /\ UNCHANGED <<disk, memory, shown>>

SyncLockFails(h) ==
  /\ pc[h] \in {"init-locked", "open-locked"}
  /\ pc' = [pc EXCEPT ![h] = "failed"]
  /\ UNCHANGED <<disk, durable, memory, shown>>

(* releaseLock, of close() and of an operation that failed. *)
ReleaseLock(h) ==
  /\ \/ pc[h] = "aborting"
     \/ pc[h] = "ready" /\ closing[h] /\ queue[h] = <<>> /\ Idle(h)
  /\ IF disk.lock = h
       THEN /\ disk' = [disk EXCEPT !.lock = None]
            /\ pc' = [pc EXCEPT ![h] = IF pc[h] = "ready" THEN "unlinked" ELSE "abort-unlinked"]
       ELSE UNCHANGED disk /\ pc' = [pc EXCEPT ![h] = "failed"]
  /\ UNCHANGED <<durable, memory, shown>>

SyncRelease(h) ==
  /\ GoTo(h, "unlinked", "closed") \/ GoTo(h, "abort-unlinked", "failed")
  /\ SyncDirectory
  /\ UNCHANGED <<disk, memory, shown>>

SyncReleaseFails(h) ==
  /\ pc[h] \in {"unlinked", "abort-unlinked"}
  /\ pc' = [pc EXCEPT ![h] = "failed"]
  /\ UNCHANGED <<disk, durable, memory, shown>>

-----------------------------------------------------------------------------
(* initialize: an exclusive mkdir, the lock, the empty document.           *)

Initialize(h) ==
  /\ pc[h] = "new"
  /\ IF disk.made
       THEN UNCHANGED disk /\ pc' = [pc EXCEPT ![h] = "failed"]
       ELSE disk' = [disk EXCEPT !.made = TRUE] /\ pc' = [pc EXCEPT ![h] = "made"]
  /\ UNCHANGED <<durable, memory, shown>>

SyncParent(h) ==
  /\ GoTo(h, "made", "init-lock")
  /\ durable' = [durable EXCEPT !.made = disk.made]
  /\ UNCHANGED <<disk, memory, shown>>

SyncParentFails(h) ==
  /\ GoTo(h, "made", "failed")
  /\ UNCHANGED <<disk, durable, memory, shown>>

InitAcquireLock(h) == pc[h] = "init-lock" /\ AcquireLock(h, "init-locked")

InitRename(h) ==
  /\ disk.lock = h
  /\ GoTo(h, "init-write", "init-sync")
  /\ disk' = [disk EXCEPT !.store = <<>>]
  /\ UNCHANGED <<durable, memory, shown>>

InitSync(h) ==
  /\ GoTo(h, "init-sync", "init-commit")
  /\ SyncDirectory
  /\ UNCHANGED <<disk, memory, shown>>

InitCommit(h) ==
  /\ disk.lock = h
  /\ GoTo(h, "init-commit", "ready")
  /\ Ready(h, <<>>)
  /\ UNCHANGED <<disk, durable>>

(* A failed write or sync, or a lock that is no longer the handle's. *)
InitFails(h) ==
  /\ \/ pc[h] \in {"init-write", "init-sync"}
     \/ pc[h] = "init-commit" /\ disk.lock # h
  /\ pc' = [pc EXCEPT ![h] = "aborting"]
  /\ UNCHANGED <<disk, durable, memory, shown>>

(* open: the lock, then the document, replayed from the initial state. *)
Open(h) ==
  /\ pc[h] = "new"
  /\ AcquireLock(h, "open-locked")

OpenRead(h) ==
  /\ disk.store # None
  /\ GoTo(h, "open-read", "ready")
  /\ Ready(h, disk.store)
  /\ UNCHANGED <<disk, durable>>

OpenFails(h) ==
  /\ disk.store = None
  /\ GoTo(h, "open-read", "aborting")
  /\ UNCHANGED <<disk, durable, memory, shown>>

-----------------------------------------------------------------------------
(* append: appends are queued, and run one at a time.                      *)

(* A caller has the head it expects from an earlier answer of some handle. *)
Submit(h, r) ==
  /\ pc[h] = "ready"
  /\ r.expected \in shown
  /\ ~closing[h]
  /\ ~poisoned[h]
  /\ Len(queue[h]) < MaxQueue
  /\ queue' = [queue EXCEPT ![h] = Append(@, r)]
  /\ UNCHANGED <<disk, durable, pc, closing, poisoned, mem, job, shown>>

(* The head of the queue, when the handle is free to run it. *)
CanRun(h) == pc[h] = "ready" /\ Idle(h) /\ queue[h] # <<>>

Pop(h) == queue' = [queue EXCEPT ![h] = Tail(@)]

(* Poison the handle and let its append fail. *)
Poison(h) ==
  /\ poisoned' = [poisoned EXCEPT ![h] = TRUE]
  /\ job' = [job EXCEPT ![h] = None]

(* Fault: a rejected append stays at the head of the promise chain. *)
RejectStuck(h) ==
  /\ CanRun(h)
  /\ poisoned[h] \/ disk.lock = h
  /\ UNCHANGED <<disk, durable, pc, closing, poisoned, mem, queue, job, shown>>

(* An append refused: by the poison, for a stale head, by the swap state   *)
(* machine or by a limit.                                                  *)
Reject(h) ==
  /\ CanRun(h)
  /\ poisoned[h] \/ disk.lock = h
  /\ Pop(h)
  /\ UNCHANGED <<disk, durable, pc, closing, poisoned, mem, job, shown>>

LockLost(h) ==
  /\ CanRun(h)
  /\ ~poisoned[h] /\ disk.lock # h
  /\ Pop(h)
  /\ Poison(h)
  /\ UNCHANGED <<disk, durable, pc, closing, mem, shown>>

(* The journal knows the event: the receipt is returned, nothing written. *)
Duplicate(h) ==
  /\ CanRun(h)
  /\ ~poisoned[h] /\ disk.lock = h
  /\ Head(queue[h]).expected = mem[h]
  /\ Head(queue[h]).event \in ToSet(mem[h])
  /\ Pop(h)
  /\ shown' = shown \cup {mem[h]}
  /\ UNCHANGED <<disk, durable, pc, closing, poisoned, mem, job>>

Begin(h) ==
  /\ CanRun(h)
  /\ ~poisoned[h] /\ disk.lock = h
  /\ Head(queue[h]).expected = mem[h]
  /\ Head(queue[h]).event \notin ToSet(mem[h])
  /\ Len(mem[h]) < MaxEvents
  /\ Pop(h)
  /\ job' = [job EXCEPT ![h] = [stage |-> "check", next |-> Append(mem[h], Head(queue[h]).event)]]
  /\ UNCHANGED <<disk, durable, pc, closing, poisoned, mem, shown>>

At(h, stage) == ~Idle(h) /\ job[h].stage = stage
Advance(h, stage) == job' = [job EXCEPT ![h].stage = stage]

Recheck(h) ==
  /\ At(h, "check")
  /\ disk.lock = h
  /\ Advance(h, "write")
  /\ UNCHANGED <<disk, durable, pc, closing, poisoned, mem, queue, shown>>

(* Fault: the directory is not synced after the rename. *)
RenameUnsynced(h) ==
  /\ At(h, "write")
  /\ disk' = [disk EXCEPT !.store = job[h].next]
  /\ Advance(h, "commit")
  /\ UNCHANGED <<durable, pc, closing, poisoned, mem, queue, shown>>

Rename(h) ==
  /\ At(h, "write")
  /\ disk' = [disk EXCEPT !.store = job[h].next]
  /\ Advance(h, "sync")
  /\ UNCHANGED <<durable, pc, closing, poisoned, mem, queue, shown>>

SyncRename(h) ==
  /\ At(h, "sync")
  /\ SyncDirectory
  /\ Advance(h, "commit")
  /\ UNCHANGED <<disk, pc, closing, poisoned, mem, queue, shown>>

(* Fault: a failed write fails its append only. *)
WriteFailsUnpoisoned(h) ==
  /\ At(h, "write") \/ At(h, "sync")
  /\ job' = [job EXCEPT ![h] = None]
  /\ UNCHANGED <<disk, durable, pc, closing, poisoned, mem, queue, shown>>

(* The write failed before the rename or after it: either way uncertain. *)
WriteFails(h) ==
  /\ At(h, "write") \/ At(h, "sync")
  /\ Poison(h)
  /\ UNCHANGED <<disk, durable, pc, closing, mem, queue, shown>>

LockLostInFlight(h) ==
  /\ At(h, "check") \/ At(h, "commit")
  /\ disk.lock # h
  /\ Poison(h)
  /\ UNCHANGED <<disk, durable, pc, closing, mem, queue, shown>>

Commit(h) ==
  /\ At(h, "commit")
  /\ disk.lock = h
  /\ mem' = [mem EXCEPT ![h] = job[h].next]
  /\ shown' = shown \cup {job[h].next}
  /\ job' = [job EXCEPT ![h] = None]
  /\ UNCHANGED <<disk, durable, pc, closing, poisoned, queue>>

Close(h) ==
  /\ pc[h] = "ready"
  /\ ~closing[h]
  /\ closing' = [closing EXCEPT ![h] = TRUE]
  /\ UNCHANGED <<disk, durable, pc, poisoned, mem, queue, job, shown>>

-----------------------------------------------------------------------------
(* Crashes, and the operator.                                              *)

Forget(S) ==
  /\ pc' = [h \in Handles |-> IF h \in S THEN "dead" ELSE pc[h]]
  /\ queue' = [h \in Handles |-> IF h \in S THEN <<>> ELSE queue[h]]
  /\ job' = [h \in Handles |-> IF h \in S THEN None ELSE job[h]]
  /\ UNCHANGED <<closing, poisoned, mem, shown>>

(* A process dies; its lock file stays. *)
Crash(h) == Alive(h) /\ Forget({h}) /\ UNCHANGED <<disk, durable>>

(* The machine dies: each directory entry is the one processes saw or the  *)
(* one last synced.                                                        *)
MachineCrash ==
  /\ \E made \in {disk.made, durable.made}, store \in {disk.store, durable.store},
        lock \in {disk.lock, durable.lock} :
       disk' = IF made THEN [made |-> TRUE, store |-> store, lock |-> lock]
                       ELSE [made |-> FALSE, store |-> None, lock |-> None]
  /\ durable' = disk'
  /\ Forget({h \in Handles : Alive(h)})

(* The operator removes the lock file. *)
RecoverLock ==
  /\ disk.lock # None
  /\ careful => ~Alive(disk.lock)
  /\ disk' = [disk EXCEPT !.lock = None]
  /\ UNCHANGED <<durable, pc, memory, shown>>

-----------------------------------------------------------------------------
(* What a handle does by itself once it was called. *)
Work(h) ==
  /\ UNCHANGED careful
  /\ \/ SyncParent(h) \/ SyncParentFails(h) \/ InitAcquireLock(h)
     \/ SyncLock(h) \/ SyncLockFails(h)
     \/ InitRename(h) \/ InitSync(h) \/ InitCommit(h) \/ InitFails(h)
     \/ OpenRead(h) \/ OpenFails(h)
     \/ Reject(h) \/ LockLost(h) \/ Duplicate(h) \/ Begin(h)
     \/ Recheck(h) \/ Rename(h) \/ SyncRename(h) \/ WriteFails(h)
     \/ LockLostInFlight(h) \/ Commit(h)
     \/ ReleaseLock(h) \/ SyncRelease(h) \/ SyncReleaseFails(h)

StoreNext ==
  /\ UNCHANGED careful
  /\ \/ \E h \in Handles :
          \/ Initialize(h) \/ Open(h) \/ Close(h) \/ Crash(h)
          \/ \E r \in Requests : Submit(h, r)
          \/ Work(h)
     \/ MachineCrash
     \/ RecoverLock

(* Callers may stop calling at any time; a promise chain that was started  *)
(* runs on.                                                                *)
StoreSpec ==
  /\ StoreInit
  /\ [][StoreNext]_storeVars
  /\ \A h \in Handles : WF_storeVars(Work(h))

-----------------------------------------------------------------------------
Directory == [made : BOOLEAN, store : Logs \cup {None}, lock : Handles \cup {None}]

(* Types of all the variables. *)
StoreTypeOK ==
  /\ careful \in BOOLEAN
  /\ disk \in Directory /\ durable \in Directory
  /\ pc \in [Handles -> Gone \cup
       {"made", "init-lock", "init-locked", "init-write", "init-sync", "init-commit",
        "open-locked", "open-read", "ready", "aborting", "unlinked", "abort-unlinked"}]
  /\ closing \in [Handles -> BOOLEAN]
  /\ poisoned \in [Handles -> BOOLEAN]
  /\ mem \in [Handles -> Logs]
  /\ queue \in [Handles -> Seq(Requests)]
  /\ job \in [Handles -> {None} \cup [stage : {"check", "write", "sync", "commit"}, next : Logs]]
  /\ shown \subseteq Logs

(* The store implements a durable log: what any caller was shown, by an    *)
(* append, by open or by a duplicate's receipt, is found by every later    *)
(* reader, and acknowledged appends extend one another.  The log is the    *)
(* document a reader would find, and empty before there is one.  Nothing   *)
(* is promised to an operator who removes the lock of a live handle.       *)
Log == INSTANCE DurableLog WITH
  log <- IF disk.store = None \/ ~careful THEN <<>> ELSE disk.store,
  shown <- IF careful THEN shown ELSE {}
StoreIsDurableLog == Log!LogSpec

(* An open handle that is neither poisoned nor in the middle of an append  *)
(* holds in memory exactly what the file holds, durably: the next append's *)
(* head check stands on it (persistent-store.ts:628-632).                  *)
HandleMatchesFile ==
  \A h \in Handles :
    careful /\ pc[h] = "ready" /\ ~poisoned[h] /\ Idle(h) =>
      mem[h] = disk.store /\ mem[h] = durable.store

(* The store keeps its promise to callers and to itself: the log callers   *)
(* see is durable and only grows, and a handle free to append has the      *)
(* file's log in memory (docs/runbooks/swap-coordinator-storage.md).       *)
StoreKeepsPromise == StoreIsDurableLog /\ [](StoreTypeOK /\ HandleMatchesFile)

(* However its appends end, and whatever the operator does with the lock,  *)
(* a handle that was told to close gets there: no failed append blocks the *)
(* promise chain that close waits for (persistent-store.ts:616,687).       *)
ClosingEnds == \A h \in Handles : closing[h] ~> ~Alive(h)

=============================================================================
