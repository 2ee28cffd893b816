-------------------------- MODULE SwapStoreProofs ---------------------------
(***************************************************************************)
(* The coordinator's store keeps its promise: it implements DurableLog,    *)
(* and a handle that may append has the file's log in memory.              *)
(* The invariant says who may touch the directory - the holder of the lock *)
(* and the one initializer - and how memory, the directory as processes    *)
(* see it, its synced state and what callers were shown relate at each     *)
(* stage of open, initialize and append.                                   *)
(***************************************************************************)
EXTENDS SwapStore, Lemmas

-----------------------------------------------------------------------------
(* The logs of the store. *)

LEMMA LogsAreSequences == \A s \in Logs : s \in Seq(Events) /\ Len(s) <= MaxEvents
<1>. SUFFICES ASSUME NEW s \in Logs PROVE s \in Seq(Events) /\ Len(s) <= MaxEvents
  OBVIOUS
<1>1. PICK m \in 0 .. MaxEvents : s \in [1 .. m -> Events]
  BY DEF Logs, SeqOf
<1>2. m \in Nat /\ m <= MaxEvents
  BY StoreConstants
<1>. QED  BY <1>1, <1>2

LEMMA EmptyIsLog == <<>> \in Logs
<1>1. <<>> \in [1 .. 0 -> Events]
  OBVIOUS
<1>2. 0 \in 0 .. MaxEvents
  BY StoreConstants
<1>3. <<>> \in SeqOf(Events, MaxEvents)
  BY <1>1, <1>2 DEF SeqOf
<1>. QED  BY <1>3 DEF Logs, IsInjective

LEMMA AppendIsLog ==
  ASSUME NEW s \in Logs, NEW e \in Events, e \notin ToSet(s), Len(s) < MaxEvents
  PROVE  Append(s, e) \in Logs
<1>. DEFINE a == Append(s, e)
            n == Len(s)
<1>1. s \in Seq(Events) /\ n \in Nat
  BY LogsAreSequences
<1>2. /\ a \in Seq(Events) /\ Len(a) = n + 1
      /\ \A i \in 1 .. n : a[i] = s[i]
      /\ a[n + 1] = e
  BY <1>1, AppendProperties
<1>3. a \in [1 .. n + 1 -> Events] /\ n + 1 \in 0 .. MaxEvents
  <2>1. a \in [1 .. Len(a) -> Events]
    BY <1>2, LenProperties
  <2>2. n + 1 \in 0 .. MaxEvents
    BY <1>1, StoreConstants
  <2>. QED  BY <1>2, <2>1, <2>2
<1>4. a \in SeqOf(Events, MaxEvents)
  BY <1>3 DEF SeqOf
<1>5. \A i, j \in 1 .. n : s[i] = s[j] => i = j
  BY <1>1 DEF Logs, IsInjective
<1>6. \A i \in 1 .. n : s[i] # e
  BY <1>1 DEF ToSet
<1>7. ASSUME NEW i \in 1 .. n + 1, NEW j \in 1 .. n + 1, a[i] = a[j] PROVE i = j
  <2>. HIDE DEF a, n
  <2>1. CASE i \in 1 .. n /\ j \in 1 .. n
    BY <1>2, <1>5, <1>7, <2>1
  <2>2. CASE i = n + 1 \/ j = n + 1
    BY <1>1, <1>2, <1>6, <1>7, <2>2
  <2>. QED  BY <1>1, <2>1, <2>2
<1>8. IsInjective(a)
  <2>. HIDE DEF a
  <2>1. DOMAIN a = 1 .. n + 1
    BY <1>3
  <2>. QED  BY <1>7, <2>1 DEF IsInjective
<1>. QED  BY <1>4, <1>8 DEF Logs

LEMMA PrefixLaws ==
  /\ \A s \in Logs : IsPrefix(s, s) /\ IsPrefix(<<>>, s)
  /\ \A s, t, u \in Logs : IsPrefix(s, t) /\ IsPrefix(t, u) => IsPrefix(s, u)
  /\ \A s \in Logs, e \in Events : IsPrefix(s, Append(s, e))
BY LogsAreSequences, PrefixReflexive, EmptyIsPrefix, PrefixTransitive, PrefixOfAppend

LEMMA NoneIsNoLog == None \notin Logs /\ None \notin Handles
BY LogsAreSequences, StoreConstants

LEMMA NoneIsNoJob ==
  \A stage \in {"check", "write", "sync", "commit"}, next \in Logs :
    [stage |-> stage, next |-> next] # None
BY LogsAreSequences, StoreConstants

-----------------------------------------------------------------------------
(* Types. *)

(* The steps of the store, one disjunct per operation.                     *)
LEMMA StoreStepCases ==
  ASSUME StoreNext
  PROVE  \/ \E h \in Handles :
              \/ Initialize(h) \/ SyncParent(h) \/ SyncParentFails(h) \/ InitAcquireLock(h)
              \/ SyncLock(h) \/ SyncLockFails(h)
              \/ InitRename(h) \/ InitSync(h) \/ InitCommit(h) \/ InitFails(h)
              \/ Open(h) \/ OpenRead(h) \/ OpenFails(h)
              \/ Reject(h) \/ LockLost(h) \/ Duplicate(h) \/ Begin(h)
              \/ Recheck(h) \/ Rename(h) \/ SyncRename(h) \/ WriteFails(h)
              \/ LockLostInFlight(h) \/ Commit(h)
              \/ Close(h) \/ ReleaseLock(h) \/ SyncRelease(h) \/ SyncReleaseFails(h)
              \/ Crash(h)
              \/ \E r \in Requests : Submit(h, r)
         \/ MachineCrash
         \/ RecoverLock
BY DEF StoreNext, Work

LEMMA CarefulIsFixed == ASSUME [StoreNext]_storeVars PROVE careful' = careful
BY DEF StoreNext, storeVars

(* The store's variables hold values of their types.                       *)
LEMMA StoreTypeInit == StoreInit => StoreTypeOK
BY EmptyIsLog DEF StoreInit, StoreTypeOK, Directory, Gone, Logs

LEMMA StoreTypeKept ==
  ASSUME StoreTypeOK, [StoreNext]_storeVars
  PROVE  StoreTypeOK'
<1>. USE CarefulIsFixed DEF StoreTypeOK, memory
<1>1. ASSUME NEW h \in Handles, Initialize(h) PROVE StoreTypeOK'
  BY <1>1 DEF Initialize, Directory, Gone
<1>2. ASSUME NEW h \in Handles, SyncParent(h) PROVE StoreTypeOK'
  BY <1>2 DEF SyncParent, GoTo, Directory
<1>3. ASSUME NEW h \in Handles, SyncParentFails(h) PROVE StoreTypeOK'
  BY <1>3 DEF SyncParentFails, GoTo, Gone
<1>4. ASSUME NEW h \in Handles, InitAcquireLock(h) PROVE StoreTypeOK'
  BY <1>4 DEF InitAcquireLock, AcquireLock, Directory, Gone
<1>5. ASSUME NEW h \in Handles, SyncLock(h) PROVE StoreTypeOK'
  BY <1>5 DEF SyncLock, GoTo, SyncDirectory, Directory
<1>6. ASSUME NEW h \in Handles, SyncLockFails(h) PROVE StoreTypeOK'
  BY <1>6 DEF SyncLockFails, Gone
<1>7. ASSUME NEW h \in Handles, InitRename(h) PROVE StoreTypeOK'
  BY <1>7, EmptyIsLog DEF InitRename, GoTo, Directory
<1>8. ASSUME NEW h \in Handles, InitSync(h) PROVE StoreTypeOK'
  BY <1>8 DEF InitSync, GoTo, SyncDirectory, Directory
<1>9. ASSUME NEW h \in Handles, InitCommit(h) PROVE StoreTypeOK'
  BY <1>9, EmptyIsLog DEF InitCommit, GoTo, Ready
<1>10. ASSUME NEW h \in Handles, InitFails(h) PROVE StoreTypeOK'
  BY <1>10 DEF InitFails
<1>11. ASSUME NEW h \in Handles, Open(h) PROVE StoreTypeOK'
  BY <1>11 DEF Open, AcquireLock, Directory, Gone
<1>12. ASSUME NEW h \in Handles, OpenRead(h) PROVE StoreTypeOK'
  BY <1>12 DEF OpenRead, GoTo, Ready, Directory
<1>13. ASSUME NEW h \in Handles, OpenFails(h) PROVE StoreTypeOK'
  BY <1>13 DEF OpenFails, GoTo
<1>14. ASSUME NEW h \in Handles, NEW r \in Requests, Submit(h, r) PROVE StoreTypeOK'
  BY <1>14, AppendProperties DEF Submit
<1>15. ASSUME NEW h \in Handles, CanRun(h), Pop(h) PROVE queue' \in [Handles -> Seq(Requests)]
  <2>1. Tail(queue[h]) \in Seq(Requests)
    BY <1>15, HeadTailProperties DEF CanRun
  <2>. QED  BY <1>15, <2>1 DEF Pop
<1>16. ASSUME NEW h \in Handles, Reject(h) PROVE StoreTypeOK'
  BY <1>16, <1>15 DEF Reject
<1>17. ASSUME NEW h \in Handles, LockLost(h) PROVE StoreTypeOK'
  BY <1>17, <1>15 DEF LockLost, Poison
<1>18. ASSUME NEW h \in Handles, Duplicate(h) PROVE StoreTypeOK'
  BY <1>18, <1>15 DEF Duplicate
<1>19. ASSUME NEW h \in Handles, Begin(h) PROVE StoreTypeOK'
  <2>1. Head(queue[h]) \in Requests
    BY <1>19, HeadTailProperties DEF Begin, CanRun
  <2>2. Append(mem[h], Head(queue[h]).event) \in Logs
    BY <1>19, <2>1, AppendIsLog DEF Begin, Requests
  <2>. QED  BY <1>19, <1>15, <2>2 DEF Begin
<1>20. ASSUME NEW h \in Handles, Recheck(h) PROVE StoreTypeOK'
  BY <1>20 DEF Recheck, At, Idle, Advance
<1>21. ASSUME NEW h \in Handles, Rename(h) PROVE StoreTypeOK'
  BY <1>21 DEF Rename, At, Idle, Advance, Directory
<1>22. ASSUME NEW h \in Handles, SyncRename(h) PROVE StoreTypeOK'
  BY <1>22 DEF SyncRename, At, Idle, Advance, SyncDirectory, Directory
<1>23. ASSUME NEW h \in Handles, WriteFails(h) PROVE StoreTypeOK'
  BY <1>23 DEF WriteFails, Poison
<1>24. ASSUME NEW h \in Handles, LockLostInFlight(h) PROVE StoreTypeOK'
  BY <1>24 DEF LockLostInFlight, Poison
<1>25. ASSUME NEW h \in Handles, Commit(h) PROVE StoreTypeOK'
  BY <1>25 DEF Commit, At, Idle
<1>26. ASSUME NEW h \in Handles, Close(h) PROVE StoreTypeOK'
  BY <1>26 DEF Close
<1>27. ASSUME NEW h \in Handles, ReleaseLock(h) PROVE StoreTypeOK'
  BY <1>27 DEF ReleaseLock, Directory, Gone
<1>28. ASSUME NEW h \in Handles, SyncRelease(h) PROVE StoreTypeOK'
  BY <1>28 DEF SyncRelease, GoTo, SyncDirectory, Directory, Gone
<1>29. ASSUME NEW h \in Handles, SyncReleaseFails(h) PROVE StoreTypeOK'
  BY <1>29 DEF SyncReleaseFails, Gone
<1>30. ASSUME NEW S, Forget(S) PROVE /\ pc' \in [Handles -> {pc[h] : h \in Handles} \cup {"dead"}]
                                    /\ queue' \in [Handles -> Seq(Requests)]
                                    /\ job' \in [Handles -> {job[h] : h \in Handles} \cup {None}]
  BY <1>30 DEF Forget
<1>31. ASSUME NEW h \in Handles, Crash(h) PROVE StoreTypeOK'
  BY <1>31, <1>30 DEF Crash, Forget, Gone
<1>32. ASSUME MachineCrash PROVE StoreTypeOK'
  <2>1. disk' \in Directory /\ durable' \in Directory
    BY <1>32 DEF MachineCrash, Directory
  <2>. QED  BY <1>32, <2>1, <1>30 DEF MachineCrash, Forget, Gone
<1>33. ASSUME RecoverLock PROVE StoreTypeOK'
  BY <1>33 DEF RecoverLock, Directory
<1>34. CASE UNCHANGED storeVars
  BY <1>34 DEF storeVars
<1>. QED
  BY <1>1, <1>2, <1>3, <1>4, <1>5, <1>6, <1>7, <1>8, <1>9, <1>10, <1>11, <1>12, <1>13, <1>14,
     <1>16, <1>17, <1>18, <1>19, <1>20, <1>21, <1>22, <1>23, <1>24, <1>25, <1>26, <1>27, <1>28,
     <1>29, <1>31, <1>32, <1>33, <1>34, StoreStepCases

-----------------------------------------------------------------------------
(* The inductive invariant. *)

(* The places where a handle owns the lock file.                           *)
Holding == {"init-locked", "init-write", "init-sync", "init-commit",
            "open-locked", "open-read", "ready", "aborting"}

(* The places of initialize after its mkdir, and those before its rename.  *)
BeforeStore == {"made", "init-lock", "init-locked", "init-write"}
Initializing == BeforeStore \cup {"init-sync", "init-commit"}

(* Whatever the operator does: an append in flight is that of an open,     *)
(* unpoisoned handle, and a process stands in a directory that exists.     *)
ProcessesSound ==
  /\ \A h \in Handles : ~Idle(h) => pc[h] = "ready" /\ ~poisoned[h]
  /\ \A h \in Handles : Alive(h) => disk.made
  /\ ~disk.made => disk.store = None

(* One holder of the lock, one initializer, and no document before its.    *)
OwnersAlone ==
  /\ \A h \in Handles : pc[h] \in Holding => disk.lock = h
  /\ \A g, h \in Handles : pc[g] \in Initializing /\ pc[h] \in Initializing => g = h
  /\ \A h \in Handles : pc[h] \in BeforeStore => disk.store = None
  /\ \A h \in Handles : pc[h] \in Initializing \ {"made"} => durable.made

(* What was shown is synced, and what is synced is read.                   *)
LogsNested ==
  /\ disk.store # None => disk.made /\ durable.made
  /\ durable.store # None => disk.store # None /\ IsPrefix(durable.store, disk.store)
  /\ \A s \in shown : durable.store # None /\ IsPrefix(s, durable.store)

(* Memory, file and synced file at each stage.                             *)
StagesSound ==
  \A h \in Handles :
    /\ pc[h] \in {"init-sync", "init-commit"} => disk.store = <<>>
    /\ pc[h] = "init-commit" => durable.store = <<>>
    /\ pc[h] = "open-read" => durable.store = disk.store
    /\ pc[h] = "ready" /\ ~poisoned[h] /\ (Idle(h) \/ job[h].stage \in {"check", "write"}) =>
         mem[h] = disk.store /\ mem[h] = durable.store
    /\ ~Idle(h) /\ job[h].stage \in {"check", "write"} =>
         \E e \in Events : job[h].next = Append(mem[h], e)
    /\ ~Idle(h) /\ job[h].stage \in {"sync", "commit"} => disk.store = job[h].next
    /\ ~Idle(h) /\ job[h].stage = "commit" => durable.store = job[h].next

StoreIndInv ==
  /\ StoreTypeOK
  /\ ProcessesSound
  /\ careful => OwnersAlone /\ LogsNested /\ StagesSound

(***************************************************************************)
(* Each operation keeps each part.                                         *)
(***************************************************************************)
LEMMA ProcessesKept ==
  ASSUME StoreTypeOK, ProcessesSound, [StoreNext]_storeVars
  PROVE  ProcessesSound'
<1>. USE DEF StoreTypeOK, ProcessesSound, Alive, Gone, Idle, memory, Directory
<1>1. ASSUME NEW h \in Handles, Initialize(h) PROVE ProcessesSound'
  BY <1>1 DEF Initialize
<1>2. ASSUME NEW h \in Handles, SyncParent(h) PROVE ProcessesSound'
  BY <1>2 DEF SyncParent, GoTo
<1>3. ASSUME NEW h \in Handles, SyncParentFails(h) PROVE ProcessesSound'
  BY <1>3 DEF SyncParentFails, GoTo
<1>4. ASSUME NEW h \in Handles, InitAcquireLock(h) PROVE ProcessesSound'
  BY <1>4 DEF InitAcquireLock, AcquireLock
<1>5. ASSUME NEW h \in Handles, SyncLock(h) PROVE ProcessesSound'
  BY <1>5 DEF SyncLock, GoTo, SyncDirectory
<1>6. ASSUME NEW h \in Handles, SyncLockFails(h) PROVE ProcessesSound'
  BY <1>6 DEF SyncLockFails
<1>7. ASSUME NEW h \in Handles, InitRename(h) PROVE ProcessesSound'
  BY <1>7 DEF InitRename, GoTo
<1>8. ASSUME NEW h \in Handles, InitSync(h) PROVE ProcessesSound'
  BY <1>8 DEF InitSync, GoTo, SyncDirectory
<1>9. ASSUME NEW h \in Handles, InitCommit(h) PROVE ProcessesSound'
  BY <1>9 DEF InitCommit, GoTo, Ready
<1>10. ASSUME NEW h \in Handles, InitFails(h) PROVE ProcessesSound'
  BY <1>10 DEF InitFails
<1>11. ASSUME NEW h \in Handles, Open(h) PROVE ProcessesSound'
  BY <1>11 DEF Open, AcquireLock
<1>12. ASSUME NEW h \in Handles, OpenRead(h) PROVE ProcessesSound'
  BY <1>12 DEF OpenRead, GoTo, Ready
<1>13. ASSUME NEW h \in Handles, OpenFails(h) PROVE ProcessesSound'
  BY <1>13 DEF OpenFails, GoTo
<1>14. ASSUME NEW h \in Handles, Reject(h) PROVE ProcessesSound'
  BY <1>14 DEF Reject
<1>15. ASSUME NEW h \in Handles, LockLost(h) PROVE ProcessesSound'
  BY <1>15 DEF LockLost, Poison
<1>16. ASSUME NEW h \in Handles, Duplicate(h) PROVE ProcessesSound'
  BY <1>16 DEF Duplicate
<1>17. ASSUME NEW h \in Handles, Begin(h) PROVE ProcessesSound'
  BY <1>17 DEF Begin, CanRun
<1>18. ASSUME NEW h \in Handles, Recheck(h) PROVE ProcessesSound'
  BY <1>18 DEF Recheck, At, Advance
<1>19. ASSUME NEW h \in Handles, Rename(h) PROVE ProcessesSound'
  BY <1>19 DEF Rename, At, Advance
<1>20. ASSUME NEW h \in Handles, SyncRename(h) PROVE ProcessesSound'
  BY <1>20 DEF SyncRename, At, Advance, SyncDirectory
<1>21. ASSUME NEW h \in Handles, WriteFails(h) PROVE ProcessesSound'
  BY <1>21 DEF WriteFails, Poison, At
<1>22. ASSUME NEW h \in Handles, LockLostInFlight(h) PROVE ProcessesSound'
  BY <1>22 DEF LockLostInFlight, Poison, At
<1>23. ASSUME NEW h \in Handles, Commit(h) PROVE ProcessesSound'
  BY <1>23 DEF Commit, At
<1>24. ASSUME NEW h \in Handles, Close(h) PROVE ProcessesSound'
  BY <1>24 DEF Close
<1>25. ASSUME NEW h \in Handles, ReleaseLock(h) PROVE ProcessesSound'
  BY <1>25 DEF ReleaseLock
<1>26. ASSUME NEW h \in Handles, SyncRelease(h) PROVE ProcessesSound'
  BY <1>26 DEF SyncRelease, GoTo, SyncDirectory
<1>27. ASSUME NEW h \in Handles, SyncReleaseFails(h) PROVE ProcessesSound'
  BY <1>27 DEF SyncReleaseFails
<1>28. ASSUME NEW h \in Handles, Crash(h) PROVE ProcessesSound'
  BY <1>28 DEF Crash, Forget
<1>29. ASSUME NEW h \in Handles, NEW r \in Requests, Submit(h, r) PROVE ProcessesSound'
  BY <1>29 DEF Submit
<1>30. ASSUME MachineCrash PROVE ProcessesSound'
  BY <1>30 DEF MachineCrash, Forget
<1>31. ASSUME RecoverLock PROVE ProcessesSound'
  BY <1>31 DEF RecoverLock
<1>32. CASE UNCHANGED storeVars
  BY <1>32 DEF storeVars
<1>. QED
  BY <1>1, <1>2, <1>3, <1>4, <1>5, <1>6, <1>7, <1>8, <1>9, <1>10, <1>11, <1>12, <1>13,
     <1>14, <1>15, <1>16, <1>17, <1>18, <1>19, <1>20, <1>21, <1>22, <1>23, <1>24, <1>25,
     <1>26, <1>27, <1>28, <1>29, <1>30, <1>31, <1>32, StoreStepCases

LEMMA OwnersKept ==
  ASSUME careful, StoreTypeOK, ProcessesSound, OwnersAlone, LogsNested, StagesSound,
         [StoreNext]_storeVars
  PROVE  OwnersAlone'
<1>. USE NoneIsNoLog DEF StoreTypeOK, ProcessesSound, OwnersAlone, LogsNested,
                         Alive, Gone, Idle, memory, Holding, BeforeStore, Initializing, Directory
<1>1. ASSUME NEW h \in Handles, Initialize(h) PROVE OwnersAlone'
  <2>1. CASE disk.made
    <3>1. pc' = [pc EXCEPT ![h] = "failed"] /\ UNCHANGED <<disk, durable>>
      BY <1>1, <2>1 DEF Initialize
    <3>. QED  BY <3>1
  <2>2. CASE ~disk.made
    <3>1. /\ disk' = [disk EXCEPT !.made = TRUE] /\ pc' = [pc EXCEPT ![h] = "made"]
          /\ UNCHANGED durable /\ disk.store = None
      BY <1>1, <2>2 DEF Initialize
    <3>2. \A g \in Handles : pc[g] \notin Holding \cup Initializing
      BY <2>2
    <3>. QED  BY <3>1, <3>2
  <2>. QED  BY <2>1, <2>2
<1>2. ASSUME NEW h \in Handles, SyncParent(h) PROVE OwnersAlone'
  <2>1. \A g \in Handles : pc'[g] \in Holding => disk'.lock = g
    BY <1>2 DEF SyncParent, GoTo
  <2>2. \A f, g \in Handles : pc'[f] \in Initializing /\ pc'[g] \in Initializing => f = g
    BY <1>2 DEF SyncParent, GoTo
  <2>3. \A g \in Handles : pc'[g] \in BeforeStore => disk'.store = None
    BY <1>2 DEF SyncParent, GoTo
  <2>4. \A g \in Handles : pc'[g] \in Initializing \ {"made"} => durable'.made
    BY <1>2 DEF SyncParent, GoTo
  <2>. QED  BY <2>1, <2>2, <2>3, <2>4
<1>3. ASSUME NEW h \in Handles, SyncParentFails(h) PROVE OwnersAlone'
  BY <1>3 DEF SyncParentFails, GoTo
<1>4. ASSUME NEW h \in Handles, InitAcquireLock(h) PROVE OwnersAlone'
  <2>1. \A g \in Handles : pc'[g] \in Holding => disk'.lock = g
    BY <1>4 DEF InitAcquireLock, AcquireLock
  <2>2. \A f, g \in Handles : pc'[f] \in Initializing /\ pc'[g] \in Initializing => f = g
    BY <1>4 DEF InitAcquireLock, AcquireLock
  <2>3. \A g \in Handles : pc'[g] \in BeforeStore => disk'.store = None
    BY <1>4 DEF InitAcquireLock, AcquireLock
  <2>4. \A g \in Handles : pc'[g] \in Initializing \ {"made"} => durable'.made
    BY <1>4 DEF InitAcquireLock, AcquireLock
  <2>. QED  BY <2>1, <2>2, <2>3, <2>4
<1>5. ASSUME NEW h \in Handles, SyncLock(h) PROVE OwnersAlone'
  <2>1. \A g \in Handles : pc'[g] \in Holding => disk'.lock = g
    BY <1>5 DEF SyncLock, GoTo, SyncDirectory
  <2>2. \A f, g \in Handles : pc'[f] \in Initializing /\ pc'[g] \in Initializing => f = g
    <3>1. \A g \in Handles : pc'[g] \in Initializing => pc[g] \in Initializing
      BY <1>5 DEF SyncLock, GoTo
    <3>2. \A f, g \in Handles : pc[f] \in Initializing /\ pc[g] \in Initializing => f = g
      OBVIOUS
    <3>. HIDE DEF Initializing
    <3>. QED  BY <3>1, <3>2, Zenon
  <2>3. \A g \in Handles : pc'[g] \in BeforeStore => disk'.store = None
    BY <1>5 DEF SyncLock, GoTo, SyncDirectory
  <2>4. \A g \in Handles : pc'[g] \in Initializing \ {"made"} => durable'.made
    BY <1>5 DEF SyncLock, GoTo, SyncDirectory
  <2>. QED  BY <2>1, <2>2, <2>3, <2>4
<1>6. ASSUME NEW h \in Handles, SyncLockFails(h) PROVE OwnersAlone'
  BY <1>6 DEF SyncLockFails
<1>7. ASSUME NEW h \in Handles, InitRename(h) PROVE OwnersAlone'
  BY <1>7 DEF InitRename, GoTo
<1>8. ASSUME NEW h \in Handles, InitSync(h) PROVE OwnersAlone'
  BY <1>8 DEF InitSync, GoTo, SyncDirectory
<1>9. ASSUME NEW h \in Handles, InitCommit(h) PROVE OwnersAlone'
  BY <1>9 DEF InitCommit, GoTo, Ready
<1>10. ASSUME NEW h \in Handles, InitFails(h) PROVE OwnersAlone'
  BY <1>10 DEF InitFails
<1>11. ASSUME NEW h \in Handles, Open(h) PROVE OwnersAlone'
  <2>1. /\ disk.made /\ pc[h] = "new" /\ UNCHANGED durable
        /\ disk' = IF disk.lock = None THEN [disk EXCEPT !.lock = h] ELSE disk
        /\ pc' = [pc EXCEPT ![h] = IF disk.lock = None THEN "open-locked" ELSE "failed"]
    BY <1>11 DEF Open, AcquireLock
  <2>. QED  BY <2>1
<1>12. ASSUME NEW h \in Handles, OpenRead(h) PROVE OwnersAlone'
  BY <1>12 DEF OpenRead, GoTo, Ready
<1>13. ASSUME NEW h \in Handles, OpenFails(h) PROVE OwnersAlone'
  BY <1>13 DEF OpenFails, GoTo
<1>14. ASSUME NEW h \in Handles, Reject(h) PROVE OwnersAlone'
  BY <1>14 DEF Reject
<1>15. ASSUME NEW h \in Handles, LockLost(h) PROVE OwnersAlone'
  BY <1>15 DEF LockLost, Poison
<1>16. ASSUME NEW h \in Handles, Duplicate(h) PROVE OwnersAlone'
  BY <1>16 DEF Duplicate
<1>17. ASSUME NEW h \in Handles, Begin(h) PROVE OwnersAlone'
  BY <1>17 DEF Begin, CanRun
<1>18. ASSUME NEW h \in Handles, Recheck(h) PROVE OwnersAlone'
  BY <1>18 DEF Recheck, At, Advance
<1>19. ASSUME NEW h \in Handles, Rename(h) PROVE OwnersAlone'
  BY <1>19 DEF Rename, At, Advance, StagesSound
<1>20. ASSUME NEW h \in Handles, SyncRename(h) PROVE OwnersAlone'
  BY <1>20 DEF SyncRename, At, Advance, SyncDirectory
<1>21. ASSUME NEW h \in Handles, WriteFails(h) PROVE OwnersAlone'
  BY <1>21 DEF WriteFails, Poison, At
<1>22. ASSUME NEW h \in Handles, LockLostInFlight(h) PROVE OwnersAlone'
  BY <1>22 DEF LockLostInFlight, Poison, At
<1>23. ASSUME NEW h \in Handles, Commit(h) PROVE OwnersAlone'
  BY <1>23 DEF Commit, At
<1>24. ASSUME NEW h \in Handles, Close(h) PROVE OwnersAlone'
  BY <1>24 DEF Close
<1>25. ASSUME NEW h \in Handles, ReleaseLock(h) PROVE OwnersAlone'
  <2>1. CASE disk.lock = h
    <3>1. /\ pc[h] \in {"aborting", "ready"} /\ UNCHANGED durable
          /\ disk' = [disk EXCEPT !.lock = None]
          /\ \E to \in {"unlinked", "abort-unlinked"} : pc' = [pc EXCEPT ![h] = to]
      BY <1>25, <2>1 DEF ReleaseLock
    <3>2. \A g \in Handles : pc[g] \in Holding => g = h
      BY <2>1
    <3>. QED  BY <3>1, <3>2
  <2>2. CASE disk.lock # h
    BY <1>25, <2>2 DEF ReleaseLock
  <2>. QED  BY <2>1, <2>2
<1>26. ASSUME NEW h \in Handles, SyncRelease(h) PROVE OwnersAlone'
  <2>1. \A g \in Handles : pc'[g] \in Holding => disk'.lock = g
    BY <1>26 DEF SyncRelease, GoTo, SyncDirectory
  <2>2. \A f, g \in Handles : pc'[f] \in Initializing /\ pc'[g] \in Initializing => f = g
    BY <1>26 DEF SyncRelease, GoTo, SyncDirectory
  <2>3. \A g \in Handles : pc'[g] \in BeforeStore => disk'.store = None
    BY <1>26 DEF SyncRelease, GoTo, SyncDirectory
  <2>4. \A g \in Handles : pc'[g] \in Initializing \ {"made"} => durable'.made
    BY <1>26 DEF SyncRelease, GoTo, SyncDirectory
  <2>. QED  BY <2>1, <2>2, <2>3, <2>4
<1>27. ASSUME NEW h \in Handles, SyncReleaseFails(h) PROVE OwnersAlone'
  BY <1>27 DEF SyncReleaseFails
<1>28. ASSUME NEW h \in Handles, Crash(h) PROVE OwnersAlone'
  BY <1>28 DEF Crash, Forget
<1>29. ASSUME NEW h \in Handles, NEW r \in Requests, Submit(h, r) PROVE OwnersAlone'
  BY <1>29 DEF Submit
<1>30. ASSUME MachineCrash PROVE OwnersAlone'
  BY <1>30 DEF MachineCrash, Forget
<1>31. ASSUME RecoverLock PROVE OwnersAlone'
  BY <1>31 DEF RecoverLock
<1>32. CASE UNCHANGED storeVars
  BY <1>32 DEF storeVars
<1>. QED
  BY <1>1, <1>2, <1>3, <1>4, <1>5, <1>6, <1>7, <1>8, <1>9, <1>10, <1>11, <1>12, <1>13,
     <1>14, <1>15, <1>16, <1>17, <1>18, <1>19, <1>20, <1>21, <1>22, <1>23, <1>24, <1>25,
     <1>26, <1>27, <1>28, <1>29, <1>30, <1>31, <1>32, StoreStepCases

LEMMA NestedKept ==
  ASSUME careful, StoreTypeOK, ProcessesSound, OwnersAlone, LogsNested, StagesSound,
         [StoreNext]_storeVars
  PROVE  LogsNested'
<1>. USE NoneIsNoLog DEF StoreTypeOK, ProcessesSound, OwnersAlone, LogsNested, StagesSound,
                         Alive, Gone, Idle, memory, Holding, BeforeStore, Initializing, Directory
<1>sync. ASSUME SyncDirectory, UNCHANGED <<disk, shown>> PROVE LogsNested'
  <2>1. disk.store # None => durable'.store # None /\ IsPrefix(durable'.store, disk.store)
    BY <1>sync, PrefixLaws DEF SyncDirectory
  <2>2. ASSUME NEW s \in shown PROVE durable'.store # None /\ IsPrefix(s, durable'.store)
    <3>1. /\ s \in Logs /\ durable.store \in Logs /\ disk.store \in Logs
          /\ IsPrefix(s, durable.store) /\ IsPrefix(durable.store, disk.store)
      OBVIOUS
    <3>. QED  BY <1>sync, <3>1, PrefixLaws DEF SyncDirectory
  <2>. QED  BY <1>sync, <2>1, <2>2 DEF SyncDirectory
<1>kept. ASSUME durable' = durable, disk'.store = disk.store, disk'.made = disk.made,
                shown' \ shown \subseteq {durable.store} \ {None}
         PROVE  LogsNested'
  <2>1. ASSUME NEW s \in shown' PROVE durable.store # None /\ IsPrefix(s, durable.store)
    <3>1. s \in shown \/ (s = durable.store /\ s # None)
      BY <1>kept, <2>1
    <3>2. CASE s \in shown
      BY <3>2
    <3>3. CASE s = durable.store /\ s # None
      <4>1. durable.store \in Logs
        BY <3>3
      <4>. QED  BY <3>3, <4>1, PrefixLaws
    <3>. QED  BY <3>1, <3>2, <3>3
  <2>. QED  BY <1>kept, <2>1
<1>1. ASSUME NEW h \in Handles, Initialize(h) PROVE LogsNested'
  BY <1>1 DEF Initialize
<1>2. ASSUME NEW h \in Handles, SyncParent(h) PROVE LogsNested'
  BY <1>2 DEF SyncParent, GoTo
<1>3. ASSUME NEW h \in Handles, SyncParentFails(h) PROVE LogsNested'
  BY <1>3 DEF SyncParentFails, GoTo
<1>4. ASSUME NEW h \in Handles, InitAcquireLock(h) PROVE LogsNested'
  BY <1>4 DEF InitAcquireLock, AcquireLock
<1>5. ASSUME NEW h \in Handles, SyncLock(h) PROVE LogsNested'
  BY <1>5, <1>sync DEF SyncLock, GoTo, SyncDirectory
<1>6. ASSUME NEW h \in Handles, SyncLockFails(h) PROVE LogsNested'
  BY <1>6 DEF SyncLockFails
<1>7. ASSUME NEW h \in Handles, InitRename(h) PROVE LogsNested'
  BY <1>7 DEF InitRename, GoTo
<1>8. ASSUME NEW h \in Handles, InitSync(h) PROVE LogsNested'
  BY <1>8, <1>sync DEF InitSync, GoTo, SyncDirectory
<1>9. ASSUME NEW h \in Handles, InitCommit(h) PROVE LogsNested'
  <2>1. durable.store = <<>> /\ UNCHANGED <<disk, durable>> /\ shown' = shown \cup {<<>>}
    BY <1>9 DEF InitCommit, GoTo, Ready
  <2>. QED  BY <2>1, EmptyIsLog, <1>kept
<1>10. ASSUME NEW h \in Handles, InitFails(h) PROVE LogsNested'
  BY <1>10 DEF InitFails
<1>11. ASSUME NEW h \in Handles, Open(h) PROVE LogsNested'
  BY <1>11, <1>kept DEF Open, AcquireLock
<1>12. ASSUME NEW h \in Handles, OpenRead(h) PROVE LogsNested'
  BY <1>12 DEF OpenRead, GoTo, Ready
<1>13. ASSUME NEW h \in Handles, OpenFails(h) PROVE LogsNested'
  BY <1>13 DEF OpenFails, GoTo
<1>14. ASSUME NEW h \in Handles, Reject(h) PROVE LogsNested'
  BY <1>14 DEF Reject
<1>15. ASSUME NEW h \in Handles, LockLost(h) PROVE LogsNested'
  BY <1>15 DEF LockLost, Poison
<1>16. ASSUME NEW h \in Handles, Duplicate(h) PROVE LogsNested'
  BY <1>16, <1>kept DEF Duplicate, CanRun
<1>17. ASSUME NEW h \in Handles, Begin(h) PROVE LogsNested'
  BY <1>17 DEF Begin, CanRun
<1>18. ASSUME NEW h \in Handles, Recheck(h) PROVE LogsNested'
  BY <1>18 DEF Recheck, At, Advance
<1>19. ASSUME NEW h \in Handles, Rename(h) PROVE LogsNested'
  <2>1. /\ disk' = [disk EXCEPT !.store = job[h].next] /\ UNCHANGED <<durable, shown>>
        /\ disk.store \in Logs /\ disk.store = durable.store /\ job[h].next \in Logs
    BY <1>19 DEF Rename, At, Advance
  <2>2. PICK e \in Events : job[h].next = Append(disk.store, e)
    <3>1. job[h] # None /\ job[h].stage = "write" /\ pc[h] = "ready" /\ ~poisoned[h]
      BY <1>19 DEF Rename, At
    <3>2. mem[h] = disk.store /\ \E e \in Events : job[h].next = Append(mem[h], e)
      BY <3>1
    <3>. QED  BY <3>2
  <2>3. IsPrefix(disk.store, Append(disk.store, e))
    BY <2>1, PrefixLaws
  <2>4. disk.made /\ durable.made /\ job[h].next # None
    BY <2>1
  <2>. QED  BY <2>1, <2>2, <2>3, <2>4
<1>20. ASSUME NEW h \in Handles, SyncRename(h) PROVE LogsNested'
  BY <1>20, <1>sync DEF SyncRename, At, Advance, SyncDirectory
<1>21. ASSUME NEW h \in Handles, WriteFails(h) PROVE LogsNested'
  BY <1>21 DEF WriteFails, Poison, At
<1>22. ASSUME NEW h \in Handles, LockLostInFlight(h) PROVE LogsNested'
  BY <1>22 DEF LockLostInFlight, Poison, At
<1>23. ASSUME NEW h \in Handles, Commit(h) PROVE LogsNested'
  BY <1>23 DEF Commit, At
<1>24. ASSUME NEW h \in Handles, Close(h) PROVE LogsNested'
  BY <1>24 DEF Close
<1>25. ASSUME NEW h \in Handles, ReleaseLock(h) PROVE LogsNested'
  <2>1. UNCHANGED <<durable, shown>> /\ disk'.store = disk.store /\ disk'.made = disk.made
    BY <1>25 DEF ReleaseLock
  <2>. QED  BY <2>1, <1>kept
<1>26. ASSUME NEW h \in Handles, SyncRelease(h) PROVE LogsNested'
  BY <1>26, <1>sync DEF SyncRelease, GoTo, SyncDirectory
<1>27. ASSUME NEW h \in Handles, SyncReleaseFails(h) PROVE LogsNested'
  BY <1>27 DEF SyncReleaseFails
<1>28. ASSUME NEW h \in Handles, Crash(h) PROVE LogsNested'
  BY <1>28 DEF Crash, Forget
<1>29. ASSUME NEW h \in Handles, NEW r \in Requests, Submit(h, r) PROVE LogsNested'
  BY <1>29 DEF Submit
<1>30. ASSUME MachineCrash PROVE LogsNested'
  <2>1. PICK made \in {disk.made, durable.made}, store \in {disk.store, durable.store},
             lock \in {disk.lock, durable.lock} :
          disk' = IF made THEN [made |-> TRUE, store |-> store, lock |-> lock]
                          ELSE [made |-> FALSE, store |-> None, lock |-> None]
    BY <1>30 DEF MachineCrash
  <2>2. durable' = disk' /\ UNCHANGED shown
    BY <1>30 DEF MachineCrash, Forget
  <2>3. ASSUME NEW s \in shown PROVE disk'.store # None /\ IsPrefix(s, disk'.store)
    <3>1. /\ s \in Logs /\ durable.store \in Logs /\ disk.store \in Logs
          /\ IsPrefix(s, durable.store) /\ IsPrefix(durable.store, disk.store)
          /\ made = TRUE
      OBVIOUS
    <3>2. IsPrefix(s, disk.store)
      BY <3>1, PrefixLaws
    <3>3. disk'.store \in {disk.store, durable.store}
      BY <2>1, <3>1
    <3>. QED  BY <3>1, <3>2, <3>3
  <2>4. disk'.store # None => disk'.made /\ disk'.store \in Logs
    BY <2>1
  <2>5. disk'.store # None => IsPrefix(disk'.store, disk'.store)
    BY <2>4, PrefixLaws
  <2>. QED  BY <2>2, <2>3, <2>4, <2>5
<1>31. ASSUME RecoverLock PROVE LogsNested'
  BY <1>31 DEF RecoverLock
<1>32. CASE UNCHANGED storeVars
  BY <1>32 DEF storeVars
<1>. QED
  BY <1>1, <1>2, <1>3, <1>4, <1>5, <1>6, <1>7, <1>8, <1>9, <1>10, <1>11, <1>12, <1>13,
     <1>14, <1>15, <1>16, <1>17, <1>18, <1>19, <1>20, <1>21, <1>22, <1>23, <1>24, <1>25,
     <1>26, <1>27, <1>28, <1>29, <1>30, <1>31, <1>32, StoreStepCases

LEMMA StagesKept ==
  ASSUME careful, StoreTypeOK, ProcessesSound, OwnersAlone, LogsNested, StagesSound,
         [StoreNext]_storeVars
  PROVE  StagesSound'
<1>. USE NoneIsNoLog DEF StoreTypeOK, ProcessesSound, OwnersAlone, LogsNested, StagesSound,
                         Alive, Gone, Idle, memory, Holding, BeforeStore, Initializing, Directory
<1>1. ASSUME NEW h \in Handles, Initialize(h) PROVE StagesSound'
  BY <1>1 DEF Initialize
<1>2. ASSUME NEW h \in Handles, SyncParent(h) PROVE StagesSound'
  BY <1>2 DEF SyncParent, GoTo
<1>3. ASSUME NEW h \in Handles, SyncParentFails(h) PROVE StagesSound'
  BY <1>3 DEF SyncParentFails, GoTo
<1>4. ASSUME NEW h \in Handles, InitAcquireLock(h) PROVE StagesSound'
  BY <1>4 DEF InitAcquireLock, AcquireLock
<1>5. ASSUME NEW h \in Handles, SyncLock(h) PROVE StagesSound'
  BY <1>5 DEF SyncLock, GoTo, SyncDirectory
<1>6. ASSUME NEW h \in Handles, SyncLockFails(h) PROVE StagesSound'
  BY <1>6 DEF SyncLockFails
<1>7. ASSUME NEW h \in Handles, InitRename(h) PROVE StagesSound'
  BY <1>7 DEF InitRename, GoTo
<1>8. ASSUME NEW h \in Handles, InitSync(h) PROVE StagesSound'
  BY <1>8 DEF InitSync, GoTo, SyncDirectory
<1>9. ASSUME NEW h \in Handles, InitCommit(h) PROVE StagesSound'
  BY <1>9 DEF InitCommit, GoTo, Ready
<1>10. ASSUME NEW h \in Handles, InitFails(h) PROVE StagesSound'
  BY <1>10 DEF InitFails
<1>11. ASSUME NEW h \in Handles, Open(h) PROVE StagesSound'
  BY <1>11 DEF Open, AcquireLock
<1>12. ASSUME NEW h \in Handles, OpenRead(h) PROVE StagesSound'
  BY <1>12 DEF OpenRead, GoTo, Ready
<1>13. ASSUME NEW h \in Handles, OpenFails(h) PROVE StagesSound'
  BY <1>13 DEF OpenFails, GoTo
<1>14. ASSUME NEW h \in Handles, Reject(h) PROVE StagesSound'
  BY <1>14 DEF Reject
<1>15. ASSUME NEW h \in Handles, LockLost(h) PROVE StagesSound'
  BY <1>15 DEF LockLost, Poison
<1>16. ASSUME NEW h \in Handles, Duplicate(h) PROVE StagesSound'
  <2>1. UNCHANGED <<disk, durable, pc, poisoned, mem, job>>
    BY <1>16 DEF Duplicate
  <2>. QED  BY <2>1
<1>17. ASSUME NEW h \in Handles, Begin(h) PROVE StagesSound'
  <2>1. Head(queue[h]).event \in Events
    <3>1. queue[h] \in Seq(Requests) /\ queue[h] # <<>>
      BY <1>17 DEF Begin, CanRun
    <3>2. Head(queue[h]) \in Requests
      BY <3>1, HeadTailProperties
    <3>. QED  BY <3>2 DEF Requests
  <2>. DEFINE next == Append(mem[h], Head(queue[h]).event)
  <2>2. /\ job' = [job EXCEPT ![h] = [stage |-> "check", next |-> next]]
        /\ UNCHANGED <<disk, durable, pc, poisoned, mem>>
        /\ pc[h] = "ready" /\ ~poisoned[h] /\ job[h] = None
    BY <1>17 DEF Begin, CanRun
  <2>3. \E e \in Events : next = Append(mem[h], e)
    BY <2>1
  <2>. HIDE DEF next
  <2>4. /\ job'[h].stage = "check" /\ job'[h].next = next
        /\ \A g \in Handles \ {h} : job'[g] = job[g]
    BY <2>2
  <2>5. mem[h] = disk.store /\ mem[h] = durable.store
    BY <2>2
  <2>. QED  BY <2>2, <2>3, <2>4, <2>5
<1>18. ASSUME NEW h \in Handles, Recheck(h) PROVE StagesSound'
  <2>1. /\ pc[h] = "ready" /\ ~poisoned[h] /\ disk.lock = h /\ job[h] # None
        /\ job[h].next \in Logs
    BY <1>18 DEF Recheck, At
  <2>2. \A g \in Handles \ {h} : pc[g] \notin Holding /\ job[g] = None
    BY <2>1
  <2>3. /\ job'[h] = [stage |-> "write", next |-> job[h].next]
        /\ \A g \in Handles \ {h} : job'[g] = job[g]
    BY <1>18, <2>1 DEF Recheck, At, Advance
  <2>4. job'[h] # None
    BY <2>1, <2>3, NoneIsNoJob
  <2>5. UNCHANGED <<disk, durable, pc, poisoned, mem>>
    BY <1>18 DEF Recheck
  <2>6. /\ mem[h] = disk.store /\ mem[h] = durable.store
        /\ \E e \in Events : job[h].next = Append(mem[h], e)
    BY <1>18, <2>1 DEF Recheck, At
  <2>7. job'[h].stage = "write" /\ job'[h].next = job[h].next
    BY <2>3
  <2>8. ASSUME NEW g \in Handles \ {h}
        PROVE  pc[g] \notin {"init-sync", "init-commit", "open-read", "ready"} /\ job'[g] = None
    BY <2>2, <2>3
  <2>9. /\ pc'[h] = "ready" /\ job'[h].stage = "write"
        /\ mem'[h] = disk'.store /\ mem'[h] = durable'.store
        /\ \E e \in Events : job'[h].next = Append(mem'[h], e)
    BY <2>1, <2>5, <2>6, <2>7
  <2>10. \A g \in Handles \ {h} :
           pc'[g] \notin {"init-sync", "init-commit", "open-read", "ready"} /\ job'[g] = None
    BY <2>5, <2>8
  <2>. HIDE DEF StoreTypeOK, ProcessesSound, OwnersAlone, LogsNested, Directory
  <2>. QED  BY <2>9, <2>10
<1>19. ASSUME NEW h \in Handles, Rename(h) PROVE StagesSound'
  <2>1. /\ pc[h] = "ready" /\ ~poisoned[h] /\ disk.lock = h /\ job[h] # None
        /\ job[h].next \in Logs
    BY <1>19 DEF Rename, At
  <2>2. \A g \in Handles \ {h} : pc[g] \notin Holding /\ job[g] = None
    BY <2>1
  <2>3. /\ job'[h] = [stage |-> "sync", next |-> job[h].next]
        /\ \A g \in Handles \ {h} : job'[g] = job[g]
    BY <1>19, <2>1 DEF Rename, At, Advance
  <2>4. job'[h] # None
    BY <2>1, <2>3, NoneIsNoJob
  <2>5. disk'.store = job[h].next /\ UNCHANGED <<durable, pc, poisoned, mem>>
    BY <1>19 DEF Rename
  <2>. QED  BY <2>1, <2>2, <2>3, <2>4, <2>5
<1>20. ASSUME NEW h \in Handles, SyncRename(h) PROVE StagesSound'
  <2>1. /\ pc[h] = "ready" /\ ~poisoned[h] /\ disk.lock = h /\ job[h] # None
        /\ job[h].next \in Logs
    BY <1>20 DEF SyncRename, At
  <2>2. \A g \in Handles \ {h} : pc[g] \notin Holding /\ job[g] = None
    BY <2>1
  <2>3. /\ job'[h] = [stage |-> "commit", next |-> job[h].next]
        /\ \A g \in Handles \ {h} : job'[g] = job[g]
    BY <1>20, <2>1 DEF SyncRename, At, Advance
  <2>4. job'[h] # None
    BY <2>1, <2>3, NoneIsNoJob
  <2>5. /\ disk.store = job[h].next /\ durable'.store = disk.store
        /\ UNCHANGED <<disk, pc, poisoned, mem>>
    BY <1>20 DEF SyncRename, At, SyncDirectory
  <2>. QED  BY <2>1, <2>2, <2>3, <2>4, <2>5
<1>21. ASSUME NEW h \in Handles, WriteFails(h) PROVE StagesSound'
  BY <1>21 DEF WriteFails, Poison, At
<1>22. ASSUME NEW h \in Handles, LockLostInFlight(h) PROVE StagesSound'
  BY <1>22 DEF LockLostInFlight, Poison, At
<1>23. ASSUME NEW h \in Handles, Commit(h) PROVE StagesSound'
  BY <1>23 DEF Commit, At
<1>24. ASSUME NEW h \in Handles, Close(h) PROVE StagesSound'
  <2>1. UNCHANGED <<disk, durable, pc, poisoned, mem, job>>
    BY <1>24 DEF Close
  <2>. QED  BY <2>1
<1>25. ASSUME NEW h \in Handles, ReleaseLock(h) PROVE StagesSound'
  BY <1>25 DEF ReleaseLock
<1>26. ASSUME NEW h \in Handles, SyncRelease(h) PROVE StagesSound'
  BY <1>26 DEF SyncRelease, GoTo, SyncDirectory
<1>27. ASSUME NEW h \in Handles, SyncReleaseFails(h) PROVE StagesSound'
  BY <1>27 DEF SyncReleaseFails
<1>28. ASSUME NEW h \in Handles, Crash(h) PROVE StagesSound'
  BY <1>28 DEF Crash, Forget
<1>29. ASSUME NEW h \in Handles, NEW r \in Requests, Submit(h, r) PROVE StagesSound'
  BY <1>29 DEF Submit
<1>30. ASSUME MachineCrash PROVE StagesSound'
  BY <1>30 DEF MachineCrash, Forget
<1>31. ASSUME RecoverLock PROVE StagesSound'
  BY <1>31 DEF RecoverLock
<1>32. CASE UNCHANGED storeVars
  BY <1>32 DEF storeVars
<1>. QED
  BY <1>1, <1>2, <1>3, <1>4, <1>5, <1>6, <1>7, <1>8, <1>9, <1>10, <1>11, <1>12, <1>13,
     <1>14, <1>15, <1>16, <1>17, <1>18, <1>19, <1>20, <1>21, <1>22, <1>23, <1>24, <1>25,
     <1>26, <1>27, <1>28, <1>29, <1>30, <1>31, <1>32, StoreStepCases

(* The strengthening holds of every reachable state of the store.          *)
LEMMA StoreIndInit == StoreInit => StoreIndInv
<1>1. ASSUME StoreInit PROVE ProcessesSound /\ OwnersAlone /\ LogsNested /\ StagesSound
  BY <1>1 DEF StoreInit, ProcessesSound, OwnersAlone, LogsNested, StagesSound, Idle, Alive, Gone,
              Holding, Initializing, BeforeStore
<1>. QED  BY <1>1, StoreTypeInit DEF StoreIndInv

LEMMA StoreIndKept == StoreIndInv /\ [StoreNext]_storeVars => StoreIndInv'
BY StoreTypeKept, CarefulIsFixed, ProcessesKept, OwnersKept, NestedKept, StagesKept
   DEF StoreIndInv

(* Under any operator the types hold, and under a careful one memory, file *)
(* and synced file are related as StoreIndInv says.                        *)
THEOREM StoreInductive == StoreSpec => []StoreIndInv
<1>. QED  BY StoreIndInit, StoreIndKept, PTL DEF StoreSpec

(* A handle that may append holds the file's log, durably.                 *)
LEMMA HandlesMatch == StoreIndInv => HandleMatchesFile
BY DEF StoreIndInv, StagesSound, HandleMatchesFile

-----------------------------------------------------------------------------
(* The refinement: a rename is the abstract Write, what a caller is        *)
(* answered is Show, a machine crash is Lose, and every other step leaves  *)
(* the abstract log and what was shown of it alone.                        *)


LEMMA InitImplementsLog == StoreInit => Log!LogInit
BY DEF StoreInit, Log!LogInit

LEMMA WholeLogShown ==
  ASSUME NEW s \in Logs
  PROVE  Len(s) \in 0 .. Len(s) /\ SubSeq(s, 1, Len(s)) = s
<1>1. s \in Seq(Events) /\ Len(s) \in Nat
  BY LogsAreSequences
<1>. QED  BY <1>1, SubSeqFull

LEMMA ShowsTheLog ==
  ASSUME StoreTypeOK, careful, careful', disk.store # None,
         UNCHANGED disk, shown' = shown \cup {disk.store}
  PROVE  Log!LogNext
<1>1. disk.store \in Logs
  BY DEF StoreTypeOK, Directory
<1>2. /\ Len(disk.store) \in 0 .. Len(disk.store)
      /\ SubSeq(disk.store, 1, Len(disk.store)) = disk.store
  BY <1>1, WholeLogShown
<1>3. Log!Show
  BY <1>2 DEF Log!Show
<1>. QED  BY <1>3 DEF Log!LogNext

LEMMA StepImplementsLog ==
  ASSUME StoreIndInv, [StoreNext]_storeVars
  PROVE  [Log!LogNext]_Log!logVars
<1>1. CASE ~careful
  BY <1>1, CarefulIsFixed DEF Log!logVars
<1>. SUFFICES ASSUME careful, careful' PROVE [Log!LogNext]_Log!logVars
  BY <1>1, CarefulIsFixed
<1>. USE NoneIsNoLog DEF StoreIndInv
<1>2. ASSUME UNCHANGED <<disk, shown>> PROVE [Log!LogNext]_Log!logVars
  BY <1>2 DEF Log!logVars
<1>3. ASSUME disk'.store = disk.store, UNCHANGED shown PROVE [Log!LogNext]_Log!logVars
  BY <1>3 DEF Log!logVars
<1>4. ASSUME NEW h \in Handles, Initialize(h) PROVE disk'.store = disk.store /\ UNCHANGED shown
  BY <1>4 DEF Initialize, StoreTypeOK, Directory
<1>5. ASSUME NEW h \in Handles, InitAcquireLock(h) \/ Open(h)
      PROVE  disk'.store = disk.store /\ UNCHANGED shown
  BY <1>5 DEF InitAcquireLock, Open, AcquireLock, StoreTypeOK, Directory
<1>6. ASSUME NEW h \in Handles, ReleaseLock(h) PROVE disk'.store = disk.store /\ UNCHANGED shown
  BY <1>6 DEF ReleaseLock, StoreTypeOK, Directory
<1>7. ASSUME RecoverLock PROVE disk'.store = disk.store /\ UNCHANGED shown
  BY <1>7 DEF RecoverLock, memory, StoreTypeOK, Directory
<1>8. ASSUME NEW h \in Handles,
             \/ SyncParent(h) \/ SyncParentFails(h) \/ SyncLock(h) \/ SyncLockFails(h)
             \/ InitSync(h) \/ InitFails(h) \/ OpenFails(h)
             \/ Reject(h) \/ LockLost(h) \/ Begin(h) \/ Recheck(h) \/ SyncRename(h)
             \/ WriteFails(h) \/ LockLostInFlight(h) \/ Close(h)
             \/ SyncRelease(h) \/ SyncReleaseFails(h) \/ Crash(h)
             \/ \E r \in Requests : Submit(h, r)
      PROVE  UNCHANGED <<disk, shown>>
  BY <1>8 DEF SyncParent, SyncParentFails, SyncLock, SyncLockFails, InitSync, InitFails, OpenFails,
              Reject, LockLost, Begin, Recheck, SyncRename, WriteFails, LockLostInFlight, Close,
              SyncRelease, SyncReleaseFails, Crash, Forget, Submit
<1>9. ASSUME NEW h \in Handles, InitRename(h) PROVE [Log!LogNext]_Log!logVars
  <2>1. disk.store = None /\ disk'.store = <<>> /\ UNCHANGED shown
    BY <1>9 DEF InitRename, GoTo, OwnersAlone, BeforeStore, StoreTypeOK, Directory
  <2>. QED  BY <2>1 DEF Log!logVars
<1>10. ASSUME NEW h \in Handles, InitCommit(h) PROVE [Log!LogNext]_Log!logVars
  <2>1. disk.store = <<>> /\ UNCHANGED disk /\ shown' = shown \cup {disk.store}
    BY <1>10 DEF InitCommit, GoTo, Ready, StagesSound
  <2>2. disk.store # None
    BY <2>1, EmptyIsLog
  <2>. QED  BY <2>1, <2>2, ShowsTheLog
<1>11. ASSUME NEW h \in Handles, OpenRead(h) PROVE [Log!LogNext]_Log!logVars
  BY <1>11, ShowsTheLog DEF OpenRead, GoTo, Ready
<1>12. ASSUME NEW h \in Handles, Duplicate(h) PROVE [Log!LogNext]_Log!logVars
  <2>1. mem[h] = disk.store /\ mem[h] \in Logs
    BY <1>12 DEF Duplicate, CanRun, StagesSound, StoreTypeOK
  <2>2. disk.store # None /\ UNCHANGED disk /\ shown' = shown \cup {disk.store}
    BY <1>12, <2>1 DEF Duplicate
  <2>. QED  BY <2>2, ShowsTheLog
<1>13. ASSUME NEW h \in Handles, Rename(h) PROVE [Log!LogNext]_Log!logVars
  <2>1. /\ mem[h] = disk.store /\ mem[h] \in Logs
        /\ \E e \in Events : job[h].next = Append(mem[h], e)
    BY <1>13 DEF Rename, At, Idle, ProcessesSound, StagesSound, StoreTypeOK
  <2>2. disk'.store = job[h].next /\ job[h].next \in Logs /\ UNCHANGED shown
    BY <1>13 DEF Rename, At, Idle, StoreTypeOK, Directory
  <2>3. PICK e \in Events : Log!Write(e)
    BY <2>1, <2>2 DEF Log!Write
  <2>. QED  BY <2>3 DEF Log!LogNext
<1>14. ASSUME NEW h \in Handles, Commit(h) PROVE [Log!LogNext]_Log!logVars
  <2>1. disk.store = job[h].next /\ job[h].next \in Logs
    BY <1>14 DEF Commit, At, Idle, StagesSound, StoreTypeOK
  <2>2. disk.store # None /\ UNCHANGED disk /\ shown' = shown \cup {disk.store}
    BY <1>14, <2>1 DEF Commit
  <2>. QED  BY <2>2, ShowsTheLog
<1>15. ASSUME MachineCrash PROVE [Log!LogNext]_Log!logVars
  <2>1. UNCHANGED shown /\ disk'.store \in {disk.store, durable.store, None}
    BY <1>15 DEF MachineCrash, Forget
  <2>2. /\ disk.store \in Logs \cup {None} /\ durable.store \in Logs \cup {None}
        /\ shown \subseteq Logs
    BY DEF StoreTypeOK, Directory
  <2>3. CASE disk'.store = disk.store
    BY <2>1, <2>3, <1>3
  <2>4. CASE disk'.store # disk.store /\ disk'.store = None
    <3>1. disk.store \in Logs /\ disk.made /\ durable.made
      BY <2>2, <2>4 DEF LogsNested
    <3>2. durable.store = None
      <4>1. PICK made \in {disk.made, durable.made}, store \in {disk.store, durable.store},
                 lock \in {disk.lock, durable.lock} :
              disk' = IF made THEN [made |-> TRUE, store |-> store, lock |-> lock]
                              ELSE [made |-> FALSE, store |-> None, lock |-> None]
        BY <1>15 DEF MachineCrash
      <4>2. made = TRUE
        BY <3>1
      <4>3. store = None /\ store # disk.store
        BY <2>4, <4>1, <4>2
      <4>. QED  BY <4>3
    <3>3. shown = {}
      BY <3>2 DEF LogsNested
    <3>4. /\ disk.store \in Seq(Events) /\ 0 \in 0 .. Len(disk.store)
          /\ SubSeq(disk.store, 1, 0) = <<>>
      BY <3>1, LogsAreSequences, SubSeqEmpty
    <3>5. Log!Lose
      BY <2>1, <2>4, <3>1, <3>3, <3>4 DEF Log!Lose
    <3>. QED  BY <3>5 DEF Log!LogNext
  <2>5. CASE disk'.store # disk.store /\ disk'.store # None
    <3>1. /\ disk'.store = durable.store /\ disk.store \in Logs /\ durable.store \in Logs
          /\ IsPrefix(durable.store, disk.store)
      BY <2>1, <2>2, <2>5 DEF LogsNested
    <3>. DEFINE n == Len(durable.store)
    <3>2. n \in 0 .. Len(disk.store) /\ durable.store = SubSeq(disk.store, 1, n)
      BY <3>1, LogsAreSequences, PrefixIsSubSeq
    <3>3. ASSUME NEW s \in shown PROVE Len(s) <= n
      <4>1. s \in Seq(Events) /\ durable.store \in Seq(Events) /\ IsPrefix(s, durable.store)
        BY <2>2, <3>1, LogsAreSequences DEF LogsNested
      <4>. QED  BY <4>1, PrefixIsSubSeq
    <3>4. Log!Lose
      BY <2>1, <3>1, <3>2, <3>3 DEF Log!Lose
    <3>. QED  BY <3>4 DEF Log!LogNext
  <2>. QED  BY <2>3, <2>4, <2>5
<1>16. CASE UNCHANGED storeVars
  BY <1>2, <1>16 DEF storeVars
<1>. QED
  BY <1>2, <1>3, <1>4, <1>5, <1>6, <1>7, <1>8, <1>9, <1>10, <1>11, <1>12, <1>13, <1>14, <1>15,
     <1>16, StoreStepCases

(* The store keeps its promise, for any number of handles, events and      *)
(* crashes: what a caller was shown is in every later log, and a handle    *)
(* free to append has the file's log in memory.                            *)
THEOREM StoreIsFaithful == StoreSpec => StoreKeepsPromise
<1>1. StoreIndInv /\ [StoreNext]_storeVars => [Log!LogNext]_Log!logVars
  BY StepImplementsLog
<1>2. StoreSpec => StoreIsDurableLog
  BY <1>1, InitImplementsLog, StoreInductive, PTL DEF StoreIsDurableLog, Log!LogSpec, StoreSpec
<1>3. StoreIndInv => StoreTypeOK /\ HandleMatchesFile
  BY HandlesMatch DEF StoreIndInv
<1>. QED  BY <1>2, <1>3, StoreInductive, PTL DEF StoreKeepsPromise

(* What the promise means to a caller: every log one was ever shown is the *)
(* beginning of the document the next reader finds.                        *)
THEOREM ShownIsKept == StoreSpec => []Log!ShownSurvives
<1>1. ASSUME StoreIndInv PROVE Log!ShownSurvives
  <2>1. CASE ~careful
    BY <2>1 DEF Log!ShownSurvives
  <2>2. CASE careful
    <3>1. ASSUME NEW s \in shown PROVE disk.store # None /\ IsPrefix(s, disk.store)
      <4>1. /\ s \in Logs /\ durable.store \in Logs /\ disk.store \in Logs
            /\ IsPrefix(s, durable.store) /\ IsPrefix(durable.store, disk.store)
            /\ disk.store # None
        BY <1>1, <2>2 DEF StoreIndInv, LogsNested, StoreTypeOK, Directory
      <4>. QED  BY <4>1, PrefixLaws
    <3>. QED  BY <2>2, <3>1 DEF Log!ShownSurvives, Log!IsPrefix, IsPrefix
  <2>. QED  BY <2>1, <2>2
<1>. QED  BY <1>1, StoreInductive, PTL

=============================================================================
