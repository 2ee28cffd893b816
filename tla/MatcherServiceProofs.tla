------------------------ MODULE MatcherServiceProofs ------------------------
EXTENDS MatcherService, MatcherFeeds, Lemmas, FiniteSetTheorems

-----------------------------------------------------------------------------
(* The commands of a journal. *)

(* What the loop over the first records of a journal has built.            *)
Loop(j, f, N) ==
  f = [n \in 0 .. N |->
         IF n = 0 THEN <<>>
         ELSE IF j[n].id \in Ids THEN Append(f[n - 1], j[n]) ELSE f[n - 1]]

LEMMA LoopExtends ==
  ASSUME NEW j, NEW N \in Nat, NEW f, Loop(j, f, N)
  PROVE  \E g : /\ Loop(j, g, N + 1)
                /\ g[N + 1] = IF j[N + 1].id \in Ids THEN Append(f[N], j[N + 1]) ELSE f[N]
<1>. DEFINE g == [n \in 0 .. N + 1 |->
                    IF n <= N THEN f[n]
                    ELSE IF j[N + 1].id \in Ids THEN Append(f[N], j[N + 1]) ELSE f[N]]
            h == [n \in 0 .. N + 1 |->
                    IF n = 0 THEN <<>>
                    ELSE IF j[n].id \in Ids THEN Append(g[n - 1], j[n]) ELSE g[n - 1]]
<1>1. ASSUME NEW n \in 0 .. N + 1 PROVE g[n] = h[n]
  <2>1. CASE n = 0
    BY <2>1 DEF Loop
  <2>2. CASE n \in 1 .. N
    <3>1. n \in 0 .. N /\ n - 1 \in 0 .. N /\ n # 0 /\ n <= N /\ n - 1 <= N
      BY <2>2
    <3>2. f[n] = IF j[n].id \in Ids THEN Append(f[n - 1], j[n]) ELSE f[n - 1]
      BY <3>1 DEF Loop
    <3>3. g[n] = f[n] /\ g[n - 1] = f[n - 1]
      BY <3>1
    <3>. QED  BY <3>1, <3>2, <3>3
  <2>3. CASE n = N + 1
    <3>1. N \in 0 .. N + 1 /\ n - 1 = N /\ n # 0 /\ ~ (n <= N)
      BY <2>3
    <3>2. g[N] = f[N]
      BY <3>1
    <3>. QED  BY <2>3, <3>1, <3>2
  <2>. QED  BY <2>1, <2>2, <2>3
<1>2. g = h
  BY <1>1
<1>3. g[N + 1] = IF j[N + 1].id \in Ids THEN Append(f[N], j[N + 1]) ELSE f[N]
  OBVIOUS
<1>. QED  BY <1>2, <1>3 DEF Loop

LEMMA LoopExists ==
  ASSUME NEW j, NEW N \in Nat
  PROVE  \E f : Loop(j, f, N)
<1>. DEFINE S == {n \in Nat : \E f : Loop(j, f, n)}
<1>1. 0 \in S
  <2>. DEFINE f == [n \in 0 .. 0 |-> <<>>]
  <2>1. Loop(j, f, 0)
    BY DEF Loop
  <2>. QED  BY <2>1
<1>2. \A n \in Nat : n \in S => n + 1 \in S
  BY LoopExtends
<1>. HIDE DEF S
<1>3. Nat \subseteq S
  BY <1>1, <1>2, InductiveSet
<1>. QED  BY <1>3 DEF S

(* The loop depends on the records it has read and on nothing else.        *)
LEMMA LoopUnique ==
  ASSUME NEW j, NEW k, NEW M \in Nat, NEW N \in Nat, M <= N, NEW f, NEW g,
         \A n \in 1 .. M : j[n] = k[n], Loop(j, f, M), Loop(k, g, N)
  PROVE  f[M] = g[M]
<1>. DEFINE S == {n \in Nat : n <= M => f[n] = g[n]}
<1>1. 0 \in S
  BY DEF Loop
<1>2. ASSUME NEW n \in Nat, n \in S PROVE n + 1 \in S
  <2>. SUFFICES ASSUME n + 1 <= M PROVE f[n + 1] = g[n + 1]
    OBVIOUS
  <2>1. /\ n + 1 \in 0 .. M /\ n + 1 \in 0 .. N /\ n + 1 # 0 /\ (n + 1) - 1 = n
        /\ n + 1 \in 1 .. M /\ f[n] = g[n]
    BY <1>2
  <2>2. f[n + 1] = IF j[n + 1].id \in Ids THEN Append(f[n], j[n + 1]) ELSE f[n]
    BY <2>1 DEF Loop
  <2>3. g[n + 1] = IF k[n + 1].id \in Ids THEN Append(g[n], k[n + 1]) ELSE g[n]
    BY <2>1 DEF Loop
  <2>. QED  BY <2>1, <2>2, <2>3
<1>. HIDE DEF S
<1>3. Nat \subseteq S
  BY <1>1, <1>2, InductiveSet
<1>. QED  BY <1>3 DEF S

LEMMA UserLogIsLoop ==
  ASSUME NEW j, j # None, Len(j) \in Nat, NEW f, Loop(j, f, Len(j))
  PROVE  UserLog(j) = f[Len(j)]
<1>. DEFINE users == CHOOSE g : Loop(j, g, Len(j))
<1>1. Loop(j, users, Len(j))
  OBVIOUS
<1>2. UserLog(j) = users[Len(j)]
  BY DEF UserLog, Loop
<1>. HIDE DEF users
<1>. QED  BY <1>1, <1>2, LoopUnique

(* Appending a record appends it to the commands, if it is one.            *)
LEMMA UserLogAppend ==
  ASSUME NEW S, NEW j \in Seq(S), NEW r \in S, None \notin Seq(S)
  PROVE  UserLog(Append(j, r)) = IF r.id \in Ids THEN Append(UserLog(j), r) ELSE UserLog(j)
<1>. DEFINE k == Append(j, r)
            N == Len(j)
<1>1. /\ N \in Nat /\ Len(k) = N + 1 /\ k \in Seq(S) /\ k[N + 1] = r
      /\ \A n \in 1 .. N : j[n] = k[n]
  BY AppendProperties
<1>. HIDE DEF k, N
<1>2. PICK f : Loop(k, f, N)
  BY <1>1, LoopExists
<1>3. PICK g : Loop(k, g, N + 1) /\ g[N + 1] = IF k[N + 1].id \in Ids THEN Append(f[N], k[N + 1]) ELSE f[N]
  BY <1>1, <1>2, LoopExtends
<1>4. PICK h : Loop(j, h, N)
  BY <1>1, LoopExists
<1>5. h[N] = f[N]
  BY <1>1, <1>2, <1>4, LoopUnique
<1>6. UserLog(j) = h[N]
  BY <1>1, <1>4, UserLogIsLoop DEF N
<1>7. UserLog(k) = g[N + 1]
  <2>1. k # None /\ Len(k) \in Nat /\ Loop(k, g, Len(k))
    BY <1>1, <1>3
  <2>. QED  BY <1>1, <2>1, UserLogIsLoop
<1>. QED  BY <1>1, <1>3, <1>5, <1>6, <1>7 DEF k

LEMMA UserLogEmpty ==
  ASSUME <<>> # None
  PROVE  UserLog(<<>>) = <<>>
<1>1. PICK f : Loop(<<>>, f, 0)
  BY LoopExists
<1>2. f[0] = <<>>
  BY <1>1 DEF Loop
<1>3. Len(<<>>) = 0
  OBVIOUS
<1>. QED  BY <1>1, <1>2, <1>3, UserLogIsLoop

-----------------------------------------------------------------------------
(* Records and journals. *)

LEMMA RecordFacts ==
  /\ \A r \in Commands : r \notin {Cutover, Legacy} /\ r.id \in Ids
  /\ Cutover \in Records /\ Legacy \in Records /\ Cutover # Legacy
  /\ Cutover.id \notin Ids /\ Legacy.id \notin Ids
  /\ Cutover.body \notin Raw /\ Cutover.id # Legacy.id
  /\ \A r \in Records : r.id \in Ids => r \in Commands
BY MatcherStoreConstants DEF Commands, Records, Cutover, Legacy, System

LEMMA AppendFacts ==
  ASSUME NEW S, NEW s \in Seq(S), NEW e \in S
  PROVE  /\ Append(s, e) \in Seq(S) /\ Len(s) \in Nat /\ Len(Append(s, e)) = Len(s) + 1
         /\ DOMAIN s = 1 .. Len(s) /\ DOMAIN Append(s, e) = 1 .. Len(s) + 1
         /\ \A i \in 1 .. Len(s) : Append(s, e)[i] = s[i]
         /\ Append(s, e)[Len(s) + 1] = e
         /\ Front(Append(s, e)) = s
<1>1. /\ Append(s, e) \in Seq(S) /\ Len(s) \in Nat /\ Len(Append(s, e)) = Len(s) + 1
      /\ \A i \in 1 .. Len(s) : Append(s, e)[i] = s[i]
      /\ Append(s, e)[Len(s) + 1] = e
  BY AppendProperties
<1>2. DOMAIN s = 1 .. Len(s) /\ DOMAIN Append(s, e) = 1 .. Len(s) + 1
  BY <1>1, LenProperties
<1>3. Front(Append(s, e)) = s
  <2>. DEFINE a == Append(s, e)
              n == Len(s)
              b == SubSeq(a, 1, n)
  <2>0. Front(a) = b
    BY <1>1 DEF Front
  <2>. HIDE DEF a
  <2>1. \A i \in 1 .. n : a[i] \in S
    BY <1>1, ElementOfSeq DEF a
  <2>2. /\ b \in Seq(S)
        /\ Len(b) = IF 1 <= n THEN n - 1 + 1 ELSE 0
        /\ \A i \in 1 .. n - 1 + 1 : b[i] = a[1 + i - 1]
    BY <1>1, <2>1, SubSeqProperties
  <2>. HIDE DEF b
  <2>3. Len(b) = n /\ \A i \in 1 .. n : b[i] = s[i]
    BY <1>1, <2>2 DEF a
  <2>4. b = s
    BY <2>2, <2>3, SeqEqual
  <2>. QED  BY <2>0, <2>4 DEF a
<1>. QED  BY <1>1, <1>2, <1>3

(* The part of a journal before a place is the same after an append.       *)
LEMMA AppendKeepsParts ==
  ASSUME NEW S, NEW s \in Seq(S), NEW e \in S, NEW n \in 0 .. Len(s)
  PROVE  SubSeq(Append(s, e), 1, n) = SubSeq(s, 1, n)
<1>. DEFINE a == Append(s, e)
<1>1. Len(s) \in Nat /\ \A i \in 1 .. n : a[i] = s[i] /\ s[i] \in S
  BY AppendFacts, ElementOfSeq
<1>. HIDE DEF a
<1>2. /\ SubSeq(a, 1, n) \in Seq(S)
      /\ Len(SubSeq(a, 1, n)) = IF 1 <= n THEN n - 1 + 1 ELSE 0
      /\ \A i \in 1 .. n - 1 + 1 : SubSeq(a, 1, n)[i] = a[1 + i - 1]
  BY <1>1, SubSeqProperties
<1>3. /\ SubSeq(s, 1, n) \in Seq(S)
      /\ Len(SubSeq(s, 1, n)) = IF 1 <= n THEN n - 1 + 1 ELSE 0
      /\ \A i \in 1 .. n - 1 + 1 : SubSeq(s, 1, n)[i] = s[1 + i - 1]
  BY <1>1, SubSeqProperties
<1>4. SubSeq(a, 1, n) = SubSeq(s, 1, n)
  BY <1>1, <1>2, <1>3, SeqEqual
<1>. QED  BY <1>4 DEF a

(* Adding a new command that replay accepts keeps files that open accepts. *)
LEMMA SoundAppend ==
  ASSUME NEW d, NEW j \in Seq(Records), d.journal = j, Sound(d), d.marker = "current",
         CutoversOf(j) # {}, NEW r \in Commands, r.body \notin Raw, Len(j) < MaxRecords + 1,
         Applies(UserLog(j), r), NEW e, e.journal = Append(j, r), e.marker = d.marker,
         e.checkpoint = d.checkpoint, d.checkpoint \in Nat
  PROVE  Sound(e)
<1>. DEFINE k == Append(j, r)
            N == Len(j)
<1>0. r \in Records /\ MaxRecords \in Nat
  BY MatcherStoreConstants DEF Records
<1>1. /\ k \in Seq(Records) /\ N \in Nat /\ Len(k) = N + 1
      /\ DOMAIN j = 1 .. N /\ DOMAIN k = 1 .. N + 1
      /\ \A i \in 1 .. N : k[i] = j[i]
      /\ k[N + 1] = r
  BY <1>0, AppendFacts
<1>2. \A n \in 1 .. N + 1 : SubSeq(k, 1, n - 1) = SubSeq(j, 1, n - 1)
  <2>1. \A n \in 1 .. N + 1 : n - 1 \in 0 .. N
    BY <1>1
  <2>. QED  BY <1>0, <2>1, AppendKeepsParts
<1>3. SubSeq(j, 1, N) = j
  BY SubSeqFull
<1>. HIDE DEF k, N
<1>4. CutoversOf(k) = CutoversOf(j)
  BY <1>1, RecordFacts DEF CutoversOf
<1>5. CheckpointFits(e)
  BY <1>1 DEF Sound, CheckpointFits, k, N
<1>6. OneCutover(e)
  BY <1>4 DEF Sound, OneCutover, k
<1>7. CapacityFits(e)
  BY <1>0, <1>1, <1>4 DEF CapacityFits, UserRecords, k, N
<1>8. RawBeforeCutover(e)
  BY <1>1, <1>4, RecordFacts DEF Sound, RawBeforeCutover, k
<1>9. ExactInitializing(e) /\ MarkerBinds(e)
  BY <1>4 DEF ExactInitializing, MarkerBinds, k
<1>10. Replays(e.journal)
  <2>1. ASSUME NEW n \in 1 .. N + 1, k[n].id \in Ids
        PROVE  Applies(UserLog(SubSeq(k, 1, n - 1)), k[n])
    <3>1. CASE n = N + 1
      <4>1. SubSeq(k, 1, n - 1) = j /\ k[n] = r
        BY <1>1, <1>2, <1>3, <3>1
      <4>. QED  BY <4>1
    <3>2. CASE n \in 1 .. N
      <4>1. SubSeq(k, 1, n - 1) = SubSeq(j, 1, n - 1) /\ k[n] = j[n]
        BY <1>1, <1>2, <3>2
      <4>. QED  BY <1>1, <2>1, <3>2, <4>1 DEF Sound, Replays
    <3>. QED  BY <1>1, <3>1, <3>2
  <2>. QED  BY <1>1, <2>1 DEF Replays, k
<1>. QED  BY <1>5, <1>6, <1>7, <1>8, <1>9, <1>10 DEF Sound

(* The system record may end a journal that has none.                      *)
LEMMA SoundCutover ==
  ASSUME NEW d, NEW j \in Seq(Records), d.journal = j, Sound(d), CutoversOf(j) = {},
         NEW e, e.journal = Append(j, Cutover), e.marker = d.marker,
         e.checkpoint = d.checkpoint, d.checkpoint \in Nat
  PROVE  Sound(e) /\ CutoversOf(e.journal) # {}
<1>. DEFINE k == Append(j, Cutover)
            N == Len(j)
<1>0. Cutover \in Records /\ MaxRecords \in Nat
  BY MatcherStoreConstants, RecordFacts
<1>1. /\ k \in Seq(Records) /\ N \in Nat /\ Len(k) = N + 1
      /\ DOMAIN j = 1 .. N /\ DOMAIN k = 1 .. N + 1
      /\ \A i \in 1 .. N : k[i] = j[i]
      /\ k[N + 1] = Cutover
  BY <1>0, AppendFacts
<1>2. \A n \in 1 .. N + 1 : SubSeq(k, 1, n - 1) = SubSeq(j, 1, n - 1)
  <2>1. \A n \in 1 .. N + 1 : n - 1 \in 0 .. N
    BY <1>1
  <2>. QED  BY <1>0, <2>1, AppendKeepsParts
<1>. HIDE DEF k, N
<1>4. CutoversOf(k) = {N + 1}
  BY <1>1 DEF CutoversOf
<1>5. CheckpointFits(e)
  BY <1>1 DEF Sound, CheckpointFits, k, N
<1>6. OneCutover(e)
  <2>1. Cardinality(CutoversOf(k)) = 1
    BY <1>4, FS_Singleton
  <2>. QED  BY <2>1 DEF OneCutover, k
<1>7. CapacityFits(e)
  BY <1>0, <1>1, <1>4 DEF Sound, CapacityFits, UserRecords, k, N
<1>8. RawBeforeCutover(e)
  BY <1>1, <1>4, RecordFacts DEF RawBeforeCutover, k
<1>9. ExactInitializing(e) /\ MarkerBinds(e)
  <2>1. ASSUME d.marker = "initializing" PROVE k = <<Cutover>> /\ d.checkpoint = 0
    <3>1. j # <<Cutover>>
      BY DEF CutoversOf
    <3>2. j = <<>> /\ d.checkpoint = 0
      BY <2>1, <3>1 DEF Sound, ExactInitializing
    <3>. QED  BY <3>2 DEF k
  <2>. QED  BY <1>4, <2>1 DEF Sound, ExactInitializing, MarkerBinds, k
<1>10. Replays(e.journal)
  <2>1. ASSUME NEW n \in 1 .. N + 1, k[n].id \in Ids
        PROVE  Applies(UserLog(SubSeq(k, 1, n - 1)), k[n])
    <3>1. n \in 1 .. N
      BY <1>1, <2>1, RecordFacts
    <3>2. SubSeq(k, 1, n - 1) = SubSeq(j, 1, n - 1) /\ k[n] = j[n]
      BY <1>1, <1>2, <3>1
    <3>. QED  BY <1>1, <2>1, <3>1, <3>2 DEF Sound, Replays
  <2>. QED  BY <1>1, <2>1 DEF Replays, k
<1>11. CutoversOf(e.journal) # {}
  BY <1>4 DEF k
<1>. QED  BY <1>5, <1>6, <1>7, <1>8, <1>9, <1>10, <1>11 DEF Sound

(* The files of a new store.                                               *)
LEMMA SoundEmpty ==
  ASSUME NEW d, d.journal = <<>>, d.checkpoint = 0, d.marker = "initializing"
  PROVE  Sound(d)
<1>1. CutoversOf(<<>>) = {}
  BY DEF CutoversOf
<1>2. Cardinality(CutoversOf(<<>>)) = 0
  BY <1>1, FS_EmptySet
<1>. QED  BY <1>1, <1>2, MatcherStoreConstants
          DEF Sound, CheckpointFits, OneCutover, CapacityFits, UserRecords, RawBeforeCutover,
              ExactInitializing, MarkerBinds, Replays

(* The files of a store of before the cutover.                             *)
LEMMA SoundLegacy == Sound(LegacyDirectory)
<1>1. LegacyDirectory.journal = <<Legacy>> /\ LegacyDirectory.checkpoint = 1
      /\ LegacyDirectory.marker = "legacy"
  BY DEF LegacyDirectory
<1>2. CutoversOf(<<Legacy>>) = {}
  BY RecordFacts DEF CutoversOf
<1>3. Cardinality(CutoversOf(<<Legacy>>)) = 0
  BY <1>2, FS_EmptySet
<1>4. Replays(<<Legacy>>)
  BY RecordFacts DEF Replays
<1>. QED  BY <1>1, <1>2, <1>3, <1>4, MatcherStoreConstants
          DEF Sound, CheckpointFits, OneCutover, CapacityFits, UserRecords, RawBeforeCutover,
              ExactInitializing, MarkerBinds

(* The marker and the checkpoint of sound files may move forward.          *)
LEMMA SoundRestamped ==
  ASSUME NEW d, Sound(d), CutoversOf(d.journal) # {}, NEW e, e.journal = d.journal,
         e.checkpoint \in Nat, e.checkpoint <= Len(d.journal),
         \/ e.marker = d.marker /\ e.checkpoint \in {d.checkpoint, Len(d.journal)}
         \/ e.marker = "current"
  PROVE  Sound(e)
<1>1. ExactInitializing(e)
  <2>. SUFFICES ASSUME e.marker = "initializing" PROVE ExactInitializing(e)
    BY DEF ExactInitializing
  <2>1. d.journal = <<Cutover>> /\ d.checkpoint \in {0, 1}
    <3>1. CutoversOf(<<>>) = {}
      BY DEF CutoversOf
    <3>. QED  BY <3>1 DEF Sound, ExactInitializing
  <2>2. Len(<<Cutover>>) = 1
    OBVIOUS
  <2>. QED  BY <2>1, <2>2 DEF ExactInitializing
<1>. QED  BY <1>1
          DEF Sound, CheckpointFits, OneCutover, CapacityFits, UserRecords, RawBeforeCutover,
              MarkerBinds

-----------------------------------------------------------------------------
(* The inductive invariant of the store. *)

Markers == {None, "initializing", "legacy", "current"}
Directory == [marker : Markers, journal : Seq(Records) \cup {None}, torn : BOOLEAN,
              checkpoint : Nat \cup {None}]
Froms == {None} \cup (Ids \X Nat)
Memory == [log : Seq(Records), checkpoint : Nat, kept : SUBSET Ids]

(* Types of the store's variables.                                         *)
StoreTypes ==
  /\ disk \in Directory /\ safe \in Directory
  /\ pc \in {"down", "marker", "files", "replay", "checkpoint", "sealed", "stamp", "opened", "up"}
  /\ mem \in Memory
  /\ fault \in BOOLEAN
  /\ queue \in Seq([from : Froms, command : Commands])
  /\ job \in {None} \cup Jobs
  /\ answers \subseteq [from : Froms, result : {"fault", "refused", "replayed", "accepted"},
                        record : Commands \cup {None}]
  /\ clock \in Times /\ weather \in Weather
  /\ shown \subseteq Seq(Commands)
  /\ told \subseteq [record : Commands, sequence : Nat]

(* A journal without a record that is in it twice.                         *)
NoRepeats(j) == \A m, n \in DOMAIN j : j[m].id = j[n].id => m = n

(* Files that some open makes, and from then on only files open accepts.   *)
GoodFiles(d) ==
  /\ d.marker = None => d = NewDirectory
  /\ d.journal = None =>
       d.checkpoint = None /\ ~d.torn /\ d.marker \in {None, "initializing"}
  /\ d.journal # None /\ d.checkpoint = None =>
       d.journal = <<>> /\ ~d.torn /\ d.marker = "initializing"
  /\ d.journal # None /\ d.checkpoint # None => Sound(d)
  /\ d.journal # None => NoRepeats(d.journal)

(* They hold every log that was shown and every receipt that was given.    *)
Keeps(d, logs, receipts) ==
  /\ receipts # {} => d.journal # None
  /\ \A t \in receipts : t.sequence \in DOMAIN d.journal /\ d.journal[t.sequence] = t.record
  /\ \A s \in logs : IsPrefix(s, UserLog(d.journal))

Holds(d) == GoodFiles(d) /\ Keeps(d, shown, told)

(* The files, what a power failure leaves of them, and what a write leaves *)
(* that did not happen.                                                    *)
FilesSound ==
  /\ Holds(disk)
  /\ weather = "power" => Holds(safe)
  /\ Appending => Holds(Before)

(* Where the process is, and what the files are then.                      *)
ProcessSound ==
  /\ pc \in {"replay", "checkpoint", "sealed", "stamp", "opened", "up"} =>
       disk.journal # None /\ disk.checkpoint # None
  /\ pc \in {"checkpoint", "sealed", "stamp", "opened"} =>
       ~disk.torn /\ CutoversOf(disk.journal) # {}
  /\ pc = "files" => disk.marker # None
  /\ pc = "opened" => disk.marker = "current"
  /\ pc = "sealed" =>
       Before.journal \in Seq(Records) /\ disk.journal = Append(Before.journal, Cutover)

(* What the process holds in memory, and what is in flight.                *)
MemorySound ==
  /\ job # None => pc = "up" /\ ~fault
  /\ queue # <<>> => pc = "up"
  /\ pc = "up" /\ ~fault =>
       /\ disk.marker = "current" /\ ~disk.torn /\ CutoversOf(mem.log) # {}
       /\ mem.checkpoint <= Len(mem.log)
       /\ ~Appending => disk.journal = mem.log
       /\ Appending => disk.journal = Append(mem.log, job.record)
  /\ job # None /\ ~Appending => job.record \in ToSet(mem.log)

(* Where only power fails, all is synced that is not in flight.            *)
PowerSound ==
  weather = "power" =>
    /\ safe.torn = disk.torn
    /\ Appending => safe = Before
    /\ ~Appending =>
         \/ safe.journal = disk.journal
         \/ pc = "files" /\ safe.journal = None /\ disk.journal = <<>>

StoreInv == StoreTypes /\ FilesSound /\ ProcessSound /\ MemorySound /\ PowerSound

LEMMA TypesOfNone ==
  /\ None \notin Nat /\ None \notin Seq(Records) /\ None \notin Jobs
  /\ None \notin {"initializing", "legacy", "current"} /\ <<>> # None /\ 0 # None
  /\ \A n \in Nat : n # None
  /\ \A j \in Seq(Records) : j # None
  /\ 0 \in Times
<1>1. <<>> \in Seq(Records) /\ 0 \in Nat
  OBVIOUS
<1>2. 0 \in Times
  BY MatcherStoreConstants DEF Times
<1>3. /\ None \notin Nat /\ None \notin Seq(Records) /\ None \notin Jobs
      /\ None \notin {"initializing", "legacy", "current"}
  BY NoneIsApart
<1>. QED  BY <1>1, <1>2, <1>3

LEMMA InitIsGood == MatcherStoreInit => StoreInv
<1>. SUFFICES ASSUME MatcherStoreInit PROVE StoreInv
  OBVIOUS
<1>1. GoodFiles(NewDirectory)
  BY TypesOfNone DEF GoodFiles, NewDirectory, Markers
<1>2. GoodFiles(LegacyDirectory)
  <2>1. NoRepeats(<<Legacy>>)
    BY DEF NoRepeats
  <2>2. /\ LegacyDirectory.marker = "legacy" /\ LegacyDirectory.journal = <<Legacy>>
        /\ LegacyDirectory.checkpoint = 1
    BY DEF LegacyDirectory
  <2>3. LegacyDirectory.marker # None /\ <<Legacy>> # None /\ 1 # None
    <3>1. <<Legacy>> \in Seq(Records)
      BY RecordFacts
    <3>. QED  BY <2>2, <3>1, TypesOfNone
  <2>. QED  BY <2>1, <2>2, <2>3, SoundLegacy DEF GoodFiles
<1>3. ~Appending
  BY DEF MatcherStoreInit, Appending
<1>4. \A d \in {NewDirectory, LegacyDirectory} : d \in Directory
  <2>1. <<Legacy>> \in Seq(Records)
    BY RecordFacts
  <2>2. NewDirectory \in Directory
    BY DEF NewDirectory, Directory, Markers
  <2>3. LegacyDirectory \in Directory
    BY <2>1 DEF LegacyDirectory, Directory, Markers
  <2>. QED  BY <2>2, <2>3
<1>5. StoreTypes
  <2>1. disk \in Directory /\ safe \in Directory
    BY <1>4 DEF MatcherStoreInit
  <2>2. Idle \in Memory
    BY DEF Idle, Memory
  <2>3. \A S : <<>> \in Seq(S)
    OBVIOUS
  <2>4. queue \in Seq([from : Froms, command : Commands])
    BY <2>3 DEF MatcherStoreInit
  <2>. QED  BY <2>1, <2>2, <2>4, TypesOfNone DEF StoreTypes, MatcherStoreInit
<1>6. FilesSound
  BY <1>1, <1>2, <1>3 DEF FilesSound, Holds, Keeps, MatcherStoreInit
<1>7. ProcessSound /\ MemorySound /\ PowerSound
  BY <1>3 DEF ProcessSound, MemorySound, PowerSound, MatcherStoreInit
<1>. QED  BY <1>5, <1>6, <1>7 DEF StoreInv

(* Whatever leaves the files, the memory and the call in flight alone.     *)
LEMMA QuietStep ==
  ASSUME StoreInv, UNCHANGED <<disk, safe, pc, mem, job, fault, weather, shown, told>>,
         queue' \in Seq([from : Froms, command : Commands]), queue' # <<>> => pc = "up",
         answers' \subseteq [from : Froms, result : {"fault", "refused", "replayed", "accepted"},
                             record : Commands \cup {None}],
         clock' \in Times
  PROVE  StoreInv'
<1>1. Appending' = Appending /\ Before' = Before
  BY DEF Appending, Before
<1>2. StoreTypes'
  BY DEF StoreInv, StoreTypes
<1>3. FilesSound'
  BY <1>1 DEF StoreInv, FilesSound, Holds
<1>4. ProcessSound' /\ MemorySound' /\ PowerSound'
  BY <1>1 DEF StoreInv, ProcessSound, MemorySound, PowerSound
<1>. QED  BY <1>2, <1>3, <1>4 DEF StoreInv

(* A write makes the one before it safe.                                   *)
LEMMA SafeAfterWrite ==
  ASSUME StoreInv, ~Appending, NEW d, Write(d)
  PROVE  disk' = d /\ safe' \in Directory /\ (weather = "power" => safe' = disk)
BY DEF Write, StoreInv, StoreTypes, PowerSound, Directory

LEMMA SafeAfterAppend ==
  ASSUME StoreInv, NEW d, WriteAfterAppend(d)
  PROVE  disk' = d /\ safe' \in Directory /\ (weather = "power" => safe' = disk)
BY DEF WriteAfterAppend, StoreInv, StoreTypes

(* What is asked of the files depends on the journal and the checkpoint.   *)
LEMMA KeepsJournal ==
  ASSUME NEW d, NEW e, NEW logs, NEW receipts, Keeps(d, logs, receipts),
         e.journal = d.journal
  PROVE  Keeps(e, logs, receipts)
BY DEF Keeps

(* A write that leaves nothing in flight that an append leaves.            *)
LEMMA FilesAfterWrite ==
  ASSUME StoreInv, weather' = weather, weather = "power" => safe' = disk, ~Appending',
         GoodFiles(disk'), Keeps(disk, shown', told'), Keeps(disk', shown', told'),
         disk'.torn = disk.torn,
         \/ disk'.journal = disk.journal
         \/ pc' = "files" /\ disk.journal = None /\ disk'.journal = <<>>
  PROVE  FilesSound' /\ PowerSound'
BY DEF StoreInv, FilesSound, Holds, PowerSound

(* An append: what was there before it is safe.                            *)
LEMMA FilesAfterAppend ==
  ASSUME StoreInv, weather' = weather, weather = "power" => safe' = disk, Appending',
         Before' = disk, GoodFiles(disk'), UNCHANGED <<shown, told>>,
         Keeps(disk', shown, told), disk'.torn = disk.torn
  PROVE  FilesSound' /\ PowerSound'
BY DEF StoreInv, FilesSound, Holds, PowerSound

-----------------------------------------------------------------------------
(* The steps of open. *)

LEMMA AcquireWriterLockStep == StoreInv /\ AcquireWriterLock => StoreInv'
<1>. SUFFICES ASSUME StoreInv, AcquireWriterLock PROVE StoreInv'
  OBVIOUS
<1>1. /\ pc = "down" /\ pc' = "marker"
      /\ UNCHANGED <<disk, safe, mem, fault, queue, job, answers, shown, told, clock, weather>>
  BY DEF AcquireWriterLock, serving, world
<1>2. ~Appending /\ ~Appending' /\ job = None
  BY <1>1 DEF Appending, StoreInv, MemorySound
<1>3. StoreTypes'
  BY <1>1 DEF StoreInv, StoreTypes
<1>4. FilesSound'
  BY <1>1, <1>2 DEF StoreInv, FilesSound, Holds
<1>5. ProcessSound' /\ MemorySound' /\ PowerSound'
  BY <1>1, <1>2 DEF StoreInv, ProcessSound, MemorySound, PowerSound
<1>. QED  BY <1>3, <1>4, <1>5 DEF StoreInv

(* A step of open that leaves the journal as it is.                        *)
LEMMA OpeningStep ==
  ASSUME StoreInv, NEW from, NEW to, NEW d, GoOn(from, to), disk' = d, safe' \in Directory,
         weather = "power" => safe' = disk,
         d \in Directory, d.torn = disk.torn, GoodFiles(d),
         \/ d.journal = disk.journal
         \/ to = "files" /\ disk.journal = None /\ d.journal = <<>>,
         from \in {"marker", "files", "replay", "checkpoint", "sealed", "stamp"},
         to \in {"files", "replay", "checkpoint", "stamp", "opened"},
         to # "files" => d.journal # None /\ d.checkpoint # None,
         to \in {"checkpoint", "stamp", "opened"} => ~d.torn /\ CutoversOf(d.journal) # {},
         to = "files" => d.marker # None,
         to = "opened" => d.marker = "current"
  PROVE  StoreInv'
<1>1. /\ pc = from /\ pc' = to
      /\ UNCHANGED <<mem, fault, queue, job, answers, shown, told, clock, weather>>
  BY DEF GoOn, serving, world
<1>2. job = None /\ queue = <<>>
  BY <1>1 DEF StoreInv, MemorySound
<1>3. ~Appending'
  BY <1>1, <1>2 DEF Appending
<1>4. StoreTypes'
  BY <1>1 DEF StoreInv, StoreTypes
<1>5. Keeps(disk, shown, told) /\ Keeps(d, shown, told)
  <2>1. Keeps(disk, shown, told)
    BY DEF StoreInv, FilesSound, Holds
  <2>2. ASSUME disk.journal = None, d.journal = <<>> PROVE Keeps(d, shown, told)
    <3>1. told = {}
      BY <2>1, <2>2 DEF Keeps
    <3>2. UserLog(d.journal) = UserLog(disk.journal)
      <4>1. UserLog(None) = <<>>
        BY DEF UserLog
      <4>. QED  BY <2>2, <4>1, UserLogEmpty, TypesOfNone
    <3>. QED  BY <2>1, <3>1, <3>2 DEF Keeps
  <2>. QED  BY <2>1, <2>2, KeepsJournal
<1>6. FilesSound' /\ PowerSound'
  BY <1>1, <1>3, <1>5, FilesAfterWrite
<1>7. ProcessSound'
  BY <1>1 DEF ProcessSound
<1>8. MemorySound'
  BY <1>1, <1>2, <1>3 DEF MemorySound
<1>. QED  BY <1>4, <1>6, <1>7, <1>8 DEF StoreInv

LEMMA OpeningWrite ==
  ASSUME StoreInv, NEW from, NEW to, NEW d, Opening(from, to, d), from # "sealed", from # "up"
  PROVE  /\ GoOn(from, to) /\ disk' = d /\ safe' \in Directory
         /\ weather = "power" => safe' = disk
         /\ pc = from /\ ~Appending /\ job = None
<1>1. GoOn(from, to) /\ Write(d) /\ pc = from
  BY DEF Opening, GoOn
<1>2. ~Appending /\ job = None
  BY <1>1 DEF StoreInv, MemorySound, Appending
<1>. QED  BY <1>1, <1>2, SafeAfterWrite

LEMMA ReadMarkerStep == StoreInv /\ ReadMarker => StoreInv'
<1>. SUFFICES ASSUME StoreInv, ReadMarker PROVE StoreInv'
  OBVIOUS
<1>0. disk \in Directory /\ GoodFiles(disk)
  BY DEF StoreInv, StoreTypes, FilesSound, Holds
<1>1. CASE disk.marker # None /\ Opening("marker", "files", disk)
  BY <1>0, <1>1, OpeningWrite, OpeningStep
<1>2. CASE disk = NewDirectory /\ Opening("marker", "files", [disk EXCEPT !.marker = "initializing"])
  <2>. DEFINE d == [disk EXCEPT !.marker = "initializing"]
  <2>1. /\ d \in Directory /\ d.torn = disk.torn /\ d.journal = disk.journal
        /\ d.marker = "initializing" /\ d.journal = None /\ d.checkpoint = None /\ ~d.torn
    BY <1>0, <1>2 DEF NewDirectory, Directory, Markers
  <2>. HIDE DEF d
  <2>2. GoodFiles(d) /\ d.marker # None
    BY <2>1, TypesOfNone DEF GoodFiles
  <2>3. Opening("marker", "files", d)
    BY <1>2 DEF d
  <2>. QED  BY <2>1, <2>2, <2>3, OpeningWrite, OpeningStep
<1>. QED  BY <1>1, <1>2 DEF ReadMarker

LEMMA PrepareFilesStep == StoreInv /\ PrepareFiles => StoreInv'
<1>. SUFFICES ASSUME StoreInv, PrepareFiles PROVE StoreInv'
  OBVIOUS
<1>0. disk \in Directory /\ GoodFiles(disk)
  BY DEF StoreInv, StoreTypes, FilesSound, Holds
<1>1. CASE disk.journal # None /\ disk.checkpoint # None /\ Opening("files", "replay", disk)
  BY <1>0, <1>1, OpeningWrite, OpeningStep
<1>2. CASE /\ disk.marker = "initializing" /\ disk.journal = None /\ disk.checkpoint = None
           /\ Opening("files", "files", [disk EXCEPT !.journal = <<>>])
  <2>. DEFINE d == [disk EXCEPT !.journal = <<>>]
  <2>1. /\ d \in Directory /\ d.torn = disk.torn /\ d.journal = <<>>
        /\ d.marker = "initializing" /\ d.checkpoint = None /\ ~d.torn
    <3>1. <<>> \in Seq(Records) \cup {None} /\ ~disk.torn
      BY <1>0, <1>2 DEF GoodFiles
    <3>. QED  BY <1>0, <1>2, <3>1 DEF Directory
  <2>2. Opening("files", "files", d)
    BY <1>2
  <2>. HIDE DEF d
  <2>3. GoodFiles(d) /\ d.marker # None
    BY <2>1, TypesOfNone DEF GoodFiles, NoRepeats
  <2>. QED  BY <1>2, <2>1, <2>2, <2>3, OpeningWrite, OpeningStep
<1>3. CASE /\ disk.marker = "initializing" /\ disk.journal = <<>> /\ ~disk.torn
           /\ disk.checkpoint = None
           /\ Opening("files", "replay", [disk EXCEPT !.checkpoint = 0])
  <2>. DEFINE d == [disk EXCEPT !.checkpoint = 0]
  <2>1. /\ d \in Directory /\ d.torn = disk.torn /\ d.journal = <<>>
        /\ d.marker = "initializing" /\ d.checkpoint = 0 /\ ~d.torn
    BY <1>0, <1>3 DEF Directory
  <2>2. Opening("files", "replay", d)
    BY <1>3
  <2>. HIDE DEF d
  <2>3. GoodFiles(d) /\ d.marker # None
    BY <2>1, TypesOfNone, SoundEmpty DEF GoodFiles, NoRepeats
  <2>. QED  BY <1>3, <2>1, <2>2, <2>3, TypesOfNone, OpeningWrite, OpeningStep
<1>. QED  BY <1>1, <1>2, <1>3 DEF PrepareFiles

(* The commands of a journal of records are commands.                      *)
LEMMA UserLogType ==
  ASSUME NEW j \in Seq(Records)
  PROVE  UserLog(j) \in Seq(Commands)
<1>. DEFINE N == Len(j)
<1>1. N \in Nat /\ j # None /\ \A n \in 1 .. N : j[n] \in Records
  BY TypesOfNone, ElementOfSeq
<1>2. PICK f : Loop(j, f, N)
  BY <1>1, LoopExists
<1>. DEFINE S == {n \in Nat : n <= N => f[n] \in Seq(Commands)}
<1>3. 0 \in S
  BY <1>1, <1>2 DEF Loop
<1>4. ASSUME NEW n \in Nat, n \in S PROVE n + 1 \in S
  <2>. SUFFICES ASSUME n + 1 <= N PROVE f[n + 1] \in Seq(Commands)
    OBVIOUS
  <2>1. n + 1 \in 0 .. N /\ n + 1 \in 1 .. N /\ n + 1 # 0 /\ (n + 1) - 1 = n /\ n <= N
    BY <1>1
  <2>2. f[n] \in Seq(Commands)
    BY <1>4, <2>1
  <2>3. f[n + 1] = IF j[n + 1].id \in Ids THEN Append(f[n], j[n + 1]) ELSE f[n]
    BY <1>2, <2>1 DEF Loop
  <2>4. j[n + 1].id \in Ids => j[n + 1] \in Commands
    BY <1>1, <2>1, RecordFacts
  <2>. QED  BY <2>2, <2>3, <2>4
<1>. HIDE DEF S
<1>5. Nat \subseteq S
  BY <1>3, <1>4, InductiveSet
<1>6. UserLog(j) = f[N]
  BY <1>1, <1>2, UserLogIsLoop
<1>. QED  BY <1>1, <1>5, <1>6 DEF S

(* An append loses nothing that was shown or given.                        *)
LEMMA KeepsAppend ==
  ASSUME NEW d, NEW e, NEW j \in Seq(Records), NEW r \in Records, d.journal = j,
         e.journal = Append(j, r), NEW logs, logs \subseteq Seq(Commands), NEW receipts,
         Keeps(d, logs, receipts)
  PROVE  Keeps(e, logs, receipts)
<1>1. /\ DOMAIN j = 1 .. Len(j) /\ DOMAIN Append(j, r) = 1 .. Len(j) + 1 /\ Len(j) \in Nat
      /\ \A i \in 1 .. Len(j) : Append(j, r)[i] = j[i]
      /\ Append(j, r) # None
  BY AppendFacts, TypesOfNone
<1>2. \A t \in receipts :
        t.sequence \in DOMAIN e.journal /\ e.journal[t.sequence] = t.record
  BY <1>1 DEF Keeps
<1>3. \A s \in logs : IsPrefix(s, UserLog(e.journal))
  <2>1. IsPrefix(UserLog(j), UserLog(e.journal)) /\ UserLog(e.journal) \in Seq(Commands)
    <3>1. UserLog(j) \in Seq(Commands)
      BY UserLogType
    <3>2. CASE r.id \in Ids
      <4>1. r \in Commands
        BY <3>2, RecordFacts
      <4>2. UserLog(Append(j, r)) = Append(UserLog(j), r)
        BY <3>2, UserLogAppend, TypesOfNone
      <4>. QED  BY <3>1, <4>1, <4>2, PrefixOfAppend
    <3>3. CASE r.id \notin Ids
      BY <3>1, <3>3, UserLogAppend, TypesOfNone, PrefixReflexive
    <3>. QED  BY <3>2, <3>3
  <2>2. UserLog(j) \in Seq(Commands) /\ \A s \in logs : IsPrefix(s, UserLog(j))
    BY UserLogType DEF Keeps
  <2>. QED  BY <2>1, <2>2, PrefixTransitive
<1>4. receipts # {} => e.journal # None
  BY <1>1
<1>. QED  BY <1>2, <1>3, <1>4 DEF Keeps

LEMMA NoRepeatsAppend ==
  ASSUME NEW j \in Seq(Records), NEW r \in Records, NoRepeats(j),
         \A n \in DOMAIN j : j[n].id # r.id
  PROVE  NoRepeats(Append(j, r))
<1>. DEFINE k == Append(j, r)
<1>1. /\ DOMAIN j = 1 .. Len(j) /\ DOMAIN k = 1 .. Len(j) + 1 /\ Len(j) \in Nat
      /\ \A i \in 1 .. Len(j) : k[i] = j[i]
      /\ k[Len(j) + 1] = r
  BY AppendFacts
<1>. HIDE DEF k
<1>2. ASSUME NEW m \in DOMAIN k, NEW n \in DOMAIN k, k[m].id = k[n].id PROVE m = n
  <2>1. \A i \in DOMAIN k : i = Len(j) + 1 \/ i \in 1 .. Len(j)
    BY <1>1
  <2>. QED  BY <1>1, <1>2, <2>1 DEF NoRepeats
<1>3. NoRepeats(k)
  BY <1>2 DEF NoRepeats
<1>. QED  BY <1>3 DEF k

(* The files that replay finds whole can take the system record.           *)
LEMMA CutoverIsGood ==
  ASSUME NEW d \in Directory, GoodFiles(d), d.journal # None, d.checkpoint # None,
         CutoversOf(d.journal) = {}, NEW e, e = [d EXCEPT !.journal = Append(@, Cutover)]
  PROVE  /\ GoodFiles(e) /\ e \in Directory /\ CutoversOf(e.journal) # {}
         /\ d.journal \in Seq(Records) /\ e.journal # None
<1>. DEFINE j == d.journal
<1>1. /\ j \in Seq(Records) /\ d.checkpoint \in Nat /\ Sound(d) /\ NoRepeats(j)
      /\ d.marker # None
  BY DEF Directory, GoodFiles, NewDirectory
<1>2. /\ e.journal = Append(j, Cutover) /\ e.marker = d.marker
      /\ e.checkpoint = d.checkpoint /\ Append(j, Cutover) \in Seq(Records)
      /\ e.torn = d.torn /\ e \in Directory
  <2>1. Append(j, Cutover) \in Seq(Records)
    BY <1>1, RecordFacts, AppendFacts
  <2>. QED  BY <2>1 DEF Directory
<1>3. Sound(e) /\ CutoversOf(e.journal) # {}
  BY <1>1, <1>2, SoundCutover
<1>4. NoRepeats(e.journal)
  <2>1. ASSUME NEW n \in DOMAIN j PROVE j[n].id # Cutover.id
    <3>1. j[n] \in Records /\ j[n] # Cutover
      BY <1>1, ElementOfSeq DEF CutoversOf
    <3>. QED  BY <3>1, RecordFacts DEF Records
  <2>. QED  BY <1>1, <1>2, <2>1, RecordFacts, NoRepeatsAppend
<1>5. e.journal # None /\ e.checkpoint # None
  BY <1>1, <1>2, TypesOfNone
<1>. QED  BY <1>1, <1>2, <1>3, <1>4, <1>5 DEF GoodFiles

LEMMA ReplayStep == StoreInv /\ Replay => StoreInv'
<1>. SUFFICES ASSUME StoreInv, Replay PROVE StoreInv'
  OBVIOUS
<1>0. /\ disk \in Directory /\ GoodFiles(disk) /\ disk.journal # None /\ disk.checkpoint # None
      /\ ~disk.torn
  BY DEF StoreInv, StoreTypes, FilesSound, Holds, ProcessSound, Replay, ReplayFits, Readable
<1>1. CASE CutoversOf(disk.journal) # {} /\ Opening("replay", "checkpoint", disk)
  BY <1>0, <1>1, OpeningWrite, OpeningStep
<1>2. CASE /\ CutoversOf(disk.journal) = {}
           /\ Opening("replay", "sealed", [disk EXCEPT !.journal = Append(@, Cutover)])
  <2>. DEFINE e == [disk EXCEPT !.journal = Append(@, Cutover)]
  <2>1. Opening("replay", "sealed", e)
    BY <1>2
  <2>2. /\ GoodFiles(e) /\ e \in Directory /\ CutoversOf(e.journal) # {}
        /\ disk.journal \in Seq(Records) /\ e.journal # None
    BY <1>0, <1>2, CutoverIsGood
  <2>3. /\ e.journal = Append(disk.journal, Cutover) /\ e.torn = disk.torn
        /\ e.checkpoint = disk.checkpoint
    BY <1>0 DEF Directory
  <2>4. [e EXCEPT !.journal = Front(@)] = disk
    <3>1. Front(Append(disk.journal, Cutover)) = disk.journal
      BY <2>2, RecordFacts, AppendFacts
    <3>. QED  BY <1>0, <3>1 DEF Directory
  <2>. HIDE DEF e
  <2>5. /\ pc = "replay" /\ pc' = "sealed" /\ disk' = e /\ safe' \in Directory
        /\ weather = "power" => safe' = disk
        /\ UNCHANGED <<mem, fault, queue, job, answers, shown, told, clock, weather>>
    BY <2>1, OpeningWrite DEF GoOn, serving, world
  <2>6. job = None /\ queue = <<>>
    BY <2>5 DEF StoreInv, MemorySound
  <2>7. Appending' /\ Before' = disk
    BY <2>4, <2>5 DEF Appending, Before
  <2>8. StoreTypes'
    BY <2>2, <2>5 DEF StoreInv, StoreTypes
  <2>9. Keeps(e, shown, told)
    <3>1. Keeps(disk, shown, told) /\ shown \subseteq Seq(Commands)
      BY DEF StoreInv, FilesSound, Holds, StoreTypes
    <3>. QED  BY <2>2, <2>3, <3>1, RecordFacts, KeepsAppend
  <2>10. FilesSound' /\ PowerSound'
    BY <2>2, <2>3, <2>5, <2>7, <2>9, FilesAfterAppend
  <2>11. ProcessSound'
    BY <1>0, <2>2, <2>3, <2>5, <2>7 DEF ProcessSound
  <2>12. MemorySound'
    BY <2>5, <2>6, <2>7 DEF MemorySound
  <2>. QED  BY <2>8, <2>10, <2>11, <2>12 DEF StoreInv
<1>. QED  BY <1>1, <1>2 DEF Replay

(* Good files with the system record stay good with a new checkpoint.      *)
LEMMA RestampedIsGood ==
  ASSUME NEW d \in Directory, GoodFiles(d), d.journal # None, d.checkpoint # None,
         CutoversOf(d.journal) # {}, NEW e \in Directory, e.journal = d.journal,
         e.checkpoint \in Nat, e.checkpoint <= Len(d.journal),
         \/ e.marker = d.marker /\ e.checkpoint \in {d.checkpoint, Len(d.journal)}
         \/ e.marker = "current"
  PROVE  GoodFiles(e)
<1>1. Sound(d) /\ NoRepeats(d.journal) /\ d.marker # None
  BY DEF GoodFiles, NewDirectory
<1>2. Sound(e)
  BY <1>1, SoundRestamped
<1>3. e.marker # None /\ e.checkpoint # None
  BY <1>1, TypesOfNone
<1>. QED  BY <1>1, <1>2, <1>3 DEF GoodFiles

(* What the files are between the replay and the end of open.              *)
LEMMA OpeningFiles ==
  ASSUME StoreInv, pc \in {"checkpoint", "sealed", "stamp", "opened"}
  PROVE  /\ disk \in Directory /\ GoodFiles(disk) /\ disk.journal # None
         /\ disk.checkpoint # None /\ ~disk.torn /\ CutoversOf(disk.journal) # {}
         /\ disk.journal \in Seq(Records) /\ disk.checkpoint \in Nat
         /\ Len(disk.journal) \in Nat /\ disk.checkpoint <= Len(disk.journal)
         /\ job = None /\ queue = <<>>
<1>1. /\ disk \in Directory /\ GoodFiles(disk) /\ disk.journal # None
      /\ disk.checkpoint # None /\ ~disk.torn /\ CutoversOf(disk.journal) # {}
      /\ job = None /\ queue = <<>>
  BY DEF StoreInv, StoreTypes, FilesSound, Holds, ProcessSound, MemorySound
<1>2. disk.journal \in Seq(Records) /\ disk.checkpoint \in Nat
  BY <1>1 DEF Directory
<1>3. disk.checkpoint <= Len(disk.journal)
  BY <1>1 DEF GoodFiles, Sound, CheckpointFits
<1>. QED  BY <1>1, <1>2, <1>3

LEMMA WriteHeadStep == StoreInv /\ WriteHead => StoreInv'
<1>. SUFFICES ASSUME StoreInv, WriteHead PROVE StoreInv'
  OBVIOUS
<1>. DEFINE head == [disk EXCEPT !.checkpoint = Len(disk.journal)]
<1>1. PICK from \in {"checkpoint", "sealed"} :
        /\ GoOn(from, "stamp") /\ disk' = head /\ safe' \in Directory
        /\ weather = "power" => safe' = disk
  <2>1. CASE Opening("checkpoint", "stamp", head)
    BY <2>1, OpeningWrite
  <2>2. CASE GoOn("sealed", "stamp") /\ WriteAfterAppend(head)
    BY <2>2, SafeAfterAppend
  <2>. QED  BY <2>1, <2>2 DEF WriteHead
<1>2. pc \in {"checkpoint", "sealed", "stamp", "opened"}
  BY <1>1 DEF GoOn
<1>3. /\ disk \in Directory /\ GoodFiles(disk) /\ disk.journal # None
      /\ disk.checkpoint # None /\ ~disk.torn /\ CutoversOf(disk.journal) # {}
      /\ Len(disk.journal) \in Nat
  BY <1>2, OpeningFiles
<1>4. /\ head \in Directory /\ head.torn = disk.torn /\ head.journal = disk.journal
      /\ head.marker = disk.marker /\ head.checkpoint = Len(disk.journal)
  BY <1>3 DEF Directory
<1>. HIDE DEF head
<1>5. GoodFiles(head)
  <2>1. head.checkpoint \in Nat /\ head.checkpoint <= Len(disk.journal)
    BY <1>3, <1>4
  <2>. QED  BY <1>3, <1>4, <2>1, RestampedIsGood
<1>6. head.checkpoint # None
  BY <1>3, <1>4, TypesOfNone
<1>. QED  BY <1>1, <1>3, <1>4, <1>5, <1>6, OpeningStep

LEMMA StampMarkerStep == StoreInv /\ StampMarker => StoreInv'
<1>. SUFFICES ASSUME StoreInv, StampMarker PROVE StoreInv'
  OBVIOUS
<1>. DEFINE e == [disk EXCEPT !.marker = "current"]
<1>1. Opening("stamp", "opened", e)
  BY DEF StampMarker
<1>2. pc \in {"checkpoint", "sealed", "stamp", "opened"}
  BY <1>1 DEF Opening, GoOn
<1>3. /\ disk \in Directory /\ GoodFiles(disk) /\ disk.journal # None
      /\ disk.checkpoint # None /\ ~disk.torn /\ CutoversOf(disk.journal) # {}
      /\ disk.checkpoint \in Nat /\ disk.checkpoint <= Len(disk.journal)
  BY <1>2, OpeningFiles
<1>4. /\ e \in Directory /\ e.torn = disk.torn /\ e.journal = disk.journal
      /\ e.marker = "current" /\ e.checkpoint = disk.checkpoint
  BY <1>3 DEF Directory, Markers
<1>. HIDE DEF e
<1>5. GoodFiles(e)
  BY <1>3, <1>4, RestampedIsGood
<1>. QED  BY <1>1, <1>3, <1>4, <1>5, OpeningWrite, OpeningStep

LEMMA OpenedStep == StoreInv /\ Opened => StoreInv'
<1>. SUFFICES ASSUME StoreInv, Opened PROVE StoreInv'
  OBVIOUS
<1>1. /\ pc = "opened" /\ pc' = "up" /\ Write(disk)
      /\ mem' = [log |-> disk.journal, checkpoint |-> disk.checkpoint,
                 kept |-> {r.id : r \in ToSet(disk.journal)} \cap Ids]
      /\ UNCHANGED <<fault, queue, job, answers, shown, told, clock, weather>>
  BY DEF Opened, world
<1>2. /\ disk \in Directory /\ GoodFiles(disk) /\ disk.journal # None
      /\ disk.checkpoint # None /\ ~disk.torn /\ CutoversOf(disk.journal) # {}
      /\ disk.journal \in Seq(Records) /\ disk.checkpoint \in Nat
      /\ disk.checkpoint <= Len(disk.journal)
      /\ job = None /\ queue = <<>>
  BY <1>1, OpeningFiles
<1>3. ~Appending /\ ~Appending' /\ disk.marker = "current"
  BY <1>1, <1>2 DEF Appending, StoreInv, ProcessSound
<1>4. disk' = disk /\ safe' \in Directory /\ (weather = "power" => safe' = disk)
  BY <1>1, <1>3, SafeAfterWrite
<1>5. StoreTypes'
  <2>1. mem' \in Memory
    BY <1>1, <1>2 DEF Memory
  <2>. QED  BY <1>1, <1>2, <1>4, <2>1 DEF StoreInv, StoreTypes
<1>6. FilesSound' /\ PowerSound'
  <2>1. Keeps(disk, shown, told)
    BY DEF StoreInv, FilesSound, Holds
  <2>. QED  BY <1>1, <1>2, <1>3, <1>4, <2>1, FilesAfterWrite
<1>7. ProcessSound'
  BY <1>1, <1>2, <1>4 DEF ProcessSound
<1>8. MemorySound'
  BY <1>1, <1>2, <1>3, <1>4 DEF MemorySound
<1>. QED  BY <1>5, <1>6, <1>7, <1>8 DEF StoreInv

LEMMA RefuseToOpenStep == StoreInv /\ RefuseToOpen => StoreInv'
<1>. SUFFICES ASSUME StoreInv, RefuseToOpen PROVE StoreInv'
  OBVIOUS
<1>1. /\ pc \in {"marker", "files", "replay"} /\ pc' = "down" /\ Write(disk)
      /\ UNCHANGED <<mem, fault, queue, job, answers, shown, told, clock, weather>>
  BY DEF RefuseToOpen, Unusable, OpenFails, serving, world
<1>2. ~Appending /\ ~Appending' /\ job = None /\ queue = <<>>
  BY <1>1 DEF Appending, StoreInv, MemorySound
<1>3. disk' = disk /\ safe' \in Directory /\ (weather = "power" => safe' = disk)
  BY <1>1, <1>2, SafeAfterWrite
<1>4. StoreTypes'
  BY <1>1, <1>3 DEF StoreInv, StoreTypes
<1>5. FilesSound' /\ PowerSound'
  <2>1. Keeps(disk, shown, told) /\ GoodFiles(disk)
    BY DEF StoreInv, FilesSound, Holds
  <2>. QED  BY <1>1, <1>2, <1>3, <2>1, FilesAfterWrite
<1>6. ProcessSound' /\ MemorySound'
  BY <1>1, <1>2, <1>3 DEF ProcessSound, MemorySound
<1>. QED  BY <1>4, <1>5, <1>6 DEF StoreInv

LEMMA OpenStepKeeps == StoreInv /\ OpenStep => StoreInv'
BY AcquireWriterLockStep, ReadMarkerStep, PrepareFilesStep, ReplayStep, RefuseToOpenStep,
   WriteHeadStep, StampMarkerStep, OpenedStep DEF OpenStep

-----------------------------------------------------------------------------
(* The steps of mutate. *)

Results == {"fault", "refused", "replayed", "accepted"}
Answers == [from : Froms, result : Results, record : Commands \cup {None}]

(* The call at the head of the queue.                                      *)
LEMMA BeginFacts ==
  ASSUME StoreInv, NEW from, NEW c, Begin(from, c)
  PROVE  /\ job = None /\ ~Appending /\ pc = "up" /\ from \in Froms /\ c \in Commands
         /\ queue' \in Seq([from : Froms, command : Commands])
<1>1. queue \in Seq([from : Froms, command : Commands]) /\ queue # <<>>
  BY DEF StoreInv, StoreTypes, Begin
<1>2. queue[1] \in [from : Froms, command : Commands]
  <2>1. Len(queue) \in Nat /\ Len(queue) # 0
    BY <1>1, EmptySeq
  <2>2. 1 \in 1 .. Len(queue)
    BY <2>1
  <2>. QED  BY <1>1, <2>2, ElementOfSeq
<1>3. from \in Froms /\ c \in Commands
  BY <1>2 DEF Begin
<1>4. queue' \in Seq([from : Froms, command : Commands])
  BY <1>1 DEF Begin
<1>5. job = None /\ pc = "up"
  BY <1>1 DEF Begin, StoreInv, MemorySound
<1>. QED  BY <1>3, <1>4, <1>5 DEF Appending

LEMMA StampedFacts ==
  ASSUME StoreInv, NEW c \in Commands
  PROVE  Stamped(c) \in Commands /\ Stamped(c).id = c.id /\ Stamped(c).body = c.body
<1>1. mem.log \in Seq(Records) /\ clock \in Times
  BY DEF StoreInv, StoreTypes, Memory
<1>2. \A r \in ToSet(mem.log) : r \in Records
  BY <1>1, ElementOfSeq DEF ToSet
<1>3. \A r \in Records : r.at \in Times
  BY TypesOfNone DEF Records, Commands, Cutover, Legacy, System
<1>4. Prior(mem.log, c.id) # {} =>
        (CHOOSE r \in Prior(mem.log, c.id) : TRUE).at \in Times
  BY <1>2, <1>3 DEF Prior
<1>5. Stamped(c) = [c EXCEPT !.at = Stamped(c).at] /\ Stamped(c).at \in Times
  BY <1>1, <1>4 DEF Stamped, Commands
<1>. QED  BY <1>5 DEF Commands

(* What an open store holds between two writes.                            *)
LEMMA ServingFiles ==
  ASSUME StoreInv, pc = "up", ~fault, ~Appending
  PROVE  /\ disk \in Directory /\ GoodFiles(disk) /\ Sound(disk) /\ NoRepeats(mem.log)
         /\ disk.journal = mem.log /\ disk.journal # None /\ disk.checkpoint # None
         /\ disk.checkpoint \in Nat /\ disk.marker = "current" /\ ~disk.torn
         /\ CutoversOf(mem.log) # {}
         /\ mem \in Memory /\ mem.log \in Seq(Records) /\ Len(mem.log) \in Nat
         /\ mem.checkpoint \in Nat /\ mem.checkpoint <= Len(mem.log)
<1>1. /\ disk \in Directory /\ GoodFiles(disk)
      /\ disk.journal = mem.log /\ disk.journal # None /\ disk.checkpoint # None
      /\ disk.marker = "current" /\ ~disk.torn /\ CutoversOf(mem.log) # {}
      /\ mem \in Memory /\ mem.checkpoint <= Len(mem.log)
  BY DEF StoreInv, StoreTypes, FilesSound, Holds, ProcessSound, MemorySound
<1>2. Sound(disk) /\ NoRepeats(mem.log)
  BY <1>1 DEF GoodFiles
<1>3. mem.log \in Seq(Records) /\ mem.checkpoint \in Nat /\ disk.checkpoint \in Nat
  BY <1>1 DEF Memory, Directory
<1>. QED  BY <1>1, <1>2, <1>3

LEMMA SettleStep ==
  ASSUME StoreInv, NEW from, NEW c, NEW result \in Results, Settle(from, c, result),
         UNCHANGED fault \/ fault' = TRUE
  PROVE  StoreInv'
<1>1. /\ job = None /\ ~Appending /\ pc = "up" /\ from \in Froms
      /\ queue' \in Seq([from : Froms, command : Commands])
  BY BeginFacts DEF Settle
<1>2. /\ UNCHANGED <<disk, safe, mem, job, shown, told, pc, clock, weather>>
      /\ answers' = answers \cup {[from |-> from, result |-> result, record |-> None]}
  BY DEF Settle, Answer, steady, world
<1>3. answers' \subseteq Answers
  BY <1>1, <1>2 DEF StoreInv, StoreTypes, Answers, Results
<1>4. CASE UNCHANGED fault
  BY <1>1, <1>2, <1>3, <1>4, QuietStep DEF StoreInv, StoreTypes, Answers, Results
<1>5. CASE fault' = TRUE
  <2>1. ~Appending' /\ Before' = Before /\ Appending' = Appending
    BY <1>1, <1>2 DEF Appending, Before
  <2>2. StoreTypes'
    BY <1>1, <1>2, <1>3, <1>5 DEF StoreInv, StoreTypes, Answers, Results
  <2>3. FilesSound'
    BY <1>2, <2>1 DEF StoreInv, FilesSound, Holds
  <2>4. ProcessSound' /\ PowerSound'
    BY <1>2, <2>1 DEF StoreInv, ProcessSound, PowerSound
  <2>5. MemorySound'
    BY <1>1, <1>2, <1>5 DEF MemorySound
  <2>. QED  BY <2>2, <2>3, <2>4, <2>5 DEF StoreInv
<1>. QED  BY <1>4, <1>5

(* What Started changes.                                                   *)
LEMMA StartedFacts ==
  ASSUME StoreInv, NEW from, NEW c, NEW stage \in {"append", "again"}, Started(from, c, stage)
  PROVE  /\ ~fault /\ pc = "up" /\ job = None /\ ~Appending /\ c \in Commands
         /\ queue' \in Seq([from : Froms, command : Commands])
         /\ job' = [from |-> from, record |-> Stamped(c), stage |-> stage]
         /\ job' \in Jobs /\ job' # None
         /\ UNCHANGED <<mem, fault, answers, shown, told, pc, clock, weather>>
         /\ c.body \notin Raw
         /\ Known(c) => Stamped(c) \in ToSet(mem.log)
         /\ ~Known(c) => Applies(UserLog(mem.log), Stamped(c))
<1>1. /\ job = None /\ ~Appending /\ pc = "up" /\ from \in Froms /\ c \in Commands
      /\ queue' \in Seq([from : Froms, command : Commands])
  BY BeginFacts DEF Started
<1>2. /\ ~fault /\ ~Inadmissible(c)
      /\ job' = [from |-> from, record |-> Stamped(c), stage |-> stage]
      /\ UNCHANGED <<mem, fault, answers, shown, told, pc, clock, weather>>
  BY DEF Started, steady, world
<1>3. job' \in Jobs /\ job' # None
  <2>1. Stamped(c) \in Commands
    BY <1>1, StampedFacts
  <2>2. job' \in Jobs
    BY <1>1, <1>2, <2>1 DEF Jobs, Froms
  <2>. QED  BY <2>2, TypesOfNone
<1>4. /\ c.body \notin Raw
      /\ Known(c) => Stamped(c) \in ToSet(mem.log)
      /\ ~Known(c) => Applies(UserLog(mem.log), Stamped(c))
  BY <1>2 DEF Inadmissible
<1>. QED  BY <1>1, <1>2, <1>3, <1>4

LEMMA BeginAppendStep ==
  ASSUME StoreInv, NEW from, NEW c, BeginAppend(from, c)
  PROVE  StoreInv'
<1>. DEFINE r == Stamped(c)
            e == [disk EXCEPT !.journal = Append(disk.journal, r)]
<1>1. /\ ~Known(c) /\ Room /\ Started(from, c, "append") /\ Write(e)
  BY DEF BeginAppend, Appended
<1>2. /\ ~fault /\ pc = "up" /\ job = None /\ ~Appending /\ c \in Commands
      /\ queue' \in Seq([from : Froms, command : Commands])
      /\ job' = [from |-> from, record |-> r, stage |-> "append"]
      /\ job' \in Jobs /\ job' # None
      /\ UNCHANGED <<mem, fault, answers, shown, told, pc, clock, weather>>
      /\ c.body \notin Raw /\ Applies(UserLog(mem.log), r)
  BY <1>1, StartedFacts
<1>3. r \in Commands /\ r.id = c.id /\ r.body = c.body
  BY <1>2, StampedFacts
<1>. HIDE DEF r
<1>4. /\ disk \in Directory /\ GoodFiles(disk) /\ Sound(disk) /\ NoRepeats(mem.log)
      /\ disk.journal = mem.log /\ disk.checkpoint # None
      /\ disk.checkpoint \in Nat /\ disk.marker = "current" /\ ~disk.torn
      /\ CutoversOf(mem.log) # {}
      /\ mem.log \in Seq(Records) /\ mem.checkpoint <= Len(mem.log)
  BY <1>2, ServingFiles
<1>5. r \in Records /\ Append(mem.log, r) \in Seq(Records)
  BY <1>3, <1>4, AppendFacts DEF Records
<1>6. /\ e.journal = Append(mem.log, r) /\ e.marker = disk.marker /\ e \in Directory
      /\ e.checkpoint = disk.checkpoint /\ e.torn = disk.torn
      /\ [e EXCEPT !.journal = Front(@)] = disk
  <2>1. Front(Append(mem.log, r)) = mem.log
    BY <1>4, <1>5, AppendFacts
  <2>. QED  BY <1>4, <1>5, <2>1 DEF Directory
<1>. HIDE DEF e
<1>7. Sound(e)
  BY <1>1, <1>2, <1>3, <1>4, <1>6, SoundAppend DEF Room
<1>8. NoRepeats(e.journal)
  <2>1. ASSUME NEW n \in DOMAIN mem.log PROVE mem.log[n].id # r.id
    <3>1. mem.log[n] \in ToSet(mem.log)
      BY DEF ToSet
    <3>. QED  BY <1>1, <1>3, <3>1 DEF Known, Prior
  <2>. QED  BY <1>4, <1>5, <1>6, <2>1, NoRepeatsAppend
<1>9. e.journal # None /\ e.checkpoint # None /\ e.marker # None
  BY <1>4, <1>5, <1>6, TypesOfNone
<1>10. GoodFiles(e)
  BY <1>7, <1>8, <1>9 DEF GoodFiles
<1>11. Keeps(e, shown, told)
  <2>1. Keeps(disk, shown, told) /\ shown \subseteq Seq(Commands)
    BY DEF StoreInv, FilesSound, Holds, StoreTypes
  <2>. QED  BY <1>4, <1>5, <1>6, <2>1, KeepsAppend
<1>12. disk' = e /\ safe' \in Directory /\ (weather = "power" => safe' = disk)
  BY <1>1, <1>2, SafeAfterWrite
<1>13. Appending' /\ Before' = disk
  BY <1>2, <1>6, <1>12 DEF Appending, Before
<1>14. StoreTypes'
  BY <1>2, <1>6, <1>12 DEF StoreInv, StoreTypes
<1>15. FilesSound' /\ PowerSound'
  BY <1>2, <1>6, <1>10, <1>11, <1>12, <1>13, FilesAfterAppend
<1>16. ProcessSound'
  BY <1>2, <1>9, <1>12 DEF ProcessSound
<1>17. MemorySound'
  BY <1>2, <1>4, <1>6, <1>12, <1>13 DEF MemorySound
<1>. QED  BY <1>14, <1>15, <1>16, <1>17 DEF StoreInv

LEMMA BeginReplayStep ==
  ASSUME StoreInv, NEW from, NEW c, BeginReplay(from, c)
  PROVE  StoreInv'
<1>. DEFINE r == Stamped(c)
            e == [disk EXCEPT !.checkpoint = Len(mem.log)]
<1>1. Known(c) /\ Started(from, c, "again") /\ Write(e)
  BY DEF BeginReplay, CheckpointAt
<1>2. /\ ~fault /\ pc = "up" /\ job = None /\ ~Appending
      /\ queue' \in Seq([from : Froms, command : Commands])
      /\ job' = [from |-> from, record |-> r, stage |-> "again"]
      /\ job' \in Jobs /\ job' # None
      /\ UNCHANGED <<mem, fault, answers, shown, told, pc, clock, weather>>
      /\ r \in ToSet(mem.log)
  BY <1>1, StartedFacts
<1>. HIDE DEF r
<1>3. /\ disk \in Directory /\ GoodFiles(disk) /\ disk.journal # None
      /\ disk.journal = mem.log /\ disk.checkpoint # None
      /\ disk.marker = "current" /\ ~disk.torn
      /\ CutoversOf(mem.log) # {}
      /\ Len(mem.log) \in Nat /\ mem.checkpoint <= Len(mem.log)
  BY <1>2, ServingFiles
<1>4. /\ e \in Directory /\ e.torn = disk.torn /\ e.journal = mem.log
      /\ e.marker = "current" /\ e.checkpoint = Len(mem.log)
  BY <1>3 DEF Directory
<1>. HIDE DEF e
<1>5. e.checkpoint \in Nat /\ e.checkpoint <= Len(mem.log)
  BY <1>3, <1>4
<1>6. GoodFiles(e)
  BY <1>3, <1>4, <1>5, RestampedIsGood
<1>7. disk' = e /\ safe' \in Directory /\ (weather = "power" => safe' = disk)
  BY <1>1, <1>2, SafeAfterWrite
<1>8. ~Appending'
  BY <1>2 DEF Appending
<1>9. StoreTypes'
  BY <1>2, <1>4, <1>7 DEF StoreInv, StoreTypes
<1>10. FilesSound' /\ PowerSound'
  <2>1. Keeps(disk, shown, told)
    BY DEF StoreInv, FilesSound, Holds
  <2>2. Keeps(e, shown, told)
    BY <1>3, <1>4, <2>1, KeepsJournal
  <2>. QED  BY <1>2, <1>3, <1>4, <1>6, <1>7, <1>8, <2>1, <2>2, FilesAfterWrite
<1>11. ProcessSound'
  BY <1>2, <1>3, <1>4, <1>5, <1>7, TypesOfNone DEF ProcessSound
<1>12. MemorySound'
  BY <1>2, <1>3, <1>4, <1>7, <1>8 DEF MemorySound
<1>. QED  BY <1>9, <1>10, <1>11, <1>12 DEF StoreInv

(* What an append in flight is an append to.                               *)
LEMMA AppendingFiles ==
  ASSUME StoreInv, Appending
  PROVE  /\ disk \in Directory /\ Before \in Directory
         /\ Before.journal \in Seq(Records) /\ Before.journal # None
         /\ Before.checkpoint # None /\ Before.marker = disk.marker
         /\ Before.torn = disk.torn /\ Before.checkpoint = disk.checkpoint
         /\ \E r \in Records : disk.journal = Append(Before.journal, r)
         /\ pc = "up" =>
              /\ job \in Jobs /\ job.stage = "append" /\ ~fault
              /\ Before.journal = mem.log
              /\ disk.journal = Append(mem.log, job.record)
<1>0. /\ disk \in Directory /\ disk.checkpoint # None /\ disk.journal # None
      /\ Before = [disk EXCEPT !.journal = Front(disk.journal)]
  BY DEF StoreInv, StoreTypes, ProcessSound, MemorySound, Before, Appending
<1>1. /\ Before.marker = disk.marker /\ Before.torn = disk.torn
      /\ Before.checkpoint = disk.checkpoint /\ Before.journal = Front(disk.journal)
  BY <1>0 DEF Directory
<1>2. CASE pc = "sealed"
  <2>1. Before.journal \in Seq(Records) /\ disk.journal = Append(Before.journal, Cutover)
    BY <1>2 DEF StoreInv, ProcessSound
  <2>2. Before \in Directory
    BY <1>0, <1>1, <2>1 DEF Directory
  <2>. QED  BY <1>0, <1>1, <1>2, <2>1, <2>2, RecordFacts, TypesOfNone
<1>3. CASE pc # "sealed"
  <2>1. job # None /\ job.stage = "append" /\ pc = "up" /\ ~fault
    BY <1>3 DEF Appending, StoreInv, MemorySound
  <2>2. disk.journal = Append(mem.log, job.record)
    BY <2>1 DEF StoreInv, MemorySound
  <2>3. mem.log \in Seq(Records) /\ job \in Jobs /\ job.record \in Records
    BY <2>1 DEF StoreInv, StoreTypes, Memory, Jobs, Records
  <2>4. Before.journal = mem.log
    BY <1>1, <2>2, <2>3, AppendFacts
  <2>5. Before \in Directory
    BY <1>0, <1>1, <2>3, <2>4 DEF Directory
  <2>. QED  BY <1>0, <1>1, <2>1, <2>2, <2>3, <2>4, <2>5, TypesOfNone
<1>. QED  BY <1>2, <1>3

LEMMA AdvanceStep == StoreInv /\ Advance => StoreInv'
<1>. SUFFICES ASSUME StoreInv, Advance PROVE StoreInv'
  OBVIOUS
<1>. DEFINE n == Len(mem.log) + 1
            e == [disk EXCEPT !.checkpoint = n]
<1>1. /\ job # None /\ job.stage = "append"
      /\ mem' = [mem EXCEPT !.log = Append(@, job.record)]
      /\ WriteAfterAppend(e)
      /\ job' = [job EXCEPT !.stage = "checkpoint"]
      /\ UNCHANGED <<fault, queue, answers, shown, told, pc, clock, weather>>
  BY DEF Advance, CheckpointAt, steady, world
<1>2. Appending /\ pc = "up"
  BY <1>1 DEF Appending, StoreInv, MemorySound
<1>3. /\ disk \in Directory /\ job \in Jobs /\ ~fault
      /\ disk.journal = Append(mem.log, job.record)
  BY <1>2, AppendingFiles
<1>4. /\ GoodFiles(disk) /\ disk.journal # None /\ disk.checkpoint # None
      /\ mem \in Memory /\ mem.log \in Seq(Records) /\ Len(mem.log) \in Nat
      /\ mem.checkpoint \in Nat /\ mem.checkpoint <= Len(mem.log)
      /\ disk.marker = "current" /\ ~disk.torn
  BY <1>1, <1>2, <1>3
  DEF StoreInv, StoreTypes, FilesSound, Holds, ProcessSound, MemorySound, Memory
<1>5. CutoversOf(disk.journal) # {}
  BY <1>4 DEF GoodFiles, Sound, MarkerBinds
<1>6. /\ job.record \in Records /\ Append(mem.log, job.record) \in Seq(Records)
      /\ Len(disk.journal) = n /\ n \in Nat
      /\ job.record \in ToSet(Append(mem.log, job.record))
  <2>1. job.record \in Records
    BY <1>3 DEF Jobs, Records
  <2>2. /\ Append(mem.log, job.record) \in Seq(Records)
        /\ Len(Append(mem.log, job.record)) = n
        /\ DOMAIN Append(mem.log, job.record) = 1 .. n
        /\ Append(mem.log, job.record)[n] = job.record
    BY <1>4, <2>1, AppendFacts
  <2>3. n \in 1 .. n
    BY <1>4
  <2>. QED  BY <1>3, <1>4, <2>1, <2>2, <2>3 DEF ToSet
<1>7. /\ mem' \in Memory /\ mem'.log = disk.journal /\ mem'.checkpoint = mem.checkpoint
      /\ job' \in Jobs /\ job' # None /\ job'.stage = "checkpoint" /\ job'.record = job.record
  <2>1. mem' \in Memory /\ mem'.log = disk.journal /\ mem'.checkpoint = mem.checkpoint
    BY <1>1, <1>3, <1>4, <1>6 DEF Memory
  <2>2. job' \in Jobs /\ job'.stage = "checkpoint" /\ job'.record = job.record
    BY <1>1, <1>3 DEF Jobs
  <2>. QED  BY <2>1, <2>2, TypesOfNone
<1>8. /\ e \in Directory /\ e.torn = disk.torn /\ e.journal = disk.journal
      /\ e.marker = "current" /\ e.checkpoint = n
  BY <1>3, <1>4, <1>6 DEF Directory
<1>9. disk' = e /\ safe' \in Directory /\ (weather = "power" => safe' = disk)
  BY <1>1, SafeAfterAppend
<1>. HIDE DEF e
<1>10. GoodFiles(e)
  <2>1. e.checkpoint \in Nat /\ e.checkpoint <= Len(disk.journal)
    BY <1>6, <1>8
  <2>. QED  BY <1>3, <1>4, <1>5, <1>8, <2>1, RestampedIsGood
<1>11. ~Appending'
  BY <1>1, <1>2, <1>7 DEF Appending
<1>12. StoreTypes'
  BY <1>1, <1>7, <1>8, <1>9 DEF StoreInv, StoreTypes
<1>13. FilesSound' /\ PowerSound'
  <2>1. Keeps(disk, shown, told)
    BY DEF StoreInv, FilesSound, Holds
  <2>2. Keeps(e, shown, told)
    BY <1>8, <2>1, KeepsJournal
  <2>. QED  BY <1>1, <1>8, <1>9, <1>10, <1>11, <2>1, <2>2, FilesAfterWrite
<1>14. ProcessSound'
  BY <1>1, <1>2, <1>4, <1>6, <1>8, <1>9, TypesOfNone DEF ProcessSound
<1>15. MemorySound'
  <2>1. mem'.checkpoint <= Len(mem'.log)
    BY <1>4, <1>6, <1>7
  <2>. QED  BY <1>1, <1>2, <1>3, <1>4, <1>5, <1>6, <1>7, <1>8, <1>9, <1>11, <2>1 DEF MemorySound
<1>. QED  BY <1>12, <1>13, <1>14, <1>15 DEF StoreInv

LEMMA FinishStep == StoreInv /\ Finish => StoreInv'
<1>. SUFFICES ASSUME StoreInv, Finish PROVE StoreInv'
  OBVIOUS
<1>. DEFINE kept == mem.kept \cup (IF job.stage = "checkpoint" THEN {job.record.id} ELSE {})
            given == [record |-> job.record, sequence |-> PositionOf(job.record)]
<1>1. /\ job # None /\ job.stage \in {"checkpoint", "again"}
      /\ mem' = [mem EXCEPT !.checkpoint = Len(mem.log), !.kept = kept]
      /\ Write(disk)
      /\ told' = told \cup {given}
      /\ shown' = shown \cup {UserLog(mem.log)}
      /\ job' = None
      /\ UNCHANGED <<fault, queue, pc, clock, weather>>
  BY DEF Finish, steady, world
<1>2. job \in Jobs /\ ~Appending /\ pc = "up" /\ ~fault /\ job.record \in ToSet(mem.log)
  BY <1>1 DEF StoreInv, StoreTypes, MemorySound, Appending
<1>3. /\ disk \in Directory /\ GoodFiles(disk)
      /\ disk.journal = mem.log /\ disk.journal # None /\ disk.checkpoint # None
      /\ disk.marker = "current" /\ ~disk.torn
      /\ CutoversOf(mem.log) # {}
      /\ mem \in Memory /\ mem.log \in Seq(Records) /\ Len(mem.log) \in Nat
  BY <1>2, ServingFiles
<1>4. mem' \in Memory /\ mem'.log = mem.log /\ mem'.checkpoint = Len(mem.log)
  <2>1. kept \subseteq Ids
    BY <1>2, <1>3 DEF Memory, Jobs, Commands
  <2>. QED  BY <1>1, <1>3, <2>1 DEF Memory
<1>5. PositionOf(job.record) \in DOMAIN mem.log /\ mem.log[PositionOf(job.record)] = job.record
  <2>1. \E n \in DOMAIN mem.log : mem.log[n] = job.record
    BY <1>2 DEF ToSet
  <2>. QED  BY <2>1 DEF PositionOf
<1>6. given \in [record : Commands, sequence : Nat]
  <2>1. PositionOf(job.record) \in Nat
    BY <1>3, <1>5
  <2>. QED  BY <1>2, <2>1 DEF Jobs
<1>7. answers' \subseteq Answers
  BY <1>2 DEF Finish, Answer, StoreInv, StoreTypes, Answers, Results, Jobs, Froms
<1>8. disk' = disk /\ safe' \in Directory /\ (weather = "power" => safe' = disk)
  BY <1>1, <1>2, SafeAfterWrite
<1>9. ~Appending'
  BY <1>1, <1>2 DEF Appending
<1>10. UserLog(mem.log) \in Seq(Commands)
  BY <1>3, UserLogType
<1>11. StoreTypes'
  BY <1>1, <1>3, <1>4, <1>6, <1>7, <1>8, <1>10 DEF StoreInv, StoreTypes, Answers, Results
<1>12. FilesSound' /\ PowerSound'
  <2>1. Keeps(disk, shown, told)
    BY DEF StoreInv, FilesSound, Holds
  <2>2. IsPrefix(UserLog(mem.log), UserLog(mem.log))
    BY <1>10, PrefixReflexive
  <2>3. given.sequence = PositionOf(job.record) /\ given.record = job.record
    OBVIOUS
  <2>. HIDE DEF given
  <2>4. Keeps(disk, shown', told')
    BY <1>1, <1>3, <1>5, <2>1, <2>2, <2>3 DEF Keeps
  <2>. QED  BY <1>1, <1>3, <1>8, <1>9, <2>4, FilesAfterWrite
<1>13. ProcessSound'
  BY <1>1, <1>2, <1>3, <1>8 DEF ProcessSound
<1>14. MemorySound'
  BY <1>1, <1>2, <1>3, <1>4, <1>8, <1>9 DEF MemorySound
<1>. QED  BY <1>11, <1>12, <1>13, <1>14 DEF StoreInv

LEMMA MutateStepKeeps == StoreInv /\ MutateStep => StoreInv'
<1>. SUFFICES ASSUME StoreInv, MutateStep PROVE StoreInv'
  OBVIOUS
<1>1. ASSUME NEW q \in ToSet(queue), AnswerFault(q.from, q.command) PROVE StoreInv'
  BY <1>1, SettleStep DEF AnswerFault, Results
<1>2. ASSUME NEW q \in ToSet(queue), Refuse(q.from, q.command) PROVE StoreInv'
  BY <1>2, SettleStep DEF Refuse, Results
<1>3. ASSUME NEW q \in ToSet(queue), JournalFull(q.from, q.command) PROVE StoreInv'
  BY <1>3, SettleStep DEF JournalFull, Results
<1>. QED
  BY <1>1, <1>2, <1>3, BeginAppendStep, BeginReplayStep, AdvanceStep, FinishStep DEF MutateStep

-----------------------------------------------------------------------------
(* What comes from outside. *)

LEMMA ReleaseWriterLockStep == StoreInv /\ ReleaseWriterLock => StoreInv'
<1>. SUFFICES ASSUME StoreInv, ReleaseWriterLock PROVE StoreInv'
  OBVIOUS
<1>1. /\ pc = "up" /\ pc' = "down" /\ queue = <<>> /\ job = None /\ mem' = Idle /\ fault' = FALSE
      /\ UNCHANGED <<disk, safe, queue, job, answers, shown, told, clock, weather>>
  BY DEF ReleaseWriterLock, world
<1>2. ~Appending /\ ~Appending'
  BY <1>1 DEF Appending
<1>3. Idle \in Memory
  BY DEF Idle, Memory
<1>4. StoreTypes'
  BY <1>1, <1>3 DEF StoreInv, StoreTypes
<1>5. FilesSound'
  BY <1>1, <1>2 DEF StoreInv, FilesSound, Holds
<1>6. ProcessSound' /\ MemorySound' /\ PowerSound'
  BY <1>1, <1>2 DEF StoreInv, ProcessSound, MemorySound, PowerSound
<1>. QED  BY <1>4, <1>5, <1>6 DEF StoreInv

(* What the process holds in memory was made durable before.               *)
LEMMA MemoryIsKept ==
  ASSUME StoreInv, pc = "up", ~fault
  PROVE  /\ UserLog(mem.log) \in Seq(Commands)
         /\ IsPrefix(UserLog(mem.log), UserLog(disk.journal))
         /\ Appending => IsPrefix(UserLog(mem.log), UserLog(Before.journal))
<1>1. mem.log \in Seq(Records)
  BY DEF StoreInv, StoreTypes, Memory
<1>2. UserLog(mem.log) \in Seq(Commands)
  BY <1>1, UserLogType
<1>3. IsPrefix(UserLog(mem.log), UserLog(mem.log))
  BY <1>2, PrefixReflexive
<1>4. CASE ~Appending
  BY <1>2, <1>3, <1>4, ServingFiles
<1>5. CASE Appending
  <2>1. /\ Before.journal = mem.log /\ disk.journal = Append(mem.log, job.record)
        /\ job \in Jobs
    BY <1>5, AppendingFiles
  <2>2. job.record \in Commands
    BY <2>1 DEF Jobs
  <2>3. job.record \in Records /\ job.record.id \in Ids
    BY <2>2, RecordFacts DEF Records
  <2>4. UserLog(disk.journal) = Append(UserLog(mem.log), job.record)
    BY <1>1, <2>1, <2>3, TypesOfNone, UserLogAppend
  <2>5. IsPrefix(UserLog(mem.log), UserLog(disk.journal))
    BY <1>2, <2>2, <2>4, PrefixOfAppend
  <2>. QED  BY <1>2, <1>3, <2>1, <2>5
<1>. QED  BY <1>4, <1>5

LEMMA ShowStateStep == StoreInv /\ ShowState => StoreInv'
<1>. SUFFICES ASSUME StoreInv, ShowState PROVE StoreInv'
  OBVIOUS
<1>. DEFINE seen == UserLog(mem.log)
<1>1. /\ pc = "up" /\ ~fault /\ shown' = shown \cup {seen}
      /\ UNCHANGED <<disk, safe, pc, mem, fault, queue, job, answers, told, clock, weather>>
  BY DEF ShowState, Accepting, world
<1>2. /\ seen \in Seq(Commands) /\ IsPrefix(seen, UserLog(disk.journal))
      /\ Appending => IsPrefix(seen, UserLog(Before.journal))
  BY <1>1, MemoryIsKept
<1>. HIDE DEF seen
<1>3. Appending' = Appending /\ Before' = Before
  BY <1>1 DEF Appending, Before
<1>4. StoreTypes'
  BY <1>1, <1>2 DEF StoreInv, StoreTypes
<1>5. FilesSound'
  <2>1. Keeps(disk, shown', told')
    BY <1>1, <1>2 DEF StoreInv, FilesSound, Holds, Keeps
  <2>2. Appending => Keeps(Before, shown', told')
    BY <1>1, <1>2 DEF StoreInv, FilesSound, Holds, Keeps
  <2>3. ASSUME weather = "power" PROVE Keeps(safe, shown', told')
    <3>1. CASE Appending
      BY <2>2, <2>3, <3>1 DEF StoreInv, PowerSound
    <3>2. CASE ~Appending
      <4>1. safe.journal = disk.journal
        BY <1>1, <2>3, <3>2 DEF StoreInv, PowerSound
      <4>. QED  BY <2>1, <4>1, KeepsJournal
    <3>. QED  BY <3>1, <3>2
  <2>. QED  BY <1>1, <1>3, <2>1, <2>2, <2>3 DEF StoreInv, FilesSound, Holds
<1>6. ProcessSound' /\ MemorySound' /\ PowerSound'
  BY <1>1, <1>3 DEF StoreInv, ProcessSound, MemorySound, PowerSound
<1>. QED  BY <1>4, <1>5, <1>6 DEF StoreInv

(* Half a record at the end makes files worse for nothing but a whole tail. *)
LEMMA TornIsGood ==
  ASSUME NEW d \in Directory, GoodFiles(d), d.journal # None, d.checkpoint # None,
         NEW logs, NEW receipts, Keeps(d, logs, receipts)
  PROVE  GoodFiles(Torn(d)) /\ Keeps(Torn(d), logs, receipts) /\ Torn(d) \in Directory
<1>. DEFINE e == Torn(d)
<1>1. /\ e \in Directory /\ e.journal = d.journal /\ e.checkpoint = d.checkpoint
      /\ e.marker = d.marker
  BY DEF Torn, Directory
<1>. HIDE DEF e
<1>2. Sound(d) /\ NoRepeats(d.journal) /\ d.marker # None
  BY DEF GoodFiles, NewDirectory
<1>3. Sound(e)
  BY <1>1, <1>2 DEF Sound, CheckpointFits, OneCutover, CapacityFits, RawBeforeCutover,
                    ExactInitializing, MarkerBinds
<1>4. GoodFiles(e)
  BY <1>1, <1>2, <1>3 DEF GoodFiles
<1>5. Keeps(e, logs, receipts)
  BY <1>1, KeepsJournal
<1>. QED  BY <1>1, <1>4, <1>5 DEF e

(* What a process leaves that dies, or whose append fails.                 *)
LEMMA HalfAppendedHolds ==
  ASSUME StoreInv, NEW d \in {disk} \cup HalfAppended
  PROVE  Holds(d) /\ d \in Directory
<1>1. CASE d = disk
  BY <1>1 DEF StoreInv, StoreTypes, FilesSound
<1>2. CASE d \in HalfAppended
  <2>1. Appending /\ d = Torn(Before)
    BY <1>2 DEF HalfAppended
  <2>2. Before \in Directory /\ Before.journal # None /\ Before.checkpoint # None
    BY <2>1, AppendingFiles
  <2>3. GoodFiles(Before) /\ Keeps(Before, shown, told)
    BY <2>1 DEF StoreInv, FilesSound, Holds
  <2>. QED  BY <2>1, <2>2, <2>3, TornIsGood DEF Holds
<1>. QED  BY <1>1, <1>2

(* What a power failure leaves.                                            *)
LEMMA HalfSyncedHolds ==
  ASSUME StoreInv, weather = "power", NEW d \in {disk, safe} \cup HalfSynced
  PROVE  Holds(d) /\ d \in Directory
<1>1. CASE d \in {disk, safe}
  BY <1>1 DEF StoreInv, StoreTypes, FilesSound
<1>2. CASE d \in HalfSynced
  <2>1. disk.journal # safe.journal /\ safe.journal # None /\ d = Torn(safe)
    BY <1>2 DEF HalfSynced
  <2>2. Appending /\ safe = Before
    BY <2>1 DEF StoreInv, PowerSound
  <2>3. safe \in Directory /\ safe.journal # None /\ safe.checkpoint # None
    BY <2>2, AppendingFiles
  <2>4. GoodFiles(safe) /\ Keeps(safe, shown, told)
    BY DEF StoreInv, FilesSound, Holds
  <2>. QED  BY <2>1, <2>3, <2>4, TornIsGood DEF Holds
<1>. QED  BY <1>1, <1>2

LEMMA WriteFailsStep == StoreInv /\ WriteFails => StoreInv'
<1>. SUFFICES ASSUME StoreInv, WriteFails PROVE StoreInv'
  OBVIOUS
<1>1. /\ job # None /\ weather # "power" /\ disk' \in {disk, Before} \cup HalfAppended
      /\ fault' = TRUE /\ job' = None
      /\ answers' = answers \cup {[from |-> job.from, result |-> "fault", record |-> None]}
      /\ UNCHANGED <<safe, pc, mem, queue, clock, weather, shown, told>>
  BY DEF WriteFails, Answer
<1>2. pc = "up" /\ ~fault /\ job \in Jobs
  BY <1>1 DEF StoreInv, StoreTypes, MemorySound
<1>3. ~Appending'
  BY <1>1, <1>2 DEF Appending
<1>4. Holds(Before) /\ Before \in Directory
  <2>1. CASE Appending
    BY <2>1, AppendingFiles DEF StoreInv, FilesSound
  <2>2. CASE ~Appending
    <3>1. /\ disk \in Directory /\ GoodFiles(disk) /\ disk.journal # None
          /\ disk.checkpoint # None /\ disk.journal = mem.log
          /\ disk.marker = "current" /\ CutoversOf(mem.log) # {}
          /\ mem.checkpoint \in Nat /\ mem.checkpoint <= Len(mem.log)
      BY <1>2, <2>2, ServingFiles
    <3>2. /\ Before \in Directory /\ Before.journal = disk.journal
          /\ Before.marker = "current" /\ Before.checkpoint = mem.checkpoint
      BY <2>2, <3>1 DEF Before, Directory
    <3>3. GoodFiles(Before)
      BY <3>1, <3>2, RestampedIsGood
    <3>4. Keeps(disk, shown, told)
      BY DEF StoreInv, FilesSound, Holds
    <3>. QED  BY <3>2, <3>3, <3>4, KeepsJournal DEF Holds
  <2>. QED  BY <2>1, <2>2
<1>5. Holds(disk') /\ disk' \in Directory
  BY <1>1, <1>4, HalfAppendedHolds
<1>6. StoreTypes'
  <2>1. answers' \subseteq Answers
    BY <1>1, <1>2 DEF StoreInv, StoreTypes, Answers, Results, Jobs, Froms
  <2>. QED  BY <1>1, <1>5, <2>1 DEF StoreInv, StoreTypes, Answers, Results
<1>7. FilesSound'
  BY <1>1, <1>3, <1>5 DEF FilesSound, Holds
<1>8. ProcessSound'
  <2>1. disk.journal # None /\ disk.checkpoint # None
    BY <1>2 DEF StoreInv, ProcessSound
  <2>2. Before.journal # None /\ Before.checkpoint # None
    <3>1. CASE Appending
      BY <3>1, AppendingFiles
    <3>2. CASE ~Appending
      <4>1. Before = [disk EXCEPT !.checkpoint = mem.checkpoint] /\ mem.checkpoint \in Nat
            /\ disk \in Directory
        BY <1>2, <3>2, ServingFiles DEF Before
      <4>. QED  BY <2>1, <4>1, TypesOfNone DEF Directory
    <3>. QED  BY <3>1, <3>2
  <2>3. ASSUME disk' \in HalfAppended PROVE disk'.journal # None /\ disk'.checkpoint # None
    <3>1. Appending /\ disk' = Torn(Before) /\ Before \in Directory
      BY <2>3, AppendingFiles DEF HalfAppended
    <3>. QED  BY <2>2, <3>1 DEF Torn, Directory
  <2>4. disk'.journal # None /\ disk'.checkpoint # None
    BY <1>1, <2>1, <2>2, <2>3
  <2>. QED  BY <1>1, <1>2, <2>4 DEF ProcessSound
<1>9. MemorySound' /\ PowerSound'
  BY <1>1, <1>2 DEF MemorySound, PowerSound
<1>. QED  BY <1>6, <1>7, <1>8, <1>9 DEF StoreInv

(* The state of a process that died.                                       *)
LEMMA DeadProcess ==
  ASSUME StoreInv, pc' = "down", mem' = Idle, fault' = FALSE, queue' = <<>>, job' = None,
         answers' = {}, UNCHANGED <<clock, weather, shown, told>>,
         disk' \in Directory, Holds(disk'), safe' \in Directory,
         weather = "power" => safe' = disk'
  PROVE  StoreInv'
<1>1. ~Appending'
  BY DEF Appending
<1>2. StoreTypes'
  <2>1. Idle \in Memory
    BY DEF Idle, Memory
  <2>2. queue' \in Seq([from : Froms, command : Commands])
    OBVIOUS
  <2>. QED  BY <2>1, <2>2 DEF StoreInv, StoreTypes
<1>3. FilesSound'
  BY <1>1 DEF FilesSound, Holds
<1>4. ProcessSound' /\ MemorySound' /\ PowerSound'
  BY <1>1 DEF ProcessSound, MemorySound, PowerSound
<1>. QED  BY <1>2, <1>3, <1>4 DEF StoreInv

LEMMA ProcessDiesStep == StoreInv /\ ProcessDies => StoreInv'
<1>. SUFFICES ASSUME StoreInv, ProcessDies PROVE StoreInv'
  OBVIOUS
<1>1. /\ weather # "power" /\ disk' \in {disk} \cup HalfAppended
      /\ pc' = "down" /\ mem' = Idle /\ fault' = FALSE /\ queue' = <<>> /\ job' = None
      /\ answers' = {}
      /\ UNCHANGED <<safe, clock, weather, shown, told>>
  BY DEF ProcessDies, Dies
<1>2. Holds(disk') /\ disk' \in Directory /\ safe' \in Directory
  BY <1>1, HalfAppendedHolds DEF StoreInv, StoreTypes
<1>. QED  BY <1>1, <1>2, DeadProcess

LEMMA PowerFailsStep ==
  ASSUME "both" \notin Weather, StoreInv, PowerFails
  PROVE  StoreInv'
<1>1. /\ weather \in {"power", "both"} /\ disk' \in {disk, safe} \cup HalfSynced
      /\ pc' = "down" /\ mem' = Idle /\ fault' = FALSE /\ queue' = <<>> /\ job' = None
      /\ answers' = {} /\ safe' = disk'
      /\ UNCHANGED <<clock, weather, shown, told>>
  BY DEF PowerFails, Dies
<1>2. weather = "power"
  BY <1>1 DEF StoreInv, StoreTypes
<1>3. Holds(disk') /\ disk' \in Directory
  BY <1>1, <1>2, HalfSyncedHolds
<1>. QED  BY <1>1, <1>2, <1>3, DeadProcess

-----------------------------------------------------------------------------
(* The whole service. *)

Phases == {"idle", "reviewed", "signing", "posting", "confirmed", "rejected", "unknown"}
Desks == [phase : Phases, seen : Seq(Records), at : Times, posts : Nat, acked : BOOLEAN]
Posts == [task : Ids, n : Nat, stage : {"sent", "reading", "storing"}, now : Times]

ClientTypes == desk \in [Ids -> Desks] /\ calls \subseteq Posts

ServiceInv == StoreInv /\ ClientTypes

LEMMA CommandType ==
  ASSUME ClientTypes, NEW t \in Ids
  PROVE  Command(t) \in Commands /\ Command(t).id = t /\ Command(t).body = Wants[t]
BY MatcherServiceConstants DEF ClientTypes, Desks, Command, Commands

LEMMA PostedType ==
  ASSUME NEW d \in Desks
  PROVE  /\ Posted(d) \in Desks
         /\ Posted(d).posts = d.posts + 1 /\ Posted(d).phase = "posting"
         /\ Posted(d).at = d.at
<1>. DEFINE e == [d EXCEPT !.posts = @ + 1]
<1>1. e \in Desks /\ e.posts = d.posts + 1 /\ e.at = d.at
  BY DEF Desks
<1>2. Posted(d) = [e EXCEPT !.phase = "posting", !.acked = FALSE]
  BY DEF Posted, Desks
<1>. HIDE DEF e
<1>3. [e EXCEPT !.phase = "posting", !.acked = FALSE] \in Desks
  BY <1>1 DEF Desks, Phases
<1>. QED  BY <1>1, <1>2, <1>3 DEF Desks

LEMMA OutcomeType ==
  ASSUME NEW t, NEW result, NEW r
  PROVE  Outcome(t, result, r) \in {"confirmed", "rejected", "unknown"}
<1>1. ASSUME NEW fits PROVE OutcomeOf(result, fits) \in {"confirmed", "rejected", "unknown"}
  BY DEF OutcomeOf
<1>. QED  BY <1>1 DEF Outcome, OrderOutcome, ControlOutcome

(* A call that waits for the process joins the queue.                      *)
LEMMA SubmitStep ==
  ASSUME StoreInv, NEW from \in Froms, NEW c \in Commands, Submit(from, c)
  PROVE  StoreInv'
<1>1. /\ pc = "up" /\ queue' = Append(queue, [from |-> from, command |-> c])
      /\ UNCHANGED <<disk, safe, pc, mem, job, fault, weather, shown, told, answers, clock>>
  BY DEF Submit, Accepting, world
<1>2. queue' \in Seq([from : Froms, command : Commands])
  <2>1. queue \in Seq([from : Froms, command : Commands])
    BY DEF StoreInv, StoreTypes
  <2>2. [from |-> from, command |-> c] \in [from : Froms, command : Commands]
    OBVIOUS
  <2>. QED  BY <1>1, <2>1, <2>2, AppendProperties
<1>. QED  BY <1>1, <1>2, QuietStep DEF StoreInv, StoreTypes

LEMMA TakeStep ==
  ASSUME StoreInv, NEW a, Take(a)
  PROVE  StoreInv'
<1>1. /\ answers' = answers \ {a}
      /\ UNCHANGED <<disk, safe, pc, mem, job, fault, weather, shown, told, queue, clock>>
  BY DEF Take, world
<1>2. queue' # <<>> => pc = "up"
  BY <1>1 DEF StoreInv, MemorySound
<1>. QED  BY <1>1, <1>2, QuietStep DEF StoreInv, StoreTypes

LEMMA StoreStaysPut == StoreInv /\ UNCHANGED storeVars => StoreInv'
BY QuietStep DEF storeVars, StoreInv, StoreTypes, MemorySound

LEMMA OutsideKeeps == StoreInv /\ Outside => StoreInv'
<1>1. StoreInv /\ OperatorRemovesLock => StoreInv'
  BY QuietStep DEF OperatorRemovesLock, serving, world, StoreInv, StoreTypes, MemorySound
<1>2. StoreInv /\ ClockMoves => StoreInv'
  BY QuietStep DEF ClockMoves, serving, world, StoreInv, StoreTypes, MemorySound
<1>. QED  BY <1>1, <1>2, ShowStateStep, WriteFailsStep DEF Outside

LEMMA BeginCloseStep == StoreInv /\ BeginClose => StoreInv'
BY QuietStep DEF BeginClose, world, StoreInv, StoreTypes, MemorySound

(* A step of the server moves the store by Submit, Take or not at all.     *)
LEMMA ServerStepStore ==
  ASSUME ClientTypes, NEW c \in calls,
         \/ TurnAway(c) \/ RateLimit(c) \/ ReadBody(c) \/ BodyTimesOut(c) \/ RefuseBody(c)
         \/ Mutate(c) \/ \E a \in answers : Respond(c, a)
  PROVE  \/ UNCHANGED storeVars
         \/ \E from \in Froms, d \in Commands : Submit(from, d)
         \/ \E a \in answers : Take(a)
<1>1. CASE TurnAway(c) \/ RateLimit(c) \/ BodyTimesOut(c) \/ RefuseBody(c)
  BY <1>1 DEF TurnAway, RateLimit, BodyTimesOut, RefuseBody, Reply
<1>2. CASE ReadBody(c)
  BY <1>2 DEF ReadBody
<1>3. CASE Mutate(c)
  <2>1. CASE Submit(<<c.task, c.n>>, Command(c.task))
    <3>1. c.task \in Ids /\ c.n \in Nat
      BY DEF ClientTypes, Posts
    <3>2. <<c.task, c.n>> \in Froms /\ Command(c.task) \in Commands
      BY <3>1, CommandType DEF Froms
    <3>. QED  BY <2>1, <3>2
  <2>2. CASE ~Submit(<<c.task, c.n>>, Command(c.task))
    BY <1>3, <2>2 DEF Mutate, Reply
  <2>. QED  BY <2>1, <2>2
<1>4. CASE \E a \in answers : Respond(c, a)
  BY <1>4 DEF Respond
<1>. QED  BY <1>1, <1>2, <1>3, <1>4

LEMMA DeskStepStore == DeskStep => UNCHANGED storeVars
BY DEF DeskStep, ReviewOrder, ReviewControl, Review, ConfirmOrder, ConfirmControl, AskWallet,
       Decline, SignOrder, SignControl, RetryOrder, RetryControl, Post, GiveUp, deskOnly

(* A step of the service moves the store by one of its own steps.          *)
LEMMA StoreStepOfService ==
  ASSUME ClientTypes, [MatcherServiceNext]_serviceVars
  PROVE  \/ OpenStep \/ MutateStep \/ ReleaseWriterLock \/ Outside \/ BeginClose
         \/ ProcessDies \/ PowerFails
         \/ \E from \in Froms, d \in Commands : Submit(from, d)
         \/ \E a \in answers : Take(a)
         \/ UNCHANGED storeVars
<1>1. CASE StoreWorks \/ Outside
  BY <1>1 DEF StoreWorks
<1>2. CASE StopServer \/ Crash
  BY <1>2 DEF StopServer, Crash
<1>3. CASE ServerStep
  BY <1>3, ServerStepStore DEF ServerStep
<1>4. CASE DeskStep
  BY <1>4, DeskStepStore
<1>5. CASE AnyCall
  BY <1>5 DEF AnyCall, Froms
<1>6. CASE UNCHANGED serviceVars
  BY <1>6 DEF serviceVars
<1>. QED  BY <1>1, <1>2, <1>3, <1>4, <1>5, <1>6 DEF MatcherServiceNext

LEMMA StoreInvKept ==
  ASSUME "both" \notin Weather, StoreInv, ClientTypes, [MatcherServiceNext]_serviceVars
  PROVE  StoreInv'
BY StoreStepOfService, OpenStepKeeps, MutateStepKeeps, ReleaseWriterLockStep, OutsideKeeps,
   BeginCloseStep, ProcessDiesStep, PowerFailsStep, SubmitStep, TakeStep, StoreStaysPut

(* A step of the browser keeps its types.                                  *)
LEMMA DeskTypes ==
  ASSUME StoreInv, ClientTypes, DeskStep
  PROVE  ClientTypes'
<1>. USE DEF ClientTypes
<1>1. ASSUME NEW t \in Ids, NEW at \in Times, Review(t, at) PROVE ClientTypes'
  <2>1. /\ pc = "up" /\ ~fault /\ mem.checkpoint = Len(mem.log)
        /\ desk' = [desk EXCEPT ![t] = Draft(t, at, AccountAnswer)] /\ UNCHANGED calls
    BY <1>1 DEF Review, Healthy, HealthPasses, HealthAnswer, Accepting, deskOnly
  <2>2. AccountAnswer.checkpoint \in Seq(Records)
    <3>1. mem.log \in Seq(Records)
      BY DEF StoreInv, StoreTypes, Memory
    <3>2. AccountAnswer.checkpoint = SubSeq(mem.log, 1, Len(mem.log))
      BY <2>1 DEF AccountAnswer
    <3>. QED  BY <3>1, <3>2, SubSeqFull
  <2>3. Draft(t, at, AccountAnswer) \in Desks
    BY <2>2 DEF Draft, Desks, Phases
  <2>. QED  BY <2>1, <2>3
<1>2. ASSUME NEW t \in Ids, AskWallet(t) \/ Decline(t) \/ GiveUp(t) PROVE ClientTypes'
  <2>1. PICK p \in Phases : desk' = [desk EXCEPT ![t].phase = p]
    BY <1>2 DEF AskWallet, Decline, GiveUp, Phases
  <2>2. UNCHANGED calls
    BY <1>2 DEF AskWallet, Decline, GiveUp, deskOnly
  <2>3. PICK d : d = [desk[t] EXCEPT !.phase = p]
    OBVIOUS
  <2>4. d \in Desks
    BY <2>3 DEF Desks
  <2>5. desk' = [desk EXCEPT ![t] = d]
    BY <2>1, <2>3
  <2>. QED  BY <2>2, <2>4, <2>5
<1>3. ASSUME NEW t \in Ids, Post(t) PROVE ClientTypes'
  <2>1. /\ desk' = [desk EXCEPT ![t] = Posted(desk[t])]
        /\ calls' = calls \cup {[task |-> t, n |-> desk[t].posts + 1, stage |-> "sent", now |-> 0]}
    BY <1>3 DEF Post
  <2>2. Posted(desk[t]) \in Desks
    BY PostedType
  <2>3. [task |-> t, n |-> desk[t].posts + 1, stage |-> "sent", now |-> 0] \in Posts
    BY TypesOfNone DEF Desks, Posts
  <2>. QED  BY <2>1, <2>2, <2>3
<1>. QED
  BY <1>1, <1>2, <1>3
  DEF DeskStep, ReviewOrder, ReviewControl, ConfirmOrder, ConfirmControl, SignOrder, SignControl,
      RetryOrder, RetryControl

LEMMA DeliverTypes ==
  ASSUME ClientTypes, NEW c \in calls, NEW result, NEW r, Deliver(c, result, r)
  PROVE  desk' \in [Ids -> Desks]
<1>1. Outcome(c.task, result, r) \in Phases
  BY OutcomeType DEF Phases
<1>2. (result \in Done) \in BOOLEAN
  OBVIOUS
<1>. QED  BY <1>1, <1>2 DEF Deliver, ClientTypes, Desks, Posts

LEMMA ServerTypes ==
  ASSUME StoreInv, ClientTypes, ServerStep
  PROVE  ClientTypes'
<1>. PICK c \in calls :
       \/ TurnAway(c) \/ RateLimit(c) \/ ReadBody(c) \/ BodyTimesOut(c) \/ RefuseBody(c)
       \/ Mutate(c) \/ \E a \in answers : Respond(c, a)
  BY DEF ServerStep
<1>1. ASSUME NEW result, Reply(c, result) PROVE ClientTypes'
  BY <1>1, DeliverTypes DEF Reply, ClientTypes
<1>2. ASSUME NEW stage \in {"reading", "storing"}, MoveTo(c, stage), UNCHANGED desk
      PROVE  ClientTypes'
  <2>1. [c EXCEPT !.stage = stage, !.now = clock] \in Posts
    BY DEF ClientTypes, Posts, StoreInv, StoreTypes
  <2>. QED  BY <1>2, <2>1 DEF MoveTo, ClientTypes
<1>3. ASSUME NEW a \in answers, Respond(c, a) PROVE ClientTypes'
  BY <1>3, DeliverTypes DEF Respond, ClientTypes
<1>. QED
  BY <1>1, <1>2, <1>3
  DEF TurnAway, RateLimit, ReadBody, BodyTimesOut, RefuseBody, Mutate

LEMMA ClientTypesKept ==
  ASSUME StoreInv, ClientTypes, [MatcherServiceNext]_serviceVars
  PROVE  ClientTypes'
<1>1. CASE DeskStep
  BY <1>1, DeskTypes
<1>2. CASE ServerStep
  BY <1>2, ServerTypes
<1>3. CASE Crash
  BY <1>3 DEF Crash, ClientTypes
<1>4. CASE UNCHANGED <<desk, calls>>
  BY <1>4 DEF ClientTypes
<1>. QED
  BY <1>1, <1>2, <1>3, <1>4 DEF MatcherServiceNext, StopServer, AnyCall, serviceVars

LEMMA ServiceInit == MatcherServiceInit => ServiceInv
<1>. SUFFICES ASSUME MatcherServiceInit PROVE ServiceInv
  OBVIOUS
<1>1. Blank \in Desks
  BY TypesOfNone DEF Blank, Desks, Phases
<1>. QED  BY <1>1, InitIsGood DEF MatcherServiceInit, ServiceInv, ClientTypes

(* The invariant of the store and its callers holds in every state, where  *)
(* a behaviour has crashes of the process or of the machine.               *)
THEOREM ServiceInductive ==
  ASSUME "both" \notin Weather
  PROVE  MatcherServiceSafety => []ServiceInv
<1>1. ServiceInv /\ [MatcherServiceNext]_serviceVars => ServiceInv'
  BY StoreInvKept, ClientTypesKept DEF ServiceInv
<1>. QED  BY <1>1, ServiceInit, PTL DEF MatcherServiceSafety

(* The journal holds each accepted command once, every receipt a caller    *)
(* holds is the record at its place, and open takes the files again        *)
(* (persistent-store.ts:1132-1200), for any commands, bodies, limits and   *)
(* number of crashes and failed writes.                                    *)
THEOREM JournalIsSound ==
  ASSUME "both" \notin Weather
  PROVE  MatcherServiceSafety => []JournalSound
<1>1. ASSUME ServiceInv PROVE JournalSound
  <2>1. GoodFiles(disk) /\ Keeps(disk, shown, told)
    BY <1>1 DEF ServiceInv, StoreInv, FilesSound, Holds
  <2>2. AppliedOnce
    BY <2>1 DEF AppliedOnce, GoodFiles, Keeps, NoRepeats
  <2>3. Reopenable
    BY <2>1 DEF Reopenable, GoodFiles
  <2>. QED  BY <2>2, <2>3 DEF JournalSound
<1>. QED  BY <1>1, ServiceInductive, PTL

-----------------------------------------------------------------------------
(* The store is a durable log. *)

LEMMA InitIsEmptyLog == MatcherStoreInit => Durable!LogInit
<1>1. UserLog(None) = <<>>
  BY DEF UserLog
<1>2. UserLog(<<Legacy>>) = <<>>
  <2>1. <<>> \in Seq(Records) /\ Legacy \in Records /\ Legacy.id \notin Ids
    BY RecordFacts
  <2>2. UserLog(Append(<<>>, Legacy)) = UserLog(<<>>)
    BY <2>1, UserLogAppend, TypesOfNone
  <2>3. Append(<<>>, Legacy) = <<Legacy>>
    OBVIOUS
  <2>. QED  BY <2>2, <2>3, UserLogEmpty, TypesOfNone
<1>3. NewDirectory.journal = None /\ LegacyDirectory.journal = <<Legacy>>
  BY DEF NewDirectory, LegacyDirectory
<1>. QED  BY <1>1, <1>2, <1>3 DEF MatcherStoreInit, Durable!LogInit

LogStays == UserLog(disk.journal)' = UserLog(disk.journal)

LEMMA StayIsStutter ==
  ASSUME LogStays, UNCHANGED shown
  PROVE  [Durable!LogNext]_Durable!logVars
BY DEF LogStays, Durable!logVars

(* Steps of open add no command and show nothing.                          *)
LEMMA OpenStepStutters ==
  ASSUME StoreInv, OpenStep
  PROVE  LogStays /\ UNCHANGED shown
<1>1. UNCHANGED shown
  BY DEF OpenStep, AcquireWriterLock, ReadMarker, PrepareFiles, Replay, RefuseToOpen, OpenFails,
         WriteHead, StampMarker, Opened, Opening, GoOn, serving
<1>2. disk \in Directory
  BY DEF StoreInv, StoreTypes
<1>3. CASE /\ disk.journal = None
           /\ Opening("files", "files", [disk EXCEPT !.journal = <<>>])
  <2>1. disk'.journal = <<>>
    BY <1>2, <1>3 DEF Opening, Write, Directory
  <2>2. UserLog(None) = <<>>
    BY DEF UserLog
  <2>. QED  BY <1>1, <1>3, <2>1, <2>2, UserLogEmpty, TypesOfNone DEF LogStays
<1>4. CASE Opening("replay", "sealed", [disk EXCEPT !.journal = Append(@, Cutover)])
  <2>1. disk'.journal = Append(disk.journal, Cutover)
    BY <1>2, <1>4 DEF Opening, Write, Directory
  <2>2. disk.journal \in Seq(Records)
    <3>1. disk.journal # None
      BY <1>4 DEF Opening, GoOn, StoreInv, ProcessSound
    <3>. QED  BY <1>2, <3>1 DEF Directory
  <2>3. UserLog(disk.journal)' = UserLog(disk.journal)
    BY <2>1, <2>2, RecordFacts, UserLogAppend, TypesOfNone
  <2>. QED  BY <1>1, <2>3 DEF LogStays
<1>5. CASE disk'.journal = disk.journal
  BY <1>1, <1>5 DEF LogStays
<1>6. ASSUME OpenStep, ~ (disk.journal = None /\ Opening("files", "files", [disk EXCEPT !.journal = <<>>])),
             ~Opening("replay", "sealed", [disk EXCEPT !.journal = Append(@, Cutover)])
      PROVE  disk'.journal = disk.journal
  <2>1. CASE AcquireWriterLock
    BY <2>1 DEF AcquireWriterLock
  <2>2. CASE ReadMarker
    BY <1>2, <2>2 DEF ReadMarker, Opening, Write, Directory
  <2>3. CASE PrepareFiles
    BY <1>2, <1>6, <2>3 DEF PrepareFiles, Opening, Write, Directory
  <2>4. CASE Replay
    BY <1>2, <1>6, <2>4 DEF Replay, Opening, Write, Directory
  <2>5. CASE RefuseToOpen
    BY <2>5 DEF RefuseToOpen, OpenFails, Write
  <2>6. CASE WriteHead
    BY <1>2, <2>6 DEF WriteHead, Opening, Write, WriteAfterAppend, Directory
  <2>7. CASE StampMarker
    BY <1>2, <2>7 DEF StampMarker, Opening, Write, Directory
  <2>8. CASE Opened
    BY <2>8 DEF Opened, Write
  <2>. QED  BY <1>6, <2>1, <2>2, <2>3, <2>4, <2>5, <2>6, <2>7, <2>8 DEF OpenStep
<1>. QED  BY <1>3, <1>4, <1>5, <1>6

(* What a caller is shown of memory is a beginning of the log.             *)
LEMMA ShowsMemory ==
  ASSUME StoreInv, pc = "up", ~fault, disk' = disk, shown' = shown \cup {UserLog(mem.log)}
  PROVE  [Durable!LogNext]_Durable!logVars
<1>. DEFINE seen == UserLog(mem.log)
            log == UserLog(disk.journal)
<1>1. seen \in Seq(Commands) /\ IsPrefix(seen, log)
  BY MemoryIsKept
<1>2. log \in Seq(Commands)
  <2>1. disk.journal \in Seq(Records)
    BY DEF StoreInv, StoreTypes, ProcessSound, Directory
  <2>. QED  BY <2>1, UserLogType
<1>3. Len(seen) \in 0 .. Len(log) /\ seen = SubSeq(log, 1, Len(seen))
  <2>. HIDE DEF seen, log
  <2>. QED  BY <1>1, <1>2, PrefixIsSubSeq
<1>4. log' = log
  OBVIOUS
<1>. HIDE DEF seen
<1>5. shown' = shown \cup {seen}
  BY DEF seen
<1>6. Durable!Show
  BY <1>3, <1>4, <1>5 DEF Durable!Show
<1>. QED  BY <1>6 DEF Durable!LogNext

(* A call that is taken up appends its stamped command.                    *)
LEMMA BeginAppendLog ==
  ASSUME StoreInv, NEW from, NEW c, BeginAppend(from, c)
  PROVE  /\ Stamped(c) \in Commands /\ Stamped(c).id = c.id /\ UNCHANGED shown
         /\ UserLog(disk.journal) \in Seq(Commands)
         /\ UserLog(disk.journal)' = Append(UserLog(disk.journal), Stamped(c))
<1>. DEFINE r == Stamped(c)
<1>1. /\ Started(from, c, "append") /\ disk' = [disk EXCEPT !.journal = Append(disk.journal, r)]
  BY DEF BeginAppend, Appended, Write
<1>2. /\ pc = "up" /\ ~fault /\ ~Appending /\ c \in Commands /\ UNCHANGED shown
  BY <1>1, StartedFacts
<1>3. r \in Commands /\ r.id = c.id
  BY <1>2, StampedFacts
<1>. HIDE DEF r
<1>4. r \in Records /\ r.id \in Ids
  BY <1>3, RecordFacts DEF Records
<1>5. disk \in Directory /\ disk.journal \in Seq(Records)
  BY <1>2, ServingFiles
<1>6. disk'.journal = Append(disk.journal, r)
  BY <1>1, <1>5 DEF Directory
<1>7. UserLog(disk.journal)' = Append(UserLog(disk.journal), r)
  BY <1>4, <1>5, <1>6, UserLogAppend, TypesOfNone
<1>8. UserLog(disk.journal) \in Seq(Commands)
  BY <1>5, UserLogType
<1>. QED  BY <1>2, <1>3, <1>7, <1>8 DEF r

LEMMA MutateStepLog ==
  ASSUME StoreInv, MutateStep
  PROVE  LogStays \/ \E from, c : BeginAppend(from, c)
<1>1. ASSUME NEW q \in ToSet(queue),
             \/ AnswerFault(q.from, q.command)
             \/ Refuse(q.from, q.command)
             \/ JournalFull(q.from, q.command)
      PROVE  LogStays
  BY <1>1 DEF AnswerFault, Refuse, JournalFull, Settle, LogStays
<1>2. ASSUME NEW from, NEW c, BeginReplay(from, c)
      PROVE  LogStays
  <2>1. disk'.journal = disk.journal
    BY <1>2 DEF BeginReplay, CheckpointAt, Write, Started, StoreInv, StoreTypes, Directory
  <2>. QED  BY <2>1 DEF LogStays
<1>3. CASE Advance
  <2>1. disk'.journal = disk.journal
    BY <1>3 DEF Advance, CheckpointAt, WriteAfterAppend, StoreInv, StoreTypes, Directory
  <2>. QED  BY <2>1 DEF LogStays
<1>4. CASE Finish
  BY <1>4 DEF Finish, Write, LogStays
<1>. QED  BY <1>1, <1>2, <1>3, <1>4 DEF MutateStep

(* A call that is taken up writes its command, or nothing of the log.      *)
LEMMA MutateStepImplements ==
  ASSUME StoreInv, MutateStep
  PROVE  [Durable!LogNext]_Durable!logVars
<1>1. ASSUME NEW from, NEW c, BeginAppend(from, c)
      PROVE  [Durable!LogNext]_Durable!logVars
  <2>1. Stamped(c) \in Commands /\ Durable!Write(Stamped(c))
    BY <1>1, BeginAppendLog DEF Durable!Write
  <2>. QED  BY <2>1 DEF Durable!LogNext
<1>2. CASE Finish
  <2>1. disk' = disk /\ shown' = shown \cup {UserLog(mem.log)} /\ job # None
    BY <1>2 DEF Finish, Write
  <2>2. pc = "up" /\ ~fault
    BY <2>1 DEF StoreInv, MemorySound
  <2>. QED  BY <2>1, <2>2, ShowsMemory
<1>3. CASE MutateStep /\ ~Finish
  <2>1. UNCHANGED shown
    BY <1>3 DEF MutateStep, AnswerFault, Refuse, BeginAppend, JournalFull, BeginReplay, Advance,
                Settle, Started
  <2>. QED  BY <1>1, <2>1, MutateStepLog, StayIsStutter
<1>. QED  BY <1>2, <1>3

(* An append that is undone loses a command nobody was shown.              *)
LEMMA UndoneIsPrefix ==
  ASSUME StoreInv, Appending
  PROVE  /\ UserLog(Before.journal) \in Seq(Commands) /\ UserLog(disk.journal) \in Seq(Commands)
         /\ IsPrefix(UserLog(Before.journal), UserLog(disk.journal))
<1>. DEFINE log == UserLog(disk.journal)
            kept == UserLog(Before.journal)
<1>1. PICK r \in Records : disk.journal = Append(Before.journal, r)
  BY AppendingFiles
<1>2. Before.journal \in Seq(Records) /\ Before.journal # None
  BY AppendingFiles
<1>3. kept \in Seq(Commands)
  BY <1>2, UserLogType
<1>4. log \in Seq(Commands) /\ IsPrefix(kept, log)
  <2>1. CASE r.id \in Ids
    <3>1. r \in Commands
      BY <2>1, RecordFacts
    <3>2. log = Append(kept, r)
      BY <1>1, <1>2, <2>1, UserLogAppend, TypesOfNone
    <3>. QED  BY <1>3, <3>1, <3>2, PrefixOfAppend
  <2>2. CASE r.id \notin Ids
    <3>1. log = kept
      BY <1>1, <1>2, <2>2, UserLogAppend, TypesOfNone
    <3>. QED  BY <1>3, <3>1, PrefixReflexive
  <2>. QED  BY <2>1, <2>2
<1>. QED  BY <1>3, <1>4

LEMMA UndoneIsLost ==
  ASSUME StoreInv, Appending, disk'.journal = Before.journal, UNCHANGED shown
  PROVE  [Durable!LogNext]_Durable!logVars
<1>. DEFINE log == UserLog(disk.journal)
            kept == UserLog(Before.journal)
<1>4. kept \in Seq(Commands) /\ log \in Seq(Commands) /\ IsPrefix(kept, log)
  BY UndoneIsPrefix
<1>5. log' = kept
  OBVIOUS
<1>6. \A s \in shown : s \in Seq(Commands) /\ IsPrefix(s, kept)
  BY DEF StoreInv, StoreTypes, FilesSound, Holds, Keeps
<1>. HIDE DEF kept
<1>7. Len(kept) \in 0 .. Len(log) /\ kept = SubSeq(log, 1, Len(kept))
  <2>. HIDE DEF log
  <2>. QED  BY <1>4, PrefixIsSubSeq
<1>8. \A s \in shown : Len(s) <= Len(kept)
  BY <1>4, <1>6, PrefixIsSubSeq
<1>9. Durable!Lose
  BY <1>5, <1>7, <1>8 DEF Durable!Lose
<1>. QED  BY <1>9 DEF Durable!LogNext

(* Crashes and failed writes undo the append in flight at most.            *)
LEMMA TroubleLog ==
  ASSUME "both" \notin Weather, StoreInv, WriteFails \/ ProcessDies \/ PowerFails
  PROVE  UNCHANGED shown /\ (LogStays \/ (Appending /\ disk'.journal = Before.journal))
<1>1. UNCHANGED shown /\ disk \in Directory /\ safe \in Directory
  BY DEF WriteFails, ProcessDies, PowerFails, Dies, StoreInv, StoreTypes
<1>2. Appending => Torn(Before).journal = Before.journal
  BY AppendingFiles DEF Torn, Directory
<1>3. ~Appending => Before.journal = disk.journal
  BY <1>1 DEF Before, Directory
<1>4. UserLog(disk.journal)' = UserLog(disk.journal) \/ (Appending /\ disk'.journal = Before.journal)
  <2>1. CASE WriteFails \/ ProcessDies
    <3>1. disk' \in {disk, Before} \cup HalfAppended
      BY <2>1 DEF WriteFails, ProcessDies, Dies
    <3>2. disk'.journal = disk.journal \/ (Appending /\ disk'.journal = Before.journal)
      <4>1. CASE disk' = Before
        BY <1>3, <4>1
      <4>2. CASE disk' \in HalfAppended
        BY <1>2, <4>2 DEF HalfAppended
      <4>. QED  BY <3>1, <4>1, <4>2
    <3>. QED  BY <3>2
  <2>2. CASE PowerFails
    <3>1. weather = "power" /\ disk' \in {disk, safe} \cup HalfSynced
      BY <2>2 DEF PowerFails, Dies, StoreInv, StoreTypes
    <3>2. /\ Appending => safe = Before
          /\ ~Appending => \/ safe.journal = disk.journal
                           \/ safe.journal = None /\ disk.journal = <<>>
      BY <3>1 DEF StoreInv, PowerSound
    <3>3. UserLog(None) = UserLog(<<>>)
      <4>1. UserLog(None) = <<>>
        BY DEF UserLog
      <4>. QED  BY <4>1, UserLogEmpty, TypesOfNone
    <3>4. Torn(safe).journal = safe.journal
      BY <1>1 DEF Torn, Directory
    <3>5. disk' = disk \/ disk'.journal = safe.journal
      BY <3>1, <3>4 DEF HalfSynced
    <3>6. CASE disk' = disk
      BY <3>6
    <3>7. CASE Appending /\ disk'.journal = safe.journal
      BY <3>2, <3>7
    <3>8. CASE ~Appending /\ disk'.journal = safe.journal
      <4>1. UserLog(disk'.journal) = UserLog(disk.journal)
        BY <3>2, <3>3, <3>8
      <4>. QED  BY <4>1
    <3>. QED  BY <3>5, <3>6, <3>7, <3>8
  <2>. QED  BY <2>1, <2>2
<1>. QED  BY <1>1, <1>4 DEF LogStays

LEMMA TroubleImplements ==
  ASSUME "both" \notin Weather, StoreInv, WriteFails \/ ProcessDies \/ PowerFails
  PROVE  [Durable!LogNext]_Durable!logVars
BY TroubleLog, UndoneIsLost, StayIsStutter

LEMMA StepIsDurable ==
  ASSUME "both" \notin Weather, StoreInv, ClientTypes, [MatcherServiceNext]_serviceVars
  PROVE  [Durable!LogNext]_Durable!logVars
<1>1. ASSUME UNCHANGED <<disk, shown>> PROVE [Durable!LogNext]_Durable!logVars
  BY <1>1, StayIsStutter DEF LogStays
<1>2. CASE ShowState
  BY <1>2, ShowsMemory DEF ShowState, Accepting
<1>3. CASE \/ ReleaseWriterLock \/ OperatorRemovesLock \/ ClockMoves \/ BeginClose
           \/ \E from \in Froms, d \in Commands : Submit(from, d)
           \/ \E a \in answers : Take(a)
           \/ UNCHANGED storeVars
  BY <1>1, <1>3 DEF ReleaseWriterLock, OperatorRemovesLock, ClockMoves, BeginClose, Submit, Take,
                    storeVars, serving
<1>. QED
  BY <1>2, <1>3, StoreStepOfService, OpenStepStutters, StayIsStutter, MutateStepImplements,
     TroubleImplements
  DEF Outside

(* The store implements DurableLog: the commands of the journal are one    *)
(* log, and what a caller was once shown of it is never lost, whichever    *)
(* crash, failed write or retry came between ("Matcher events are appended *)
(* and fsynced before state publication").                                 *)
THEOREM MatcherKeepsItsLog ==
  ASSUME "both" \notin Weather
  PROVE  MatcherServiceSafety => MatcherIsDurableLog
<1>1. ServiceInv /\ [MatcherServiceNext]_serviceVars => [Durable!LogNext]_Durable!logVars
  BY StepIsDurable DEF ServiceInv
<1>2. MatcherServiceInit => Durable!LogInit
  BY InitIsEmptyLog DEF MatcherServiceInit
<1>. QED
  BY <1>1, <1>2, ServiceInductive, PTL
  DEF MatcherServiceSafety, MatcherIsDurableLog, Durable!LogSpec

-----------------------------------------------------------------------------
(* What the browser is told. *)

InLog(t) == Prior(UserLog(disk.journal), t) # {}

(* A place of the queue, the call in flight and an answer each belong to   *)
(* one post that waits in the server, and each post has one of them.       *)
Waits(from, posts) == \E c \in posts : c.stage = "storing" /\ from = <<c.task, c.n>>

PostsOnce ==
  /\ \A c \in calls : c.n \in 1 .. desk[c.task].posts
  /\ \A c, d \in calls : c.task = d.task /\ c.n = d.n => c = d

OneAnswerEach ==
  /\ \A i \in DOMAIN queue : Waits(queue[i].from, calls) /\ queue[i].from[1] = queue[i].command.id
  /\ job # None => Waits(job.from, calls)
  /\ \A a \in answers : Waits(a.from, calls)
  /\ \A i, k \in DOMAIN queue : queue[i].from = queue[k].from => i = k
  /\ \A i \in DOMAIN queue : job # None => queue[i].from # job.from
  /\ \A a \in answers : /\ \A i \in DOMAIN queue : queue[i].from # a.from
                        /\ job # None => job.from # a.from
  /\ \A a, b \in answers : a.from = b.from => a = b

(* What says that the first post of a task has not been taken.             *)
NotYet(t) ==
  \/ desk[t].posts = 0
  \/ desk[t].phase = "rejected"
  \/ \E c \in calls : c.task = t /\ c.stage # "storing"
  \/ \E i \in DOMAIN queue : queue[i].command.id = t
  \/ \E a \in answers : a.result = "refused" /\ a.from[1] = t

FirstPosts ==
  \A t \in Ids : desk[t].posts <= 1 =>
    /\ NotYet(t) => ~InLog(t)
    /\ desk[t].phase = "rejected" => \A c \in calls : c.task # t

(* Accepted is what a receipt was given for.                               *)
AnswersTold ==
  \A a \in answers : a.result \in Done => \E q \in told : q.record = a.record

ConfirmedTold ==
  \A t \in Ids : desk[t].phase = "confirmed" =>
    \E q \in told : q.record.id = t /\ q.record.body = Wants[t]

DesksSound ==
  /\ callers = "any" => calls = {} /\ \A t \in Ids : desk[t].phase = "idle"
  /\ callers = "desks" => PostsOnce /\ OneAnswerEach /\ FirstPosts

AnswerInv ==
  /\ ServiceInv
  /\ callers \in {"desks", "any"}
  /\ AnswersTold /\ ConfirmedTold /\ DesksSound

(* The commands of a journal are its records that have a request ID.       *)
LEMMA UserLogHolds ==
  ASSUME NEW j \in Seq(Records), NEW m \in DOMAIN j, j[m].id \in Ids
  PROVE  j[m] \in ToSet(UserLog(j))
<1>. DEFINE N == Len(j)
<1>1. /\ N \in Nat /\ j # None /\ m \in 1 .. N
      /\ \A n \in 1 .. N : j[n] \in Records
  BY TypesOfNone, ElementOfSeq
<1>2. PICK f : Loop(j, f, N)
  BY <1>1, LoopExists
<1>. DEFINE S == {n \in Nat : n <= N =>
                    f[n] \in Seq(Commands) /\ (m <= n => j[m] \in ToSet(f[n]))}
<1>3. 0 \in S
  BY <1>1, <1>2 DEF Loop
<1>4. ASSUME NEW n \in Nat, n \in S PROVE n + 1 \in S
  <2>. SUFFICES ASSUME n + 1 <= N
                PROVE  /\ f[n + 1] \in Seq(Commands)
                       /\ m <= n + 1 => j[m] \in ToSet(f[n + 1])
    OBVIOUS
  <2>1. n + 1 \in 0 .. N /\ n + 1 \in 1 .. N /\ n + 1 # 0 /\ (n + 1) - 1 = n /\ n <= N
    BY <1>1
  <2>2. f[n] \in Seq(Commands) /\ (m <= n => j[m] \in ToSet(f[n]))
    BY <1>4, <2>1
  <2>3. f[n + 1] = IF j[n + 1].id \in Ids THEN Append(f[n], j[n + 1]) ELSE f[n]
    BY <1>2, <2>1 DEF Loop
  <2>4. CASE j[n + 1].id \in Ids
    <3>. DEFINE r == j[n + 1]
                k == f[n]
    <3>1. r \in Commands
      BY <1>1, <2>1, <2>4, RecordFacts
    <3>2. k \in Seq(Commands) /\ f[n + 1] = Append(k, r)
      BY <2>2, <2>3, <2>4
    <3>3. j[n + 1] = r /\ (m <= n => j[m] \in ToSet(k))
      BY <2>2
    <3>. HIDE DEF r, k
    <3>4. /\ f[n + 1] \in Seq(Commands) /\ Len(k) \in Nat
          /\ DOMAIN k = 1 .. Len(k) /\ DOMAIN f[n + 1] = 1 .. Len(k) + 1
          /\ \A i \in 1 .. Len(k) : f[n + 1][i] = k[i]
          /\ f[n + 1][Len(k) + 1] = r
      BY <3>1, <3>2, AppendFacts
    <3>5. r \in ToSet(f[n + 1]) /\ ToSet(k) \subseteq ToSet(f[n + 1])
      <4>1. \A i \in 1 .. Len(k) : i \in 1 .. Len(k) + 1
        BY <3>4
      <4>2. Len(k) + 1 \in 1 .. Len(k) + 1
        BY <3>4
      <4>. QED  BY <3>4, <4>1, <4>2 DEF ToSet
    <3>6. m <= n + 1 => m <= n \/ m = n + 1
      BY <1>1
    <3>. QED  BY <3>3, <3>4, <3>5, <3>6
  <2>5. CASE j[n + 1].id \notin Ids
    <3>1. m # n + 1 /\ (m <= n + 1 => m <= n)
      BY <1>1, <2>5
    <3>. QED  BY <2>2, <2>3, <2>5, <3>1
  <2>. QED  BY <2>4, <2>5
<1>. HIDE DEF S
<1>5. N \in S /\ m <= N
  <2>1. Nat \subseteq S
    BY <1>3, <1>4, InductiveSet
  <2>. QED  BY <1>1, <2>1
<1>6. j[m] \in ToSet(f[N])
  BY <1>1, <1>5 DEF S
<1>7. UserLog(j) = f[N]
  BY <1>1, <1>2, UserLogIsLoop
<1>. QED  BY <1>6, <1>7

(* Only the append of its own command makes a task taken.                  *)
LEMMA TakenByAppend ==
  ASSUME StoreInv, NEW from, NEW c, BeginAppend(from, c), NEW t, InLog(t)', ~InLog(t)
  PROVE  c.id = t
<1>. DEFINE log == UserLog(disk.journal)
            r == Stamped(c)
<1>1. r \in Commands /\ r.id = c.id /\ log \in Seq(Commands) /\ log' = Append(log, r)
  BY BeginAppendLog
<1>2. Prior(log', t) # {} /\ Prior(log, t) = {}
  BY DEF InLog
<1>. HIDE DEF log, r
<1>3. /\ Len(log) \in Nat
      /\ DOMAIN log = 1 .. Len(log) /\ DOMAIN log' = 1 .. Len(log) + 1
      /\ \A i \in 1 .. Len(log) : log'[i] = log[i]
      /\ log'[Len(log) + 1] = r
  BY <1>1, AppendFacts
<1>4. PICK i \in DOMAIN log' : log'[i].id = t
  BY <1>2 DEF Prior, ToSet
<1>5. ~ (i \in 1 .. Len(log))
  BY <1>2, <1>3, <1>4 DEF Prior, ToSet
<1>6. i = Len(log) + 1
  BY <1>3, <1>5
<1>. QED  BY <1>1, <1>3, <1>4, <1>6

LEMMA LostIsNotTaken ==
  ASSUME StoreInv, Appending, disk'.journal = Before.journal, NEW t, InLog(t)'
  PROVE  InLog(t)
<1>. DEFINE log == UserLog(disk.journal)
            kept == UserLog(Before.journal)
<1>1. kept \in Seq(Commands) /\ log \in Seq(Commands) /\ IsPrefix(kept, log)
  BY UndoneIsPrefix
<1>2. Prior(kept, t) # {}
  BY DEF InLog
<1>3. InLog(t) <=> Prior(log, t) # {}
  BY DEF InLog
<1>. HIDE DEF log, kept
<1>4. /\ Len(kept) \in Nat /\ Len(log) \in Nat /\ Len(kept) <= Len(log)
      /\ DOMAIN kept = 1 .. Len(kept) /\ DOMAIN log = 1 .. Len(log)
      /\ \A i \in 1 .. Len(kept) : kept[i] = log[i]
  BY <1>1, PrefixPointwise, LenProperties
<1>5. PICK i \in DOMAIN kept : kept[i].id = t
  BY <1>2 DEF Prior, ToSet
<1>6. i \in DOMAIN log /\ log[i].id = t
  BY <1>4, <1>5
<1>. QED  BY <1>3, <1>6 DEF Prior, ToSet

(* What a step of the store may make taken.                                *)
LEMMA TakenSteps ==
  ASSUME "both" \notin Weather, StoreInv, ClientTypes, [MatcherServiceNext]_serviceVars,
         NEW t, InLog(t)', ~InLog(t)
  PROVE  \E from, c : BeginAppend(from, c) /\ c.id = t
<1>1. ~LogStays
  BY DEF LogStays, InLog
<1>2. CASE MutateStep
  BY <1>1, <1>2, MutateStepLog, TakenByAppend
<1>3. CASE WriteFails \/ ProcessDies \/ PowerFails
  BY <1>1, <1>3, TroubleLog, LostIsNotTaken
<1>4. CASE OpenStep
  BY <1>1, <1>4, OpenStepStutters
<1>5. CASE \/ ReleaseWriterLock \/ ShowState \/ OperatorRemovesLock \/ ClockMoves \/ BeginClose
           \/ \E from \in Froms, d \in Commands : Submit(from, d)
           \/ \E a \in answers : Take(a)
           \/ UNCHANGED storeVars
  <2>1. disk' = disk
    BY <1>5 DEF ReleaseWriterLock, ShowState, OperatorRemovesLock, ClockMoves, BeginClose, Submit,
                Take, storeVars, serving
  <2>. QED  BY <1>1, <2>1 DEF LogStays
<1>. QED  BY <1>2, <1>3, <1>4, <1>5, StoreStepOfService DEF Outside

(* How a step of the store moves the calls it holds.                       *)
Same == UNCHANGED <<queue, answers>> /\ (job' = None <=> job = None)
        /\ (job # None => job'.from = job.from)

Settles(from, c) ==
  /\ Begin(from, c) /\ job' = None
  /\ \E result \in {"fault", "refused"} :
       answers' = answers \cup {[from |-> from, result |-> result, record |-> None]}

Starts(from, c) ==
  /\ Begin(from, c) /\ UNCHANGED answers
  /\ job' # None /\ job'.from = from

Ends ==
  /\ job # None /\ job' = None /\ UNCHANGED queue
  /\ \E result \in {"fault", "replayed", "accepted"} : \E r :
       answers' = answers \cup {[from |-> job.from, result |-> result, record |-> r]}

LEMMA MutateStepMoves ==
  ASSUME StoreInv, MutateStep
  PROVE  \/ Same /\ ~ \E from, c : BeginAppend(from, c)
         \/ (\E from, c : Settles(from, c)) /\ ~ \E from, c : BeginAppend(from, c)
         \/ \E from, c : Starts(from, c)
         \/ Ends /\ ~ \E from, c : BeginAppend(from, c)
<1>1. ASSUME NEW from, NEW c, BeginAppend(from, c) PROVE Starts(from, c)
  <2>1. Started(from, c, "append")
    BY <1>1 DEF BeginAppend
  <2>. QED  BY <2>1, StartedFacts DEF Started, Starts
<1>2. ASSUME NEW from, NEW c, BeginReplay(from, c) PROVE Starts(from, c)
  <2>1. Started(from, c, "again")
    BY <1>2 DEF BeginReplay
  <2>. QED  BY <2>1, StartedFacts DEF Started, Starts
<1>3. ASSUME NEW from, NEW c,
             AnswerFault(from, c) \/ Refuse(from, c) \/ JournalFull(from, c)
      PROVE  Settles(from, c)
  BY <1>3 DEF AnswerFault, Refuse, JournalFull, Settle, Settles, Begin, Answer
<1>4. CASE Advance
  <2>1. job # None /\ job' = [job EXCEPT !.stage = "checkpoint"] /\ UNCHANGED <<queue, answers>>
    BY <1>4 DEF Advance
  <2>2. job \in Jobs
    BY <2>1 DEF StoreInv, StoreTypes
  <2>3. job' \in Jobs /\ job'.from = job.from
    BY <2>1, <2>2 DEF Jobs
  <2>. QED  BY <2>1, <2>3, TypesOfNone, <1>1, <1>4 DEF Same, Starts, Begin
<1>5. CASE Finish
  BY <1>1, <1>5 DEF Finish, Answer, Ends, Starts, Begin
<1>6. ASSUME NEW from, NEW c, Settles(from, c), NEW from2, NEW c2, BeginAppend(from2, c2)
      PROVE  FALSE
  <2>1. job' = None /\ job' # None
    BY <1>1, <1>6 DEF Settles, Starts
  <2>. QED  BY <2>1
<1>. QED
  BY <1>1, <1>2, <1>3, <1>4, <1>5, <1>6 DEF MutateStep

LEMMA CallersStay ==
  ASSUME [MatcherServiceNext]_serviceVars
  PROVE  UNCHANGED callers
<1>1. CASE DeskStep
  BY <1>1 DEF DeskStep, ReviewOrder, ReviewControl, Review, ConfirmOrder, ConfirmControl,
              AskWallet, Decline, SignOrder, SignControl, RetryOrder, RetryControl, Post, GiveUp,
              deskOnly
<1>2. CASE ServerStep
  BY <1>2 DEF ServerStep, TurnAway, RateLimit, ReadBody, BodyTimesOut, RefuseBody, Mutate, Respond,
              Reply
<1>. QED
  BY <1>1, <1>2 DEF MatcherServiceNext, StopServer, Crash, AnyCall, serviceVars

(* Receipts are not taken back, and accepted says there is one.            *)
LEMMA AnswersToldKept ==
  ASSUME AnswersTold, ClientTypes, [MatcherServiceNext]_serviceVars
  PROVE  AnswersTold' /\ told \subseteq told'
<1>1. CASE MutateStep
  <2>1. ASSUME NEW from, NEW c, NEW result \in {"fault", "refused"}, Settle(from, c, result)
        PROVE  AnswersTold' /\ told \subseteq told'
    BY <2>1 DEF Settle, Answer, AnswersTold, Done
  <2>2. CASE Finish
    <3>. DEFINE given == [record |-> job.record, sequence |-> PositionOf(job.record)]
    <3>1. told' = told \cup {given} /\ given.record = job.record
      BY <2>2 DEF Finish
    <3>. HIDE DEF given
    <3>2. \A a \in answers' : a \in answers \/ a.record = job.record
      BY <2>2 DEF Finish, Answer
    <3>. QED  BY <3>1, <3>2 DEF AnswersTold
  <2>3. CASE Advance
    BY <2>3 DEF Advance, AnswersTold
  <2>4. ASSUME NEW from, NEW c, BeginAppend(from, c) \/ BeginReplay(from, c)
        PROVE  AnswersTold' /\ told \subseteq told'
    BY <2>4 DEF BeginAppend, BeginReplay, Started, AnswersTold
  <2>. QED  BY <1>1, <2>1, <2>2, <2>3, <2>4 DEF MutateStep, AnswerFault, Refuse, JournalFull
<1>2. CASE WriteFails
  BY <1>2 DEF WriteFails, Answer, AnswersTold, Done
<1>3. CASE ProcessDies \/ PowerFails
  BY <1>3 DEF ProcessDies, PowerFails, Dies, AnswersTold
<1>4. CASE OpenStep
  BY <1>4 DEF OpenStep, AcquireWriterLock, ReadMarker, PrepareFiles, Replay, RefuseToOpen,
              OpenFails, WriteHead, StampMarker, Opened, Opening, GoOn, serving, AnswersTold
<1>5. CASE \/ ReleaseWriterLock \/ ShowState \/ OperatorRemovesLock \/ ClockMoves \/ BeginClose
           \/ \E from \in Froms, d \in Commands : Submit(from, d)
           \/ \E a \in answers : Take(a)
           \/ UNCHANGED storeVars
  BY <1>5 DEF ReleaseWriterLock, ShowState, OperatorRemovesLock, ClockMoves, BeginClose, Submit,
              Take, storeVars, serving, AnswersTold
<1>. QED  BY <1>1, <1>2, <1>3, <1>4, <1>5, StoreStepOfService DEF Outside

LEMMA OutcomeConfirmed ==
  ASSUME NEW t, NEW result, NEW r, Outcome(t, result, r) = "confirmed"
  PROVE  result \in Done /\ r.id = t /\ r.body = Wants[t]
<1>1. ASSUME NEW fits, OutcomeOf(result, fits) = "confirmed" PROVE result \in Done /\ fits
  BY <1>1 DEF OutcomeOf
<1>2. result \in Done /\ (OrderReceiptFits(t, Receipt(r)) \/ ControlReceiptFits(t, Receipt(r)))
  BY <1>1 DEF Outcome, OrderOutcome, ControlOutcome
<1>3. Receipt(r).id = r.id /\ Receipt(r).body = r.body
  BY DEF Receipt
<1>4. Receipt(r).id = t /\ Receipt(r).body = Wants[t]
  BY <1>2 DEF OrderReceiptFits, ControlReceiptFits
<1>. QED  BY <1>2, <1>3, <1>4

LEMMA OutcomeRejected ==
  ASSUME NEW t, NEW result, NEW r, Outcome(t, result, r) = "rejected"
  PROVE  result = "refused"
<1>1. ASSUME NEW fits, OutcomeOf(result, fits) = "rejected" PROVE result = "refused"
  BY <1>1 DEF OutcomeOf
<1>. QED  BY <1>1 DEF Outcome, OrderOutcome, ControlOutcome

(* What the browser makes of an answer.                                    *)
LEMMA Delivered ==
  ASSUME ClientTypes, NEW c \in calls, NEW result, NEW r, Deliver(c, result, r), NEW t \in Ids
  PROVE  /\ desk'[t].posts = desk[t].posts
         /\ \/ desk'[t].phase = desk[t].phase
            \/ t = c.task /\ desk'[t].phase = Outcome(t, result, r)
BY DEF Deliver, ClientTypes, Desks, Posts

(* What the browser does of its own, a post apart.                         *)
LEMMA DeskMoves ==
  ASSUME ClientTypes, NEW t \in Ids,
         \/ \E at \in Times : Review(t, at)
         \/ AskWallet(t) \/ Decline(t) \/ GiveUp(t)
  PROVE  /\ calls' = calls
         /\ \A u \in Ids :
              /\ desk'[u].posts = desk[u].posts
              /\ \/ desk'[u].phase = desk[u].phase
                 \/ desk'[u].phase \in {"reviewed", "signing", "unknown"}
<1>1. ASSUME NEW at \in Times, Review(t, at) PROVE desk' = [desk EXCEPT ![t] = Draft(t, at, AccountAnswer)]
  BY <1>1 DEF Review
<1>2. \A at \in Times : /\ Draft(t, at, AccountAnswer).posts = desk[t].posts
                        /\ Draft(t, at, AccountAnswer).phase = "reviewed"
  BY DEF Draft, ClientTypes, Desks
<1>3. CASE \E at \in Times : Review(t, at)
  BY <1>1, <1>2, <1>3 DEF ClientTypes, Review, deskOnly
<1>4. CASE AskWallet(t) \/ Decline(t) \/ GiveUp(t)
  <2>1. PICK p \in {"reviewed", "signing", "unknown"} : desk' = [desk EXCEPT ![t].phase = p]
    BY <1>4 DEF AskWallet, Decline, GiveUp
  <2>2. UNCHANGED calls
    BY <1>4 DEF AskWallet, Decline, GiveUp, deskOnly
  <2>3. [desk[t] EXCEPT !.phase = p].posts = desk[t].posts /\ [desk[t] EXCEPT !.phase = p].phase = p
    BY DEF ClientTypes, Desks
  <2>4. desk' = [desk EXCEPT ![t] = [desk[t] EXCEPT !.phase = p]]
    BY <2>1
  <2>. QED  BY <2>2, <2>3, <2>4 DEF ClientTypes
<1>. QED  BY <1>3, <1>4

LEMMA PostMoves ==
  ASSUME ClientTypes, NEW t \in Ids, Post(t)
  PROVE  /\ calls' = calls \cup
              {[task |-> t, n |-> desk[t].posts + 1, stage |-> "sent", now |-> 0]}
         /\ desk'[t].posts = desk[t].posts + 1 /\ desk'[t].phase = "posting"
         /\ \A u \in Ids : u # t => desk'[u] = desk[u]
<1>1. desk' = [desk EXCEPT ![t] = Posted(desk[t])]
  BY DEF Post
<1>2. desk[t] \in Desks
  BY DEF ClientTypes
<1>. QED  BY <1>1, <1>2, PostedType DEF Post, ClientTypes

LEMMA DeskStepCases ==
  ASSUME DeskStep
  PROVE  \E t \in Ids :
           \/ \E at \in Times : Review(t, at)
           \/ AskWallet(t) \/ Decline(t) \/ GiveUp(t)
           \/ Post(t)
BY DEF DeskStep, ReviewOrder, ReviewControl, ConfirmOrder, ConfirmControl, SignOrder, SignControl,
       RetryOrder, RetryControl

(* A task is confirmed by a receipt for what it wanted.                    *)
LEMMA ConfirmedToldKept ==
  ASSUME ClientTypes, AnswersTold, ConfirmedTold, told \subseteq told',
         [MatcherServiceNext]_serviceVars
  PROVE  ConfirmedTold'
<1>1. ASSUME NEW t \in Ids, desk'[t].phase = "confirmed", desk[t].phase # "confirmed"
      PROVE  \E q \in told : q.record.id = t /\ q.record.body = Wants[t]
  <2>1. CASE DeskStep
    BY <1>1, <2>1, DeskStepCases, DeskMoves, PostMoves
  <2>2. CASE ServerStep
    <3>1. PICK c \in calls :
            \/ TurnAway(c) \/ RateLimit(c) \/ ReadBody(c) \/ BodyTimesOut(c) \/ RefuseBody(c)
            \/ Mutate(c) \/ \E a \in answers : Respond(c, a)
      BY <2>2 DEF ServerStep
    <3>2. ASSUME NEW result \in {"unavailable", "refused"}, Reply(c, result) PROVE FALSE
      <4>1. Outcome(t, result, None) = "confirmed"
        BY <1>1, <3>2, Delivered DEF Reply
      <4>. QED  BY <4>1, OutcomeConfirmed DEF Done
    <3>3. ASSUME NEW a \in answers, Respond(c, a)
          PROVE  \E q \in told : q.record.id = t /\ q.record.body = Wants[t]
      <4>1. Deliver(c, Status(a.result), a.record)
        BY <3>3 DEF Respond
      <4>2. Outcome(t, Status(a.result), a.record) = "confirmed"
        BY <1>1, <4>1, Delivered
      <4>3. Status(a.result) \in Done /\ a.record.id = t /\ a.record.body = Wants[t]
        BY <4>2, OutcomeConfirmed
      <4>4. a.result \in Done
        BY <4>3 DEF Status, Done
      <4>. QED  BY <4>3, <4>4 DEF AnswersTold
    <3>. QED  BY <1>1, <3>1, <3>2, <3>3 DEF TurnAway, RateLimit, ReadBody, BodyTimesOut, RefuseBody, Mutate
  <2>3. CASE UNCHANGED desk
    BY <1>1, <2>3
  <2>. QED  BY <2>1, <2>2, <2>3 DEF MatcherServiceNext, StopServer, Crash, AnyCall, serviceVars
<1>. QED  BY <1>1 DEF ConfirmedTold

-----------------------------------------------------------------------------
(* The posts of the workflows. *)

(* Two waiting calls of a task that was posted once are one.               *)
LEMMA OnePost ==
  ASSUME ClientTypes, PostsOnce, NEW t \in Ids, desk[t].posts <= 1,
         NEW c \in calls, NEW d \in calls, c.task = t, d.task = t
  PROVE  c = d /\ desk[t].posts = 1 /\ c.n = 1
<1>1. c.n \in 1 .. desk[t].posts /\ d.n \in 1 .. desk[t].posts /\ desk[t].posts \in Nat
  BY DEF PostsOnce, ClientTypes, Desks
<1>2. c.n = 1 /\ d.n = 1 /\ desk[t].posts = 1
  BY <1>1
<1>. QED  BY <1>2 DEF PostsOnce

(* What stays of FirstPosts when a step says nothing new of any task.      *)
LEMMA FirstPostsStay ==
  ASSUME FirstPosts, \A t \in Ids : desk'[t].posts <= 1 => desk[t].posts <= 1,
         \A t \in Ids : desk[t].posts <= 1 /\ NotYet(t)' => NotYet(t),
         \A t \in Ids : InLog(t)' => InLog(t),
         \A t \in Ids : desk[t].posts <= 1 /\ desk'[t].phase = "rejected" =>
                          \A c \in calls' : c.task # t
  PROVE  FirstPosts'
BY DEF FirstPosts

(* The head of the queue and the rest.                                     *)
LEMMA QueueAfterBegin ==
  ASSUME StoreInv, NEW from, NEW c, Begin(from, c)
  PROVE  /\ 1 \in DOMAIN queue /\ queue[1].from = from /\ queue[1].command = c
         /\ \A i \in DOMAIN queue' :
              i + 1 \in DOMAIN queue /\ i + 1 # 1 /\ queue'[i] = queue[i + 1] /\ i \in Nat
<1>1. queue \in Seq([from : Froms, command : Commands]) /\ queue # <<>> /\ queue' = Tail(queue)
  BY DEF StoreInv, StoreTypes, Begin
<1>2. Len(queue) \in Nat /\ Len(queue) # 0 /\ DOMAIN queue = 1 .. Len(queue)
  BY <1>1, EmptySeq
<1>3. /\ queue' \in Seq([from : Froms, command : Commands])
      /\ Len(queue') = Len(queue) - 1
      /\ \A i \in 1 .. Len(queue') : queue'[i] = queue[i + 1]
  BY <1>1, HeadTailProperties
<1>4. DOMAIN queue' = 1 .. Len(queue')
  BY <1>3
<1>5. \A i \in 1 .. Len(queue') : i + 1 \in 1 .. Len(queue) /\ i + 1 # 1 /\ i \in Nat
  BY <1>2, <1>3
<1>6. queue[1].from = from /\ queue[1].command = c
  BY DEF Begin
<1>. QED  BY <1>2, <1>3, <1>4, <1>5, <1>6

LEMMA QueueTypes ==
  ASSUME StoreInv, NEW i \in DOMAIN queue
  PROVE  queue[i].command \in Commands /\ queue[i].command.id \in Ids
<1>1. queue \in Seq([from : Froms, command : Commands])
  BY DEF StoreInv, StoreTypes
<1>2. DOMAIN queue = 1 .. Len(queue)
  BY <1>1
<1>3. queue[i] \in [from : Froms, command : Commands]
  BY <1>1, <1>2, ElementOfSeq
<1>. QED  BY <1>3 DEF Commands

LEMMA SettlesKeeps ==
  ASSUME ServiceInv, PostsOnce, OneAnswerEach, FirstPosts, NEW from, NEW c, Settles(from, c),
         UNCHANGED <<desk, calls>>, \A t \in Ids : InLog(t)' => InLog(t)
  PROVE  PostsOnce' /\ OneAnswerEach' /\ FirstPosts'
<1>1. /\ 1 \in DOMAIN queue /\ queue[1].from = from /\ queue[1].command = c
      /\ \A i \in DOMAIN queue' :
           i + 1 \in DOMAIN queue /\ i + 1 # 1 /\ queue'[i] = queue[i + 1] /\ i \in Nat
  BY QueueAfterBegin DEF ServiceInv, Settles
<1>2. PICK result \in {"fault", "refused"} :
        answers' = answers \cup {[from |-> from, result |-> result, record |-> None]}
  BY DEF Settles
<1>. DEFINE b == [from |-> from, result |-> result, record |-> None]
<1>3. answers' = answers \cup {b} /\ b.from = from /\ job = None /\ job' = None
  BY <1>2 DEF Settles, Begin
<1>. HIDE DEF b
<1>4. calls' = calls
  OBVIOUS
<1>5. OneAnswerEach'
  <2>1. \A i \in DOMAIN queue' :
          Waits(queue'[i].from, calls') /\ queue'[i].from[1] = queue'[i].command.id
    BY <1>1, <1>4 DEF OneAnswerEach
  <2>2. \A a \in answers' : Waits(a.from, calls')
    BY <1>1, <1>3, <1>4 DEF OneAnswerEach
  <2>3. \A i, k \in DOMAIN queue' : queue'[i].from = queue'[k].from => i = k
    <3>1. ASSUME NEW i \in DOMAIN queue', NEW k \in DOMAIN queue', queue'[i].from = queue'[k].from
          PROVE  i + 1 = k + 1 /\ i \in Nat /\ k \in Nat
      BY <1>1, <3>1 DEF OneAnswerEach
    <3>. QED  BY <3>1
  <2>4. \A a \in answers', i \in DOMAIN queue' : queue'[i].from # a.from
    BY <1>1, <1>3 DEF OneAnswerEach
  <2>5. \A a, d \in answers' : a.from = d.from => a = d
    BY <1>1, <1>3 DEF OneAnswerEach
  <2>. QED  BY <1>3, <2>1, <2>2, <2>3, <2>4, <2>5 DEF OneAnswerEach
<1>6. FirstPosts'
  <2>1. ASSUME NEW t \in Ids, NotYet(t)' PROVE NotYet(t)
    <3>1. from[1] = queue[1].command.id
      BY <1>1 DEF OneAnswerEach
    <3>2. ASSUME NEW i \in DOMAIN queue', queue'[i].command.id = t PROVE NotYet(t)
      BY <1>1, <3>2 DEF NotYet
    <3>3. ASSUME NEW a \in answers', a.result = "refused", a.from[1] = t PROVE NotYet(t)
      BY <1>1, <1>3, <3>1, <3>3 DEF NotYet
    <3>. QED  BY <2>1, <3>2, <3>3 DEF NotYet
  <2>. QED  BY <2>1, FirstPostsStay DEF FirstPosts
<1>. QED  BY <1>5, <1>6 DEF PostsOnce

LEMMA StartsKeeps ==
  ASSUME ServiceInv, PostsOnce, OneAnswerEach, FirstPosts, NEW from, NEW c, Starts(from, c),
         UNCHANGED <<desk, calls>>, \A t \in Ids : InLog(t)' /\ ~InLog(t) => c.id = t
  PROVE  PostsOnce' /\ OneAnswerEach' /\ FirstPosts'
<1>1. /\ 1 \in DOMAIN queue /\ queue[1].from = from /\ queue[1].command = c
      /\ \A i \in DOMAIN queue' :
           i + 1 \in DOMAIN queue /\ i + 1 # 1 /\ queue'[i] = queue[i + 1] /\ i \in Nat
  BY QueueAfterBegin DEF ServiceInv, Starts
<1>2. job = None /\ job' # None /\ job'.from = from /\ UNCHANGED answers
  BY DEF Starts, Begin
<1>3. calls' = calls
  OBVIOUS
<1>4. OneAnswerEach'
  <2>1. \A i \in DOMAIN queue' :
          Waits(queue'[i].from, calls') /\ queue'[i].from[1] = queue'[i].command.id
    BY <1>1, <1>3 DEF OneAnswerEach
  <2>2. Waits(job'.from, calls') /\ \A a \in answers' : Waits(a.from, calls') /\ job'.from # a.from
    BY <1>1, <1>2, <1>3 DEF OneAnswerEach
  <2>3. \A i, k \in DOMAIN queue' : queue'[i].from = queue'[k].from => i = k
    <3>1. ASSUME NEW i \in DOMAIN queue', NEW k \in DOMAIN queue', queue'[i].from = queue'[k].from
          PROVE  i + 1 = k + 1 /\ i \in Nat /\ k \in Nat
      BY <1>1, <3>1 DEF OneAnswerEach
    <3>. QED  BY <3>1
  <2>4. \A i \in DOMAIN queue' :
          queue'[i].from # job'.from /\ \A a \in answers' : queue'[i].from # a.from
    BY <1>1, <1>2 DEF OneAnswerEach
  <2>5. \A a, d \in answers' : a.from = d.from => a = d
    BY <1>2 DEF OneAnswerEach
  <2>. QED  BY <1>2, <2>1, <2>2, <2>3, <2>4, <2>5 DEF OneAnswerEach
<1>5. FirstPosts'
  <2>1. ASSUME NEW t \in Ids, NotYet(t)' PROVE NotYet(t)
    <3>1. ASSUME NEW i \in DOMAIN queue', queue'[i].command.id = t PROVE NotYet(t)
      BY <1>1, <3>1 DEF NotYet
    <3>. QED  BY <1>2, <2>1, <3>1 DEF NotYet
  <2>2. ASSUME NEW t \in Ids, desk[t].posts <= 1, NotYet(t)', c.id = t PROVE FALSE
    <3>1. PICK d \in calls : d.stage = "storing" /\ from = <<d.task, d.n>>
      BY <1>1 DEF OneAnswerEach, Waits
    <3>2. d.task = t
      BY <1>1, <2>2, <3>1 DEF OneAnswerEach
    <3>3. \A e \in calls : e.task = t => e = d
      BY <2>2, <3>2, OnePost DEF ServiceInv
    <3>4. desk[t].posts = 1 /\ desk[t].phase # "rejected"
      <4>1. desk[t].posts = 1
        BY <2>2, <3>2, OnePost DEF ServiceInv
      <4>. QED  BY <2>2, <3>2, <4>1 DEF FirstPosts
    <3>5. \A f : Waits(f, calls) /\ f[1] = t => f = from
      BY <3>1, <3>3 DEF Waits
    <3>6. ~ \E i \in DOMAIN queue' : queue'[i].command.id = t
      <4>1. ASSUME NEW i \in DOMAIN queue', queue'[i].command.id = t PROVE FALSE
        <5>1. /\ i + 1 \in DOMAIN queue /\ queue[i + 1].command.id = t /\ i + 1 # 1
              /\ Waits(queue[i + 1].from, calls) /\ queue[i + 1].from[1] = t
          BY <1>1, <4>1 DEF OneAnswerEach
        <5>2. queue[i + 1].from = queue[1].from
          BY <1>1, <3>5, <5>1
        <5>. QED  BY <1>1, <5>1, <5>2 DEF OneAnswerEach
      <4>. QED  BY <4>1
    <3>7. ~ \E a \in answers' : a.result = "refused" /\ a.from[1] = t
      <4>1. ASSUME NEW a \in answers, a.from[1] = t PROVE FALSE
        <5>1. a.from = queue[1].from
          BY <1>1, <3>5, <4>1 DEF OneAnswerEach
        <5>. QED  BY <1>1, <5>1 DEF OneAnswerEach
      <4>. QED  BY <1>2, <4>1
    <3>8. ~ \E e \in calls' : e.task = t /\ e.stage # "storing"
      BY <3>1, <3>3
    <3>. QED  BY <2>2, <3>4, <3>6, <3>7, <3>8 DEF NotYet
  <2>3. \A t \in Ids : desk'[t].posts <= 1 /\ NotYet(t)' => ~InLog(t)'
    BY <2>1, <2>2 DEF FirstPosts
  <2>. QED  BY <2>3 DEF FirstPosts
<1>. QED  BY <1>4, <1>5 DEF PostsOnce

LEMMA EndsKeeps ==
  ASSUME ServiceInv, PostsOnce, OneAnswerEach, FirstPosts, Ends,
         UNCHANGED <<desk, calls>>, \A t \in Ids : InLog(t)' => InLog(t)
  PROVE  PostsOnce' /\ OneAnswerEach' /\ FirstPosts'
<1>1. PICK result \in {"fault", "replayed", "accepted"} : \E r :
        answers' = answers \cup {[from |-> job.from, result |-> result, record |-> r]}
  BY DEF Ends
<1>. PICK r : answers' = answers \cup {[from |-> job.from, result |-> result, record |-> r]}
  BY <1>1
<1>. DEFINE b == [from |-> job.from, result |-> result, record |-> r]
<1>2. /\ answers' = answers \cup {b} /\ b.from = job.from /\ b.result # "refused"
      /\ job # None /\ job' = None /\ UNCHANGED queue
  BY DEF Ends
<1>. HIDE DEF b
<1>3. calls' = calls
  OBVIOUS
<1>4. OneAnswerEach'
  <2>1. \A a \in answers' : Waits(a.from, calls') /\ \A i \in DOMAIN queue' : queue'[i].from # a.from
    BY <1>2, <1>3 DEF OneAnswerEach
  <2>2. \A a, d \in answers' : a.from = d.from => a = d
    BY <1>2 DEF OneAnswerEach
  <2>. QED  BY <1>2, <1>3, <2>1, <2>2 DEF OneAnswerEach
<1>5. FirstPosts'
  <2>1. \A t \in Ids : NotYet(t)' => NotYet(t)
    BY <1>2 DEF NotYet
  <2>. QED  BY <2>1, FirstPostsStay DEF FirstPosts
<1>. QED  BY <1>4, <1>5 DEF PostsOnce

LEMMA SameKeeps ==
  ASSUME PostsOnce, OneAnswerEach, FirstPosts, Same,
         UNCHANGED <<desk, calls>>, \A t \in Ids : InLog(t)' => InLog(t)
  PROVE  PostsOnce' /\ OneAnswerEach' /\ FirstPosts'
<1>1. calls' = calls
  OBVIOUS
<1>2. OneAnswerEach'
  BY <1>1 DEF OneAnswerEach, Same
<1>3. FirstPosts'
  <2>1. \A t \in Ids : NotYet(t)' => NotYet(t)
    BY DEF NotYet, Same
  <2>. QED  BY <2>1, FirstPostsStay DEF FirstPosts
<1>. QED  BY <1>2, <1>3 DEF PostsOnce

(* A post that was answered waits no more.                                 *)
LEMMA ReplyKeeps ==
  ASSUME ServiceInv, PostsOnce, OneAnswerEach, FirstPosts, NEW c \in calls,
         c.stage # "storing", NEW result, Reply(c, result)
  PROVE  PostsOnce' /\ OneAnswerEach' /\ FirstPosts'
<1>1. /\ Deliver(c, result, None) /\ calls' = calls \ {c}
      /\ UNCHANGED <<queue, job, answers, disk>>
  BY DEF Reply, storeVars
<1>2. \A t \in Ids : /\ desk'[t].posts = desk[t].posts
                     /\ \/ desk'[t].phase = desk[t].phase
                        \/ t = c.task
  BY <1>1, Delivered DEF ServiceInv
<1>3. \A d \in calls : d.task \in Ids
  BY DEF ServiceInv, ClientTypes, Posts
<1>4. PostsOnce'
  BY <1>1, <1>2, <1>3 DEF PostsOnce
<1>5. \A f : Waits(f, calls') <=> Waits(f, calls)
  BY <1>1 DEF Waits
<1>6. OneAnswerEach'
  BY <1>1, <1>5 DEF OneAnswerEach
<1>7. FirstPosts'
  <2>1. \A t \in Ids : InLog(t)' => InLog(t)
    BY <1>1 DEF InLog
  <2>2. \A t \in Ids : NotYet(t)' => NotYet(t)
    BY <1>1, <1>2 DEF NotYet
  <2>3. ASSUME NEW t \in Ids, desk[t].posts <= 1, desk'[t].phase = "rejected",
               NEW d \in calls', d.task = t
        PROVE  FALSE
    <3>1. CASE desk'[t].phase = desk[t].phase
      BY <1>1, <2>3, <3>1 DEF FirstPosts
    <3>2. CASE t = c.task
      BY <1>1, <2>3, <3>2, OnePost DEF ServiceInv
    <3>. QED  BY <1>2, <3>1, <3>2
  <2>. QED  BY <1>2, <2>1, <2>2, <2>3, FirstPostsStay
<1>. QED  BY <1>4, <1>6, <1>7

(* A call moves on from one stage to the next.                             *)
LEMMA MovedPosts ==
  ASSUME ServiceInv, PostsOnce, NEW c \in calls, NEW stage, MoveTo(c, stage), UNCHANGED desk
  PROVE  /\ PostsOnce'
         /\ \E e : /\ calls' = (calls \ {c}) \cup {e}
                   /\ e.task = c.task /\ e.n = c.n /\ e.stage = stage
<1>. DEFINE e == [c EXCEPT !.stage = stage, !.now = clock]
<1>1. calls' = (calls \ {c}) \cup {e}
  BY DEF MoveTo
<1>2. e.task = c.task /\ e.n = c.n /\ e.stage = stage
  BY DEF ServiceInv, ClientTypes, Posts
<1>. HIDE DEF e
<1>3. PostsOnce'
  BY <1>1, <1>2 DEF PostsOnce
<1>. QED  BY <1>1, <1>2, <1>3

LEMMA ReadBodyKeeps ==
  ASSUME ServiceInv, PostsOnce, OneAnswerEach, FirstPosts, NEW c \in calls, ReadBody(c)
  PROVE  PostsOnce' /\ OneAnswerEach' /\ FirstPosts'
<1>1. /\ c.stage = "sent" /\ MoveTo(c, "reading")
      /\ UNCHANGED <<queue, job, answers, disk, desk>>
  BY DEF ReadBody, Arrives, storeVars
<1>2. PICK e : /\ calls' = (calls \ {c}) \cup {e}
               /\ e.task = c.task /\ e.n = c.n /\ e.stage = "reading"
  BY <1>1, MovedPosts
<1>3. PostsOnce'
  BY <1>1, MovedPosts
<1>4. \A f : Waits(f, calls') <=> Waits(f, calls)
  BY <1>1, <1>2 DEF Waits
<1>5. OneAnswerEach'
  BY <1>1, <1>4 DEF OneAnswerEach
<1>6. FirstPosts'
  <2>1. \A t \in Ids : InLog(t)' => InLog(t)
    BY <1>1 DEF InLog
  <2>2. \A t \in Ids : NotYet(t)' => NotYet(t)
    BY <1>1, <1>2 DEF NotYet
  <2>3. \A t \in Ids : desk[t].posts <= 1 /\ desk'[t].phase = "rejected" =>
                         \A d \in calls' : d.task # t
    BY <1>1, <1>2 DEF FirstPosts
  <2>. QED  BY <1>1, <2>1, <2>2, <2>3, FirstPostsStay
<1>. QED  BY <1>3, <1>5, <1>6

LEMMA SubmitKeeps ==
  ASSUME ServiceInv, PostsOnce, OneAnswerEach, FirstPosts, NEW c \in calls,
         c.stage = "reading", Submit(<<c.task, c.n>>, Command(c.task)), MoveTo(c, "storing"),
         UNCHANGED desk
  PROVE  PostsOnce' /\ OneAnswerEach' /\ FirstPosts'
<1>. DEFINE q == [from |-> <<c.task, c.n>>, command |-> Command(c.task)]
            N == Len(queue)
<1>1. queue' = Append(queue, q) /\ UNCHANGED <<job, answers, disk>>
  BY DEF Submit
<1>2. PICK e : /\ calls' = (calls \ {c}) \cup {e}
               /\ e.task = c.task /\ e.n = c.n /\ e.stage = "storing"
  BY MovedPosts
<1>3. PostsOnce'
  BY MovedPosts
<1>4. q.from = <<c.task, c.n>> /\ q.command.id = c.task
  BY DEF Command
<1>5. q \in [from : Froms, command : Commands]
  <2>1. c.task \in Ids /\ c.n \in Nat
    BY DEF ServiceInv, ClientTypes, Posts
  <2>. QED  BY <2>1, CommandType DEF Froms, ServiceInv
<1>. HIDE DEF q
<1>6. /\ N \in Nat /\ DOMAIN queue = 1 .. N /\ DOMAIN queue' = 1 .. N + 1
      /\ \A i \in 1 .. N : queue'[i] = queue[i]
      /\ queue'[N + 1] = q
  <2>1. queue \in Seq([from : Froms, command : Commands])
    BY DEF ServiceInv, StoreInv, StoreTypes
  <2>. QED  BY <1>1, <1>5, <2>1, AppendFacts
<1>. HIDE DEF N
<1>7. \A i \in DOMAIN queue' : i \in 1 .. N \/ i = N + 1
  BY <1>6
<1>8. \A f : Waits(f, calls) => Waits(f, calls') /\ f # q.from
  BY <1>2, <1>4 DEF Waits, PostsOnce
<1>9. Waits(q.from, calls')
  BY <1>2, <1>4 DEF Waits
<1>10. OneAnswerEach'
  <2>1. \A i \in DOMAIN queue' :
          Waits(queue'[i].from, calls') /\ queue'[i].from[1] = queue'[i].command.id
    BY <1>4, <1>6, <1>7, <1>8, <1>9 DEF OneAnswerEach
  <2>2. /\ job' # None => Waits(job'.from, calls')
        /\ \A a \in answers' : Waits(a.from, calls') /\ (job' # None => job'.from # a.from)
    BY <1>1, <1>8 DEF OneAnswerEach
  <2>3. \A i, k \in DOMAIN queue' : queue'[i].from = queue'[k].from => i = k
    BY <1>6, <1>7, <1>8 DEF OneAnswerEach
  <2>4. \A i \in DOMAIN queue' : /\ job' # None => queue'[i].from # job'.from
                                 /\ \A a \in answers' : queue'[i].from # a.from
    BY <1>1, <1>6, <1>7, <1>8 DEF OneAnswerEach
  <2>5. \A a, d \in answers' : a.from = d.from => a = d
    BY <1>1 DEF OneAnswerEach
  <2>. QED  BY <2>1, <2>2, <2>3, <2>4, <2>5 DEF OneAnswerEach
<1>11. FirstPosts'
  <2>1. \A t \in Ids : InLog(t)' => InLog(t)
    BY <1>1 DEF InLog
  <2>2. ASSUME NEW t \in Ids, NotYet(t)' PROVE NotYet(t)
    <3>1. ASSUME NEW i \in DOMAIN queue', queue'[i].command.id = t PROVE NotYet(t)
      BY <1>4, <1>6, <1>7, <3>1 DEF NotYet
    <3>2. ASSUME NEW d \in calls', d.task = t, d.stage # "storing" PROVE NotYet(t)
      BY <1>2, <3>2 DEF NotYet
    <3>. QED  BY <1>1, <2>2, <3>1, <3>2 DEF NotYet
  <2>3. \A t \in Ids : desk[t].posts <= 1 /\ desk'[t].phase = "rejected" =>
                         \A d \in calls' : d.task # t
    BY <1>2 DEF FirstPosts
  <2>. QED  BY <2>1, <2>2, <2>3, FirstPostsStay
<1>. QED  BY <1>3, <1>10, <1>11

LEMMA RespondKeeps ==
  ASSUME ServiceInv, PostsOnce, OneAnswerEach, FirstPosts, NEW c \in calls, NEW a \in answers,
         Respond(c, a)
  PROVE  PostsOnce' /\ OneAnswerEach' /\ FirstPosts'
<1>1. /\ a.from = <<c.task, c.n>> /\ answers' = answers \ {a} /\ calls' = calls \ {c}
      /\ Deliver(c, Status(a.result), a.record) /\ UNCHANGED <<queue, job, disk>>
  BY DEF Respond, Take
<1>2. \A t \in Ids : /\ desk'[t].posts = desk[t].posts
                     /\ \/ desk'[t].phase = desk[t].phase
                        \/ t = c.task /\ desk'[t].phase = Outcome(t, Status(a.result), a.record)
  BY <1>1, Delivered DEF ServiceInv
<1>3. \A d \in calls : d.task \in Ids
  BY DEF ServiceInv, ClientTypes, Posts
<1>4. PostsOnce'
  BY <1>1, <1>2, <1>3 DEF PostsOnce
<1>5. \A f : Waits(f, calls) /\ f # a.from => Waits(f, calls')
  BY <1>1 DEF Waits
<1>6. OneAnswerEach'
  <2>1. \A i \in DOMAIN queue :
          Waits(queue[i].from, calls') /\ queue[i].from[1] = queue[i].command.id
    BY <1>5 DEF OneAnswerEach
  <2>2. job # None => Waits(job.from, calls')
    BY <1>5 DEF OneAnswerEach
  <2>3. \A b \in answers' : Waits(b.from, calls')
    BY <1>1, <1>5 DEF OneAnswerEach
  <2>. QED  BY <1>1, <2>1, <2>2, <2>3 DEF OneAnswerEach
<1>7. FirstPosts'
  <2>1. \A t \in Ids : InLog(t)' => InLog(t)
    BY <1>1 DEF InLog
  <2>2. ASSUME NEW t \in Ids, NotYet(t)' PROVE NotYet(t)
    <3>1. ASSUME t = c.task, Outcome(t, Status(a.result), a.record) = "rejected" PROVE NotYet(t)
      <4>1. a.result = "refused"
        <5>1. Status(a.result) = "refused"
          BY <3>1, OutcomeRejected
        <5>. QED  BY <5>1 DEF Status
      <4>. QED  BY <1>1, <3>1, <4>1 DEF NotYet
    <3>. QED  BY <1>1, <1>2, <2>2, <3>1 DEF NotYet
  <2>3. ASSUME NEW t \in Ids, desk[t].posts <= 1, desk'[t].phase = "rejected",
               NEW d \in calls', d.task = t
        PROVE  FALSE
    <3>1. CASE desk'[t].phase = desk[t].phase
      BY <1>1, <2>3, <3>1 DEF FirstPosts
    <3>2. CASE t = c.task
      BY <1>1, <2>3, <3>2, OnePost DEF ServiceInv
    <3>. QED  BY <1>2, <3>1, <3>2
  <2>. QED  BY <1>2, <2>1, <2>2, <2>3, FirstPostsStay
<1>. QED  BY <1>4, <1>6, <1>7

LEMMA ServerKeeps ==
  ASSUME ServiceInv, PostsOnce, OneAnswerEach, FirstPosts, ServerStep
  PROVE  PostsOnce' /\ OneAnswerEach' /\ FirstPosts'
<1>. PICK c \in calls :
       \/ TurnAway(c) \/ RateLimit(c) \/ ReadBody(c) \/ BodyTimesOut(c) \/ RefuseBody(c)
       \/ Mutate(c) \/ \E a \in answers : Respond(c, a)
  BY DEF ServerStep
<1>1. CASE TurnAway(c) \/ RateLimit(c)
  <2>1. PICK result : Reply(c, result)
    BY <1>1 DEF TurnAway, RateLimit
  <2>2. c.stage = "sent"
    BY <1>1 DEF TurnAway, RateLimit, Arrives
  <2>. QED  BY <2>1, <2>2, ReplyKeeps
<1>2. CASE BodyTimesOut(c) \/ RefuseBody(c)
  <2>1. PICK result : Reply(c, result)
    BY <1>2 DEF BodyTimesOut, RefuseBody
  <2>2. c.stage = "reading"
    BY <1>2 DEF BodyTimesOut, RefuseBody
  <2>. QED  BY <2>1, <2>2, ReplyKeeps
<1>3. CASE Mutate(c)
  <2>1. c.stage = "reading"
    BY <1>3 DEF Mutate
  <2>2. CASE Reply(c, "unavailable")
    BY <2>1, <2>2, ReplyKeeps
  <2>. QED  BY <1>3, <2>1, <2>2, SubmitKeeps DEF Mutate
<1>. QED  BY <1>1, <1>2, <1>3, ReadBodyKeeps, RespondKeeps

LEMMA DeskKeeps ==
  ASSUME ServiceInv, PostsOnce, OneAnswerEach, FirstPosts, DeskStep
  PROVE  PostsOnce' /\ OneAnswerEach' /\ FirstPosts'
<1>. PICK t \in Ids :
       \/ \E at \in Times : Review(t, at)
       \/ AskWallet(t) \/ Decline(t) \/ GiveUp(t)
       \/ Post(t)
  BY DeskStepCases
<1>1. UNCHANGED <<queue, job, answers, disk>>
  BY DeskStepStore DEF storeVars
<1>2. \A u \in Ids : InLog(u)' => InLog(u)
  BY <1>1 DEF InLog
<1>3. \A d \in calls : d.task \in Ids
  BY DEF ServiceInv, ClientTypes, Posts
<1>4. CASE (\E at \in Times : Review(t, at)) \/ AskWallet(t) \/ Decline(t) \/ GiveUp(t)
  <2>1. /\ calls' = calls
        /\ \A u \in Ids :
             /\ desk'[u].posts = desk[u].posts
             /\ \/ desk'[u].phase = desk[u].phase
                \/ desk'[u].phase \in {"reviewed", "signing", "unknown"}
    BY <1>4, DeskMoves DEF ServiceInv
  <2>2. PostsOnce'
    BY <1>3, <2>1 DEF PostsOnce
  <2>3. OneAnswerEach'
    BY <1>1, <2>1 DEF OneAnswerEach
  <2>4. FirstPosts'
    <3>1. \A u \in Ids : NotYet(u)' => NotYet(u)
      BY <1>1, <2>1 DEF NotYet
    <3>2. \A u \in Ids : desk[u].posts <= 1 /\ desk'[u].phase = "rejected" =>
                           \A d \in calls' : d.task # u
      BY <2>1 DEF FirstPosts
    <3>. QED  BY <1>2, <2>1, <3>1, <3>2, FirstPostsStay
  <2>. QED  BY <2>2, <2>3, <2>4
<1>5. CASE Post(t)
  <2>. DEFINE e == [task |-> t, n |-> desk[t].posts + 1, stage |-> "sent", now |-> 0]
  <2>1. /\ calls' = calls \cup {e}
        /\ desk'[t].posts = desk[t].posts + 1 /\ desk'[t].phase = "posting"
        /\ \A u \in Ids : u # t => desk'[u] = desk[u]
    BY <1>5, PostMoves DEF ServiceInv
  <2>2. e.task = t /\ e.n = desk[t].posts + 1 /\ e.stage = "sent"
    OBVIOUS
  <2>3. \A u \in Ids : desk[u].posts \in Nat
    BY DEF ServiceInv, ClientTypes, Desks
  <2>. HIDE DEF e
  <2>4. PostsOnce'
    <3>1. \A d \in calls : d.n \in 1 .. desk[d.task].posts /\ d.n \in 1 .. desk'[d.task].posts
      BY <1>3, <2>1, <2>3 DEF PostsOnce
    <3>2. e.n \in 1 .. desk'[e.task].posts
      BY <2>1, <2>2, <2>3
    <3>3. \A d \in calls : d.task = t => d.n # e.n
      BY <2>2, <2>3, <3>1
    <3>. QED  BY <2>1, <2>2, <3>1, <3>2, <3>3 DEF PostsOnce
  <2>5. OneAnswerEach'
    <3>1. \A f : Waits(f, calls) => Waits(f, calls')
      BY <2>1 DEF Waits
    <3>. QED  BY <1>1, <3>1 DEF OneAnswerEach
  <2>6. FirstPosts'
    <3>1. ASSUME NEW u \in Ids, desk[u].posts <= 1, desk'[u].posts <= 1, NotYet(u)' PROVE NotYet(u)
      <4>1. CASE u = t
        <5>1. desk[t].posts = 0
          BY <2>1, <2>3, <3>1, <4>1
        <5>. QED  BY <4>1, <5>1 DEF NotYet
      <4>2. CASE u # t
        BY <1>1, <2>1, <2>2, <3>1, <4>2 DEF NotYet
      <4>. QED  BY <4>1, <4>2
    <3>2. \A u \in Ids : desk'[u].posts <= 1 => desk[u].posts <= 1
      BY <2>1, <2>3
    <3>3. ASSUME NEW u \in Ids, desk[u].posts <= 1, desk'[u].phase = "rejected"
          PROVE  \A d \in calls' : d.task # u
      <4>1. u # t
        BY <2>1, <3>3
      <4>. QED  BY <2>1, <2>2, <3>3, <4>1 DEF FirstPosts
    <3>. QED  BY <1>2, <3>1, <3>2, <3>3 DEF FirstPosts
  <2>. QED  BY <2>4, <2>5, <2>6
<1>. QED  BY <1>4, <1>5

LEMMA CrashKeeps ==
  ASSUME ServiceInv, PostsOnce, OneAnswerEach, FirstPosts, Crash,
         \A t \in Ids : InLog(t)' => InLog(t)
  PROVE  PostsOnce' /\ OneAnswerEach' /\ FirstPosts'
<1>1. /\ queue' = <<>> /\ job' = None /\ answers' = {} /\ calls' = calls \ InServer
      /\ UNCHANGED desk
  BY DEF Crash, ProcessDies, PowerFails, Dies
<1>2. calls' \subseteq calls /\ DOMAIN queue' = {}
  BY <1>1
<1>3. PostsOnce'
  BY <1>1, <1>2 DEF PostsOnce
<1>4. OneAnswerEach'
  BY <1>1, <1>2 DEF OneAnswerEach
<1>5. FirstPosts'
  <2>1. \A t \in Ids : NotYet(t)' => NotYet(t)
    BY <1>1, <1>2 DEF NotYet
  <2>2. \A t \in Ids : desk[t].posts <= 1 /\ desk'[t].phase = "rejected" =>
                         \A d \in calls' : d.task # t
    BY <1>1, <1>2 DEF FirstPosts
  <2>. QED  BY <1>1, <2>1, <2>2, FirstPostsStay
<1>. QED  BY <1>3, <1>4, <1>5

(* Nothing but the work on a call makes a task taken.                      *)
LEMMA TakenStays ==
  ASSUME "both" \notin Weather, StoreInv,
         \/ OpenStep \/ Outside \/ ReleaseWriterLock \/ BeginClose \/ ProcessDies \/ PowerFails
         \/ UNCHANGED disk,
         NEW t, InLog(t)'
  PROVE  InLog(t)
<1>1. CASE WriteFails \/ ProcessDies \/ PowerFails
  BY <1>1, TroubleLog, LostIsNotTaken DEF LogStays, InLog
<1>2. CASE OpenStep
  BY <1>2, OpenStepStutters DEF LogStays, InLog
<1>3. CASE ReleaseWriterLock \/ BeginClose \/ ShowState \/ OperatorRemovesLock \/ ClockMoves
           \/ UNCHANGED disk
  <2>1. disk' = disk
    BY <1>3 DEF ReleaseWriterLock, BeginClose, ShowState, OperatorRemovesLock, ClockMoves
  <2>. QED  BY <2>1 DEF InLog
<1>. QED  BY <1>1, <1>2, <1>3 DEF Outside

(* Work on a call of the queue.                                            *)
LEMMA MutateKeeps ==
  ASSUME "both" \notin Weather, ServiceInv, PostsOnce, OneAnswerEach, FirstPosts, MutateStep,
         [MatcherServiceNext]_serviceVars, UNCHANGED <<desk, calls>>
  PROVE  PostsOnce' /\ OneAnswerEach' /\ FirstPosts'
<1>1. \A t \in Ids : InLog(t)' /\ ~InLog(t) => \E from, c : BeginAppend(from, c) /\ c.id = t
  BY TakenSteps DEF ServiceInv
<1>2. ASSUME NEW from, NEW c, Starts(from, c) PROVE PostsOnce' /\ OneAnswerEach' /\ FirstPosts'
  <2>1. ASSUME NEW from2, NEW c2, BeginAppend(from2, c2) PROVE c2 = c
    BY <1>2, <2>1 DEF BeginAppend, Started, Starts, Begin
  <2>2. \A t \in Ids : InLog(t)' /\ ~InLog(t) => c.id = t
    BY <1>1, <2>1
  <2>. QED  BY <1>2, <2>2, StartsKeeps
<1>3. CASE ~ \E from, c : BeginAppend(from, c)
  <2>1. \A t \in Ids : InLog(t)' => InLog(t)
    BY <1>1, <1>3
  <2>2. CASE Same
    BY <2>1, <2>2, SameKeeps
  <2>3. CASE \E from, c : Settles(from, c)
    BY <2>1, <2>3, SettlesKeeps
  <2>4. CASE Ends
    BY <2>1, <2>4, EndsKeeps
  <2>. QED  BY <1>2, <2>2, <2>3, <2>4, MutateStepMoves DEF ServiceInv
<1>. QED  BY <1>2, <1>3, MutateStepMoves DEF ServiceInv

(* Steps of the store that look at no call.                                *)
LEMMA StoreSame ==
  ASSUME OpenStep \/ ReleaseWriterLock \/ BeginClose \/ ShowState \/ OperatorRemovesLock
         \/ ClockMoves \/ UNCHANGED storeVars
  PROVE  Same
<1>1. UNCHANGED <<queue, job, answers>>
  <2>1. CASE OpenStep
    BY <2>1 DEF OpenStep, AcquireWriterLock, ReadMarker, PrepareFiles, Replay, RefuseToOpen,
                OpenFails, WriteHead, StampMarker, Opened, Opening, GoOn, serving
  <2>2. CASE ReleaseWriterLock \/ BeginClose \/ ShowState \/ OperatorRemovesLock \/ ClockMoves
             \/ UNCHANGED storeVars
    BY <2>2 DEF ReleaseWriterLock, BeginClose, ShowState, OperatorRemovesLock, ClockMoves,
                storeVars, serving
  <2>. QED  BY <2>1, <2>2
<1>. QED  BY <1>1 DEF Same

LEMMA DesksKept ==
  ASSUME "both" \notin Weather, ServiceInv, PostsOnce, OneAnswerEach, FirstPosts,
         callers = "desks", [MatcherServiceNext]_serviceVars
  PROVE  PostsOnce' /\ OneAnswerEach' /\ FirstPosts'
<1>1. CASE MutateStep /\ UNCHANGED <<desk, calls>>
  BY <1>1, MutateKeeps
<1>2. CASE /\ OpenStep \/ Outside \/ ReleaseWriterLock \/ BeginClose \/ UNCHANGED storeVars
           /\ UNCHANGED <<desk, calls>>
  <2>1. \A t \in Ids : InLog(t)' => InLog(t)
    BY <1>2, TakenStays DEF storeVars, ServiceInv
  <2>2. CASE WriteFails
    <3>1. Ends
      BY <2>2 DEF WriteFails, Answer, Ends
    <3>. QED  BY <1>2, <2>1, <3>1, EndsKeeps
  <2>3. CASE ~WriteFails
    <3>1. Same
      BY <1>2, <2>3, StoreSame DEF Outside
    <3>. QED  BY <1>2, <2>1, <3>1, SameKeeps
  <2>. QED  BY <2>2, <2>3
<1>3. CASE Crash
  <2>1. \A t \in Ids : InLog(t)' => InLog(t)
    BY <1>3, TakenStays DEF Crash, ServiceInv
  <2>. QED  BY <1>3, <2>1, CrashKeeps
<1>4. CASE ServerStep
  BY <1>4, ServerKeeps
<1>5. CASE DeskStep
  BY <1>5, DeskKeeps
<1>. QED
  BY <1>1, <1>2, <1>3, <1>4, <1>5
  DEF MatcherServiceNext, StoreWorks, StopServer, AnyCall, serviceVars

(* Where any caller may call, no browser does.                             *)
LEMMA AnyKept ==
  ASSUME callers = "any", calls = {}, \A t \in Ids : desk[t].phase = "idle",
         [MatcherServiceNext]_serviceVars
  PROVE  calls' = {} /\ \A t \in Ids : desk'[t].phase = "idle"
<1>1. ~ServerStep
  BY DEF ServerStep
<1>2. ~DeskStep
  BY DEF DeskStep, ReviewOrder, ReviewControl, Review, ConfirmOrder, ConfirmControl, Decline,
         SignOrder, SignControl, RetryOrder, RetryControl, Unanswered, GiveUp
<1>. QED  BY <1>1, <1>2 DEF MatcherServiceNext, StopServer, Crash, AnyCall, serviceVars

LEMMA AnswerKept ==
  ASSUME "both" \notin Weather, AnswerInv, ServiceInv', [MatcherServiceNext]_serviceVars
  PROVE  AnswerInv'
<1>1. callers' = callers
  BY CallersStay
<1>2. AnswersTold' /\ ConfirmedTold'
  BY AnswersToldKept, ConfirmedToldKept DEF AnswerInv, ServiceInv
<1>3. DesksSound'
  BY <1>1, DesksKept, AnyKept DEF AnswerInv, DesksSound
<1>. QED  BY <1>1, <1>2, <1>3 DEF AnswerInv

LEMMA AnswerInit == MatcherServiceInit => AnswerInv
<1>. SUFFICES ASSUME MatcherServiceInit PROVE AnswerInv
  OBVIOUS
<1>1. ServiceInv
  BY ServiceInit
<1>2. callers \in {"desks", "any"}
  BY MatcherServiceConstants DEF MatcherServiceInit
<1>3. /\ calls = {} /\ answers = {} /\ queue = <<>> /\ job = None
      /\ \A t \in Ids : desk[t].phase = "idle" /\ desk[t].posts = 0
  BY DEF MatcherServiceInit, MatcherStoreInit, Blank
<1>4. AnswersTold /\ ConfirmedTold
  BY <1>3 DEF AnswersTold, ConfirmedTold
<1>5. PostsOnce /\ OneAnswerEach
  BY <1>3 DEF PostsOnce, OneAnswerEach
<1>6. ASSUME callers = "desks", NEW t PROVE ~InLog(t)
  <2>1. disk.journal = None
    BY <1>6 DEF MatcherServiceInit, NewDirectory
  <2>2. UserLog(None) = <<>>
    BY DEF UserLog
  <2>. QED  BY <2>1, <2>2 DEF InLog, Prior, ToSet
<1>7. callers = "desks" => FirstPosts
  BY <1>3, <1>6 DEF FirstPosts
<1>. QED  BY <1>1, <1>2, <1>3, <1>4, <1>5, <1>7 DEF AnswerInv, DesksSound

(* What the invariant says to the user.                                    *)
LEMMA AnswersAreSo == AnswerInv => AnswersStand
<1>. SUFFICES ASSUME AnswerInv PROVE AnswersStand
  OBVIOUS
<1>1. ConfirmedStands
  <2>. SUFFICES ASSUME NEW t \in Ids, desk[t].phase = "confirmed"
                PROVE  \E r \in ToSet(UserLog(disk.journal)) : r.id = t /\ r.body = Wants[t]
    BY DEF ConfirmedStands
  <2>1. PICK q \in told : q.record.id = t /\ q.record.body = Wants[t]
    BY DEF AnswerInv, ConfirmedTold
  <2>2. Keeps(disk, shown, told)
    BY DEF AnswerInv, ServiceInv, StoreInv, FilesSound, Holds
  <2>3. /\ disk.journal \in Seq(Records)
        /\ q.sequence \in DOMAIN disk.journal /\ disk.journal[q.sequence] = q.record
    BY <2>1, <2>2 DEF Keeps, AnswerInv, ServiceInv, StoreInv, StoreTypes, Directory
  <2>4. q.record \in ToSet(UserLog(disk.journal))
    BY <2>1, <2>3, UserLogHolds
  <2>. QED  BY <2>1, <2>4
<1>2. FirstRefusalFinal
  <2>. SUFFICES ASSUME NEW t \in Ids, desk[t].phase = "rejected", desk[t].posts = 1
                PROVE  /\ Prior(UserLog(disk.journal), t) = {}
                       /\ \A q \in ToSet(queue) : q.command.id # t
    BY DEF FirstRefusalFinal
  <2>1. callers = "desks" /\ OneAnswerEach /\ FirstPosts
    BY DEF AnswerInv, DesksSound
  <2>2. ~InLog(t) /\ \A c \in calls : c.task # t
    BY <2>1 DEF FirstPosts, NotYet
  <2>3. \A i \in DOMAIN queue : queue[i].command.id # t
    BY <2>1, <2>2 DEF OneAnswerEach, Waits
  <2>. QED  BY <2>2, <2>3 DEF InLog, ToSet
<1>. QED  BY <1>1, <1>2 DEF AnswersStand

(* What the browser tells of an answer is so: an order it calls confirmed  *)
(* is in the journal for good, and one refused at its first post was not   *)
(* taken and never will be, whatever crashed, timed out or was retried     *)
(* (matcher-order-workflow.ts, server.ts errorStatus).                     *)
THEOREM AnswersAlwaysStand ==
  ASSUME "both" \notin Weather
  PROVE  MatcherServiceSafety => []AnswersStand
<1>1. AnswerInv /\ ServiceInv' /\ [MatcherServiceNext]_serviceVars => AnswerInv'
  BY AnswerKept
<1>. QED
  BY <1>1, AnswerInit, AnswersAreSo, ServiceInductive, PTL DEF MatcherServiceSafety

-----------------------------------------------------------------------------
(* Public feeds. *)

Recordings == [kind : {"accept-quote", "cancel-quote", "accept-order"},
               side : {"buy", "sell", None}, at : Nat]
RestingOrders == [sequence : Nat, side : {"buy", "sell"}, price : Nat, remaining : Int,
                  expiry : Nat]
RestingQuotes == [sequence : Nat, side : {"buy", "sell"}, price : Nat, remaining : Int,
                  expiry : Nat, cancelled : BOOLEAN]
RouteFills == [price : Nat, size : Int, counterparty : Nat]
Ended == [sequence : Nat, route : {None} \cup Seq(RouteFills)]

FeedTypes ==
  /\ feedTime \in Nat /\ records \in Seq(Recordings)
  /\ IsFiniteSet(openOrders) /\ openOrders \subseteq RestingOrders
  /\ IsFiniteSet(solverQuotes) /\ solverQuotes \subseteq RestingQuotes
  /\ executions \in Seq(Ended)

\* What carries a number was recorded under it, and no number is used twice.
FeedNumbers ==
  /\ \A q \in solverQuotes : q.sequence \in 1..Len(records)
  /\ \A p, q \in solverQuotes : p.sequence = q.sequence => p = q
  /\ \A i \in 1..Len(executions) : executions[i].sequence \in 1..Len(records)
  /\ \A i, j \in 1..Len(executions) : i < j => executions[i].sequence < executions[j].sequence
  /\ \A i \in 1..Len(executions) : executions[i].route # None =>
       executions[i].route \in Seq(RouteFills) /\ Len(executions[i].route) <= 2

\* The reader of the tape has the first executions, and its cursor is the last one's.
TapeSound ==
  /\ tapeReader.got \in Seq(Ended) /\ DOMAIN tapeReader = {"after", "got"}
  /\ Len(tapeReader.got) <= Len(executions)
  /\ \A i \in 1..Len(tapeReader.got) : tapeReader.got[i] = executions[i]
  /\ tapeReader.after = IF Len(tapeReader.got) = 0 THEN 0
                        ELSE executions[Len(tapeReader.got)].sequence

Standing == {q.sequence : q \in LiveQuotes}

\* The reader of the quotes has all of the first that stand, up to its cursor.
WalkSound ==
  /\ DOMAIN quoteReader = {"after", "got", "from", "done"}
  /\ quoteReader.after \in Nat /\ quoteReader.from \subseteq 1..Len(records)
  /\ \A n \in Standing : n \in quoteReader.from /\ (quoteReader.done \/ n <= quoteReader.after) =>
       n \in quoteReader.got

TickerSound ==
  /\ ticker.at \in Nat /\ ticker.at <= feedTime
  /\ ticker.sequence \in Nat /\ ticker.sequence <= Len(records)
  /\ ticker.at = feedTime /\ ticker.sequence = Len(records) /\ ~ticker.truncated =>
       ticker.volume = DayVolume

FeedInv ==
  /\ FeedTypes /\ FeedNumbers /\ TapeSound
  /\ quoteReader # None => WalkSound
  /\ ticker # None => TickerSound

\* Nothing was recorded at first, and nothing read.
LEMMA FeedStart == ASSUME FeedInit PROVE FeedInv
<1>1. /\ records = <<>> /\ executions = <<>> /\ openOrders = {} /\ solverQuotes = {}
      /\ feedTime = 0 /\ quoteReader = None /\ ticker = None
      /\ tapeReader = [after |-> 0, got |-> <<>>]
  BY DEF FeedInit
<1>2. FeedTypes
  BY <1>1, FS_EmptySet DEF FeedTypes
<1>3. FeedNumbers /\ TapeSound
  BY <1>1 DEF FeedNumbers, TapeSound
<1>. QED  BY <1>1, <1>2, <1>3 DEF FeedInv

-----------------------------------------------------------------------------
\* A set of one is listed as a sequence of one.
LEMMA ListOfOne == ASSUME NEW a PROVE SetToSeq({a}) = <<a>>
<1>1. Cardinality({a}) = 1
  BY FS_Singleton
<1>2. \E f \in [1..1 -> {a}] : IsInjective(f)
  <2>1. [i \in 1..1 |-> a] \in [1..1 -> {a}] /\ IsInjective([i \in 1..1 |-> a])
    BY DEF IsInjective
  <2>. QED  BY <2>1
<1>3. SetToSeq({a}) \in [1..1 -> {a}]
  BY <1>1, <1>2 DEF SetToSeq
<1>. QED  BY <1>3

LEMMA ListOfNone == SetToSeq({}) = <<>>
<1>1. Cardinality({}) = 0
  BY FS_EmptySet
<1>2. \E f \in [1..0 -> {}] : IsInjective(f)
  <2>1. [i \in 1..0 |-> i] \in [1..0 -> {}] /\ IsInjective([i \in 1..0 |-> i])
    BY DEF IsInjective
  <2>. QED  BY <2>1
<1>3. SetToSeq({}) \in [1..0 -> {}]
  BY <1>1, <1>2 DEF SetToSeq
<1>. QED  BY <1>3

\* A set of at most one member is empty or a singleton.
LEMMA AtMostOne ==
  ASSUME NEW S, IsFiniteSet(S), Cardinality(S) <= 1
  PROVE  S = {} \/ \E x \in S : S = {x}
<1>1. Cardinality(S) \in Nat
  BY FS_CardinalityType
<1>2. Cardinality(S) = 0 \/ Cardinality(S) = 1
  BY <1>1
<1>3. CASE Cardinality(S) = 0
  BY <1>3, FS_EmptySet
<1>4. CASE Cardinality(S) = 1
  BY <1>4, FS_Singleton
<1>. QED  BY <1>2, <1>3, <1>4

\* Taking from some of the quotes leaves finitely many.
LEMMA TakenIsFinite ==
  ASSUME NEW S, IsFiniteSet(S), NEW T \in SUBSET S, T = {} \/ \E x \in T : T = {x}, NEW n
  PROVE  IsFiniteSet(Taken(S, T, n))
<1>1. IsFiniteSet(S \ T)
  BY FS_Subset
<1>2. CASE T = {}
  BY <1>1, <1>2 DEF Taken
<1>3. CASE \E x \in T : T = {x}
  <2>1. PICK x \in T : T = {x}
    BY <1>3
  <2>2. Taken(S, T, n) = (S \ T) \cup {[x EXCEPT !.remaining = @ - n]}
    BY <2>1 DEF Taken
  <2>. QED  BY <1>1, <2>2, FS_AddElement
<1>. QED  BY <1>2, <1>3

\* What the matcher may write: an accepted or cancelled quote, an accepted order.
LEMMA JournalGrows ==
  ASSUME FeedTypes, NEW kind \in {"accept-quote", "cancel-quote", "accept-order"},
         NEW side \in {"buy", "sell", None}, Recorded(kind, side)
  PROVE  /\ records' \in Seq(Recordings) /\ Len(records') = Len(records) + 1
         /\ Len(records) \in Nat
  BY DEF Recorded, FeedTypes, Recordings

\* The quotes that stand after a step of the matcher stood before it, or are new.
QuotesFollow ==
  /\ IsFiniteSet(solverQuotes') /\ solverQuotes' \subseteq RestingQuotes
  /\ \A q \in solverQuotes' : q.sequence \in 1..Len(records')
  /\ \A p, q \in solverQuotes' : p.sequence = q.sequence => p = q
  /\ \A n \in Standing' : n \in Standing \/ n = Len(records) + 1

LEMMA QuoteAccepted ==
  ASSUME FeedTypes, FeedNumbers, UNCHANGED feedTime,
         NEW quote \in [side : {"buy", "sell"}, price : Nat, size : Nat, expiry : Nat],
         AcceptQuote(quote)
  PROVE  QuotesFollow /\ Len(records') = Len(records) + 1 /\ records' \in Seq(Recordings)
<1>1. records' \in Seq(Recordings) /\ Len(records') = Len(records) + 1 /\ Len(records) \in Nat
  <2>1. Recorded("accept-quote", quote.side)
    BY DEF AcceptQuote
  <2>. QED  BY <2>1, JournalGrows
<1>2. PICK new : new = EnteredQuote(quote)
  OBVIOUS
<1>3. new \in RestingQuotes /\ new.sequence = Len(records) + 1
  BY <1>1, <1>2 DEF EnteredQuote, RestingQuotes
<1>4. solverQuotes' = solverQuotes \cup {new}
  BY <1>2 DEF AcceptQuote
<1>5. IsFiniteSet(solverQuotes') /\ solverQuotes' \subseteq RestingQuotes
  BY <1>3, <1>4, FS_AddElement DEF FeedTypes
<1>6. /\ \A q \in solverQuotes' : q.sequence \in 1..Len(records')
      /\ \A p, q \in solverQuotes' : p.sequence = q.sequence => p = q
  BY <1>1, <1>3, <1>4 DEF FeedNumbers
<1>7. \A n \in Standing' : n \in Standing \/ n = Len(records) + 1
  BY <1>3, <1>4 DEF Standing, LiveQuotes, Unexpired
<1>. QED  BY <1>1, <1>5, <1>6, <1>7 DEF QuotesFollow

LEMMA QuoteCancelled ==
  ASSUME FeedTypes, FeedNumbers, UNCHANGED feedTime, NEW q \in LiveQuotes, CancelQuote(q)
  PROVE  QuotesFollow /\ Len(records') = Len(records) + 1 /\ records' \in Seq(Recordings)
<1>1. records' \in Seq(Recordings) /\ Len(records') = Len(records) + 1 /\ Len(records) \in Nat
  <2>1. Recorded("cancel-quote", None)
    BY DEF CancelQuote
  <2>. QED  BY <2>1, JournalGrows
<1>2. PICK new : new = [q EXCEPT !.cancelled = TRUE]
  OBVIOUS
<1>3. q \in solverQuotes /\ q \in RestingQuotes
  BY DEF LiveQuotes, FeedTypes
<1>4. new \in RestingQuotes /\ new.sequence = q.sequence /\ new.cancelled
  BY <1>2, <1>3 DEF RestingQuotes
<1>5. solverQuotes' = (solverQuotes \ {q}) \cup {new}
  BY <1>2 DEF CancelQuote
<1>6. IsFiniteSet(solverQuotes') /\ solverQuotes' \subseteq RestingQuotes
  <2>1. IsFiniteSet(solverQuotes \ {q})
    BY FS_RemoveElement DEF FeedTypes
  <2>. QED  BY <1>4, <1>5, <2>1, FS_AddElement DEF FeedTypes
<1>7. /\ \A p \in solverQuotes' : p.sequence \in 1..Len(records')
      /\ \A p, r \in solverQuotes' : p.sequence = r.sequence => p = r
  BY <1>1, <1>3, <1>4, <1>5 DEF FeedNumbers
<1>8. \A n \in Standing' : n \in Standing \/ n = Len(records) + 1
  BY <1>4, <1>5 DEF Standing, LiveQuotes, Unexpired
<1>. QED  BY <1>1, <1>6, <1>7, <1>8 DEF QuotesFollow

\* An order that took from some of the quotes leaves the others, and those with the rest.
LEMMA QuotesTaken ==
  ASSUME FeedTypes, FeedNumbers, UNCHANGED feedTime, NEW left \in Int,
         NEW quotes \in SUBSET LiveQuotes, quotes = {} \/ \E x \in quotes : quotes = {x},
         Len(records') = Len(records) + 1,
         solverQuotes' = {q \in Taken(solverQuotes, quotes, left) : q.remaining > 0}
  PROVE  QuotesFollow
<1>1. quotes \in SUBSET solverQuotes /\ solverQuotes \subseteq RestingQuotes
      /\ IsFiniteSet(solverQuotes) /\ Len(records) \in Nat
  BY DEF LiveQuotes, FeedTypes
<1>2. PICK after : after = Taken(solverQuotes, quotes, left)
  OBVIOUS
<1>3. IsFiniteSet(after)
  BY <1>1, <1>2, TakenIsFinite
<1>4. \A q \in after : /\ q \in RestingQuotes
                       /\ \E p \in solverQuotes : /\ q.sequence = p.sequence
                                                  /\ q = p \/ (p \in quotes /\ q = [p EXCEPT !.remaining = @ - left])
  <2>. SUFFICES ASSUME NEW q \in after
                PROVE  /\ q \in RestingQuotes
                       /\ \E p \in solverQuotes : /\ q.sequence = p.sequence
                                                  /\ q = p \/ (p \in quotes /\ q = [p EXCEPT !.remaining = @ - left])
    OBVIOUS
  <2>1. q \in solverQuotes \/ \E p \in quotes : q = [p EXCEPT !.remaining = @ - left]
    BY <1>2 DEF Taken
  <2>2. CASE q \in solverQuotes
    BY <1>1, <2>2
  <2>3. CASE \E p \in quotes : q = [p EXCEPT !.remaining = @ - left]
    <3>1. PICK p \in quotes : q = [p EXCEPT !.remaining = @ - left]
      BY <2>3
    <3>2. p \in RestingQuotes /\ p \in solverQuotes
      BY <1>1
    <3>3. q \in RestingQuotes /\ q.sequence = p.sequence
      BY <3>1, <3>2 DEF RestingQuotes
    <3>. QED  BY <3>1, <3>2, <3>3
  <2>. QED  BY <2>1, <2>2, <2>3
<1>5. \A p, q \in after : p.sequence = q.sequence => p = q
  <2>. SUFFICES ASSUME NEW p \in after, NEW q \in after, p.sequence = q.sequence PROVE p = q
    OBVIOUS
  <2>1. PICK a \in solverQuotes : /\ p.sequence = a.sequence
                                  /\ p = a \/ (a \in quotes /\ p = [a EXCEPT !.remaining = @ - left])
    BY <1>4
  <2>2. PICK b \in solverQuotes : /\ q.sequence = b.sequence
                                  /\ q = b \/ (b \in quotes /\ q = [b EXCEPT !.remaining = @ - left])
    BY <1>4
  <2>3. a = b
    BY <2>1, <2>2 DEF FeedNumbers
  <2>4. ASSUME NEW x \in after, x = a, a \in quotes PROVE x = [a EXCEPT !.remaining = @ - left]
    <3>1. PICK y \in quotes : x = [y EXCEPT !.remaining = @ - left]
      BY <1>2, <2>4 DEF Taken
    <3>2. x.sequence = y.sequence
      BY <1>1, <3>1 DEF RestingQuotes
    <3>3. y = a
      BY <1>1, <2>4, <3>2 DEF FeedNumbers
    <3>. QED  BY <3>1, <3>3
  <2>. QED  BY <2>1, <2>2, <2>3, <2>4
<1>6. solverQuotes' = {q \in after : q.remaining > 0}
  BY <1>2
<1>7. IsFiniteSet(solverQuotes') /\ solverQuotes' \subseteq RestingQuotes
  <2>1. solverQuotes' \in SUBSET after
    BY <1>6
  <2>. QED  BY <1>3, <1>4, <2>1, FS_Subset
<1>8. /\ \A q \in solverQuotes' : q.sequence \in 1..Len(records')
      /\ \A p, q \in solverQuotes' : p.sequence = q.sequence => p = q
  BY <1>1, <1>4, <1>5, <1>6 DEF FeedNumbers
<1>9. \A n \in Standing' : n \in Standing
  <2>. SUFFICES ASSUME NEW q \in solverQuotes', (Unexpired(q))', ~q.cancelled
                PROVE  q.sequence \in Standing
    BY DEF Standing, LiveQuotes
  <2>1. PICK p \in solverQuotes : /\ q.sequence = p.sequence
                                  /\ q = p \/ (p \in quotes /\ q = [p EXCEPT !.remaining = @ - left])
    BY <1>4, <1>6
  <2>2. CASE p \in quotes
    BY <2>1, <2>2 DEF Standing
  <2>3. CASE q = p
    BY <2>3 DEF Standing, LiveQuotes, Unexpired
  <2>. QED  BY <2>1, <2>2, <2>3
<1>. QED  BY <1>7, <1>8, <1>9 DEF QuotesFollow

\* What an order leaves: its route of at most two fills and the book after it.
OrderFollows ==
  /\ IsFiniteSet(openOrders') /\ openOrders' \subseteq RestingOrders
  /\ \E e \in Ended : /\ executions' = Append(executions, e) /\ e.sequence = Len(records) + 1
                      /\ e.route # None => e.route \in Seq(RouteFills) /\ Len(e.route) <= 2

LEMMA OrderAccepted ==
  ASSUME FeedTypes, FeedNumbers, UNCHANGED feedTime,
         NEW order \in [side : {"buy", "sell"}, price : Nat, size : Nat, expiry : Nat],
         AcceptOrder(order)
  PROVE  /\ QuotesFollow /\ OrderFollows
         /\ Len(records') = Len(records) + 1 /\ records' \in Seq(Recordings)
<1>1. records' \in Seq(Recordings) /\ Len(records') = Len(records) + 1 /\ Len(records) \in Nat
  <2>1. Recorded("accept-order", order.side)
    BY DEF AcceptOrder
  <2>. QED  BY <2>1, JournalGrows
<1>2. PICK makers \in SUBSET openOrders, quotes \in SUBSET LiveQuotes :
        /\ Cardinality(makers) <= 1 /\ Cardinality(quotes) <= 1
        /\ LET left == order.size - Cardinality(makers)
               filled == SetToSeq({Fill(x, 1) : x \in makers})
                           \o SetToSeq({Fill(q, left) : q \in quotes})
               rest == IF quotes = {} /\ left > 0
                       THEN {[Entered(order) EXCEPT !.remaining = left]} ELSE {}
           IN /\ \A q \in quotes : left \in 1..q.remaining
              /\ openOrders' = {x \in Taken(openOrders, makers, 1) \cup rest : x.remaining > 0}
              /\ solverQuotes' = {q \in Taken(solverQuotes, quotes, left) : q.remaining > 0}
              /\ executions' = Append(executions,
                   [sequence |-> Len(records) + 1,
                    route |-> IF makers \cup quotes = {} THEN None ELSE filled])
  BY DEF AcceptOrder
<1>3. /\ IsFiniteSet(openOrders) /\ openOrders \subseteq RestingOrders
      /\ IsFiniteSet(solverQuotes) /\ solverQuotes \subseteq RestingQuotes
      /\ quotes \in SUBSET solverQuotes
  BY DEF FeedTypes, LiveQuotes
<1>4. /\ makers = {} \/ \E x \in makers : makers = {x}
      /\ quotes = {} \/ \E x \in quotes : quotes = {x}
  <2>1. IsFiniteSet(makers) /\ IsFiniteSet(quotes)
    BY <1>3, FS_Subset
  <2>. QED  BY <1>2, <2>1, AtMostOne
<1>5. PICK left \in Int : left = order.size - Cardinality(makers)
  <2>1. IsFiniteSet(makers)
    BY <1>3, FS_Subset
  <2>2. Cardinality(makers) \in Nat
    BY <2>1, FS_CardinalityType
  <2>. QED  BY <2>2
<1>6. QuotesFollow
  <2>1. solverQuotes' = {q \in Taken(solverQuotes, quotes, left) : q.remaining > 0}
    BY <1>2, <1>5
  <2>. QED  BY <1>1, <1>4, <2>1, QuotesTaken
<1>7. IsFiniteSet(openOrders') /\ openOrders' \subseteq RestingOrders
  <2>1. PICK rest : rest = IF quotes = {} /\ left > 0
                           THEN {[Entered(order) EXCEPT !.remaining = left]} ELSE {}
    OBVIOUS
  <2>2. rest \subseteq RestingOrders
    BY <1>1, <2>1 DEF Entered, RestingOrders
  <2>3. IsFiniteSet(rest)
    <3>1. rest = {} \/ \E x \in rest : rest = {x}
      BY <2>1
    <3>2. IsFiniteSet({}) /\ \A x : IsFiniteSet({x})
      BY FS_EmptySet, FS_Singleton
    <3>. QED  BY <3>1, <3>2
  <2>4. PICK after : after = Taken(openOrders, makers, 1)
    OBVIOUS
  <2>5. IsFiniteSet(after)
    BY <1>3, <1>4, <2>4, TakenIsFinite
  <2>6. after \subseteq RestingOrders
    <3>. SUFFICES ASSUME NEW q \in after PROVE q \in RestingOrders
      OBVIOUS
    <3>1. q \in openOrders \/ \E p \in makers : q = [p EXCEPT !.remaining = @ - 1]
      BY <2>4 DEF Taken
    <3>2. CASE \E p \in makers : q = [p EXCEPT !.remaining = @ - 1]
      <4>1. PICK p \in makers : q = [p EXCEPT !.remaining = @ - 1]
        BY <3>2
      <4>2. p \in RestingOrders
        BY <1>3
      <4>. QED  BY <4>1, <4>2 DEF RestingOrders
    <3>. QED  BY <1>3, <3>1, <3>2
  <2>7. openOrders' \in SUBSET (after \cup rest)
    BY <1>2, <1>5, <2>1, <2>4
  <2>8. IsFiniteSet(after \cup rest)
    BY <2>3, <2>5, FS_Union
  <2>9. IsFiniteSet(openOrders')
    BY <2>7, <2>8, FS_Subset
  <2>. QED  BY <2>2, <2>6, <2>7, <2>9
<1>8. PICK bought : bought = SetToSeq({Fill(x, 1) : x \in makers})
  OBVIOUS
<1>9. PICK quoted : quoted = SetToSeq({Fill(q, left) : q \in quotes})
  OBVIOUS
<1>10. bought \in Seq(RouteFills) /\ Len(bought) <= 1
  <2>1. CASE makers = {}
    <3>1. {Fill(x, 1) : x \in makers} = {}
      BY <2>1
    <3>2. bought = <<>>
      BY <1>8, <3>1, ListOfNone
    <3>. QED  BY <3>2
  <2>2. CASE \E x \in makers : makers = {x}
    <3>1. PICK x \in makers : makers = {x}
      BY <2>2
    <3>2. {Fill(y, 1) : y \in makers} = {Fill(x, 1)}
      BY <3>1
    <3>3. bought = <<Fill(x, 1)>>
      BY <1>8, <3>2, ListOfOne
    <3>4. x \in RestingOrders
      BY <1>3
    <3>5. Fill(x, 1) \in RouteFills
      BY <3>4 DEF Fill, RouteFills, RestingOrders
    <3>. QED  BY <3>3, <3>5
  <2>. QED  BY <1>4, <2>1, <2>2
<1>11. quoted \in Seq(RouteFills) /\ Len(quoted) <= 1
  <2>1. CASE quotes = {}
    <3>1. {Fill(x, left) : x \in quotes} = {}
      BY <2>1
    <3>2. quoted = <<>>
      BY <1>9, <3>1, ListOfNone
    <3>. QED  BY <3>2
  <2>2. CASE \E x \in quotes : quotes = {x}
    <3>1. PICK x \in quotes : quotes = {x}
      BY <2>2
    <3>2. {Fill(y, left) : y \in quotes} = {Fill(x, left)}
      BY <3>1
    <3>3. quoted = <<Fill(x, left)>>
      BY <1>9, <3>2, ListOfOne
    <3>4. x \in RestingQuotes
      BY <1>3
    <3>5. Fill(x, left) \in RouteFills
      BY <3>4 DEF Fill, RouteFills, RestingQuotes
    <3>. QED  BY <3>3, <3>5
  <2>. QED  BY <1>4, <2>1, <2>2
<1>12. PICK filled : filled = bought \o quoted
  OBVIOUS
<1>13. filled \in Seq(RouteFills) /\ Len(filled) <= 2
  BY <1>10, <1>11, <1>12
<1>14. PICK e : e = [sequence |-> Len(records) + 1,
                     route |-> IF makers \cup quotes = {} THEN None ELSE filled]
  OBVIOUS
<1>15. e \in Ended /\ e.sequence = Len(records) + 1
       /\ (e.route # None => e.route \in Seq(RouteFills) /\ Len(e.route) <= 2)
  BY <1>1, <1>13, <1>14 DEF Ended
<1>16. executions' = Append(executions, e)
  BY <1>2, <1>5, <1>8, <1>9, <1>12, <1>14
<1>. QED  BY <1>1, <1>6, <1>7, <1>15, <1>16 DEF OrderFollows

\* A move of the matcher records one thing, and leaves the types and the numbers right.
LEMMA MoveFollows ==
  ASSUME FeedsAssumption, FeedTypes, FeedNumbers, MatcherMoves
  PROVE  /\ FeedTypes' /\ FeedNumbers' /\ QuotesFollow
         /\ Len(records') = Len(records) + 1
         /\ \/ UNCHANGED executions
            \/ \E e \in Ended : executions' = Append(executions, e)
<1>1. /\ feedTime' = feedTime /\ feedTime \in Nat /\ Len(records) \in Nat
      /\ executions \in Seq(Ended)
  BY DEF MatcherMoves, FeedTypes
<1>2. /\ QuotesFollow /\ Len(records') = Len(records) + 1 /\ records' \in Seq(Recordings)
      /\ OrderFollows \/ UNCHANGED <<openOrders, executions>>
  <2>1. CASE \E quote \in FeedQuotes : AcceptQuote(quote)
    <3>1. PICK quote \in FeedQuotes : AcceptQuote(quote)
      BY <2>1
    <3>2. quote \in [side : {"buy", "sell"}, price : Nat, size : Nat, expiry : Nat]
      BY DEF FeedsAssumption
    <3>3. UNCHANGED <<openOrders, executions>>
      BY <3>1 DEF AcceptQuote
    <3>. QED  BY <1>1, <3>1, <3>2, <3>3, QuoteAccepted
  <2>2. CASE \E q \in LiveQuotes : CancelQuote(q)
    <3>1. PICK q \in LiveQuotes : CancelQuote(q)
      BY <2>2
    <3>2. UNCHANGED <<openOrders, executions>>
      BY <3>1 DEF CancelQuote
    <3>. QED  BY <1>1, <3>1, <3>2, QuoteCancelled
  <2>3. CASE \E order \in FeedOrders : AcceptOrder(order)
    <3>1. PICK order \in FeedOrders : AcceptOrder(order)
      BY <2>3
    <3>2. order \in [side : {"buy", "sell"}, price : Nat, size : Nat, expiry : Nat]
      BY DEF FeedsAssumption
    <3>. QED  BY <1>1, <3>1, <3>2, OrderAccepted
  <2>. QED  BY <2>1, <2>2, <2>3 DEF MatcherMoves
<1>3. /\ \A q \in solverQuotes' : q.sequence \in 1..Len(records')
      /\ \A p, q \in solverQuotes' : p.sequence = q.sequence => p = q
  BY <1>2 DEF QuotesFollow
<1>4. CASE UNCHANGED <<openOrders, executions>>
  <2>1. FeedTypes'
    BY <1>1, <1>2, <1>4 DEF FeedTypes, QuotesFollow
  <2>2. FeedNumbers'
    BY <1>1, <1>2, <1>3, <1>4 DEF FeedNumbers
  <2>. QED  BY <1>2, <1>4, <2>1, <2>2
<1>5. CASE OrderFollows
  <2>1. PICK e \in Ended : /\ executions' = Append(executions, e) /\ e.sequence = Len(records) + 1
                           /\ e.route # None => e.route \in Seq(RouteFills) /\ Len(e.route) <= 2
    BY <1>5 DEF OrderFollows
  <2>2. /\ executions' \in Seq(Ended) /\ Len(executions') = Len(executions) + 1
        /\ \A i \in 1..Len(executions) : executions'[i] = executions[i]
        /\ executions'[Len(executions) + 1] = e /\ Len(executions) \in Nat
    BY <1>1, <2>1
  <2>3. FeedTypes'
    BY <1>1, <1>2, <1>5, <2>2 DEF FeedTypes, QuotesFollow, OrderFollows
  <2>4. \A i \in 1..Len(executions') : i \in 1..Len(executions) \/ i = Len(executions) + 1
    BY <2>2
  <2>5. \A i \in 1..Len(executions') : executions'[i].sequence \in 1..Len(records')
    BY <1>1, <1>2, <2>1, <2>2, <2>4 DEF FeedNumbers
  <2>6. \A i, j \in 1..Len(executions') : i < j => executions'[i].sequence < executions'[j].sequence
    <3>. SUFFICES ASSUME NEW i \in 1..Len(executions'), NEW j \in 1..Len(executions'), i < j
                  PROVE  executions'[i].sequence < executions'[j].sequence
      OBVIOUS
    <3>1. i \in 1..Len(executions)
      BY <2>2
    <3>2. executions[i].sequence \in 1..Len(records)
      BY <3>1 DEF FeedNumbers
    <3>. QED  BY <1>1, <2>1, <2>2, <2>4, <3>1, <3>2 DEF FeedNumbers
  <2>7. \A i \in 1..Len(executions') : executions'[i].route # None =>
          executions'[i].route \in Seq(RouteFills) /\ Len(executions'[i].route) <= 2
    BY <2>1, <2>2, <2>4 DEF FeedNumbers
  <2>8. FeedNumbers'
    BY <1>3, <2>5, <2>6, <2>7 DEF FeedNumbers
  <2>. QED  BY <1>2, <2>1, <2>3, <2>8
<1>. QED  BY <1>2, <1>4, <1>5

-----------------------------------------------------------------------------
\* A list of a set in order of its keys is the only one.
SortedBy(s, S, key) ==
  /\ s \in [1..Cardinality(S) -> S]
  /\ \A i, j \in 1..Cardinality(S) : i < j => key[s[i]] < key[s[j]]

LEMMA SortedByIsAll ==
  ASSUME NEW S, IsFiniteSet(S), NEW key \in [S -> Int], NEW s, SortedBy(s, S, key)
  PROVE  \A x \in S : \E i \in 1..Cardinality(S) : s[i] = x
<1>1. PICK n \in Nat : n = Cardinality(S)
  BY FS_CardinalityType
<1>2. s \in [1..n -> S] /\ \A i, j \in 1..n : i < j => key[s[i]] < key[s[j]]
  BY <1>1 DEF SortedBy
<1>3. /\ s \in Seq(S) /\ Len(s) = Cardinality(S)
      /\ \A x \in S : \E i \in DOMAIN s : s[i] = x
  BY <1>1, <1>2, OrderIsAll
<1>. QED  BY <1>1, <1>2, <1>3

LEMMA OrderIsOne ==
  ASSUME NEW S, IsFiniteSet(S), NEW key \in [S -> Int],
         NEW s, SortedBy(s, S, key), NEW t, SortedBy(t, S, key)
  PROVE  \A i \in 1..Cardinality(S) : s[i] = t[i]
<1>1. PICK n \in Nat : n = Cardinality(S)
  BY FS_CardinalityType
<1>2. /\ s \in [1..n -> S] /\ \A i, j \in 1..n : i < j => key[s[i]] < key[s[j]]
      /\ t \in [1..n -> S] /\ \A i, j \in 1..n : i < j => key[t[i]] < key[t[j]]
      /\ \A x \in S : key[x] \in Int
  BY <1>1 DEF SortedBy
<1>0. \A x \in S : (\E i \in 1..n : s[i] = x) /\ (\E i \in 1..n : t[i] = x)
  BY <1>1, SortedByIsAll
<1>3. SUFFICES ASSUME {i \in 1..n : s[i] # t[i]} # {} PROVE FALSE
  BY <1>1
<1>4. PICK i \in {i \in 1..n : s[i] # t[i]} : \A j \in {j \in 1..n : s[j] # t[j]} : i <= j
  <2>1. {j \in 1..n : s[j] # t[j]} \subseteq Nat
    BY <1>1
  <2>. QED  BY <1>3, <2>1, LeastNatural
<1>5. PICK j \in 1..n : s[j] = t[i]
  BY <1>0, <1>2, <1>4
<1>6. PICK k \in 1..n : t[k] = s[i]
  BY <1>0, <1>2, <1>4
<1>7. \A l \in 1..n : l < i => s[l] = t[l]
  BY <1>1, <1>4
<1>8. j > i /\ k > i
  <2>1. j < i => FALSE
    <3>. SUFFICES ASSUME j < i PROVE FALSE
      OBVIOUS
    <3>1. t[j] = t[i]
      BY <1>5, <1>7
    <3>2. key[t[j]] < key[t[i]] /\ key[t[i]] \in Int
      BY <1>2, <1>4
    <3>. QED  BY <3>1, <3>2
  <2>2. k < i => FALSE
    <3>. SUFFICES ASSUME k < i PROVE FALSE
      OBVIOUS
    <3>1. s[k] = s[i]
      BY <1>6, <1>7
    <3>2. key[s[k]] < key[s[i]] /\ key[s[i]] \in Int
      BY <1>2, <1>4
    <3>. QED  BY <3>1, <3>2
  <2>3. j # i /\ k # i
    BY <1>4, <1>5, <1>6
  <2>. QED  BY <1>1, <1>4, <2>1, <2>2, <2>3
<1>9. key[s[i]] < key[s[j]] /\ key[t[i]] < key[t[k]] /\ key[s[i]] \in Int /\ key[t[i]] \in Int
  BY <1>2, <1>4, <1>8
<1>. QED  BY <1>1, <1>5, <1>6, <1>9

\* What is listed by sequence, of things with different numbers, is all of them in order.
LEMMA ListedBySequence ==
  ASSUME NEW S, IsFiniteSet(S), \A x \in S : x.sequence \in Nat,
         \A x, y \in S : x.sequence = y.sequence => x = y
  PROVE  /\ Cardinality(S) \in Nat
         /\ BySequence(S) \in [1..Cardinality(S) -> S]
         /\ \A i, j \in 1..Cardinality(S) : i < j => BySequence(S)[i].sequence < BySequence(S)[j].sequence
         /\ BySequence(S) \in Seq(S) /\ Len(BySequence(S)) = Cardinality(S)
         /\ \A x \in S : \E i \in 1..Cardinality(S) : BySequence(S)[i] = x
<1>. DEFINE key == [x \in S |-> x.sequence]
<1>1. PICK n \in Nat : n = Cardinality(S)
  BY FS_CardinalityType
<1>2. key \in [S -> Int] /\ \A x, y \in S : key[x] = key[y] => x = y
  OBVIOUS
<1>3. \E s \in [1..n -> S] : \A i, j \in 1..n : i < j => key[s[i]] < key[s[j]]
  <2>. HIDE DEF key
  <2>. QED  BY <1>1, <1>2, OrderExists
<1>4. \E s \in [1..n -> S] : \A i, j \in 1..n : i < j => s[i].sequence < s[j].sequence
  <2>1. PICK s \in [1..n -> S] : \A i, j \in 1..n : i < j => key[s[i]] < key[s[j]]
    BY <1>3
  <2>2. \A i \in 1..n : key[s[i]] = s[i].sequence
    OBVIOUS
  <2>. HIDE DEF key
  <2>3. \A i, j \in 1..n : i < j => s[i].sequence < s[j].sequence
    BY <2>1, <2>2
  <2>. QED  BY <2>3
<1>5. PICK m : m = BySequence(S)
  OBVIOUS
<1>6. m \in [1..n -> S] /\ \A i, j \in 1..n : i < j => m[i].sequence < m[j].sequence
  BY <1>1, <1>4, <1>5 DEF BySequence
<1>7. \A i, j \in 1..n : i < j => key[m[i]] < key[m[j]]
  BY <1>6
<1>8. m \in Seq(S) /\ Len(m) = n /\ \A x \in S : \E i \in 1..n : m[i] = x
  <2>1. /\ m \in Seq(S) /\ Len(m) = Cardinality(S)
        /\ \A x \in S : \E i \in DOMAIN m : m[i] = x
    <3>. HIDE DEF key
    <3>. QED  BY <1>1, <1>2, <1>6, <1>7, OrderIsAll
  <2>. QED  BY <1>1, <1>6, <2>1
<1>. QED  BY <1>1, <1>5, <1>6, <1>8

\* A page has the first of what it was cut from, and its cursor is the last one's.
LEMMA PageIsCut ==
  ASSUME FeedsAssumption, NEW S, NEW m \in Seq(S), NEW after, NEW cut, cut = PageOf(m, after)
  PROVE  \E l \in Nat :
           /\ l <= Len(m) /\ (l = 0 => Len(m) = 0)
           /\ cut.items \in Seq(S) /\ Len(cut.items) = l
           /\ \A i \in 1..l : cut.items[i] = m[i]
           /\ cut.nextAfter = IF l = 0 THEN after ELSE m[l].sequence
           /\ ~cut.hasMore => l = Len(m)
<1>1. PICK n \in Nat : n = Len(m)
  OBVIOUS
<1>2. PICK l \in Nat : l = (IF n < FeedPage THEN n ELSE FeedPage)
  BY <1>1 DEF FeedsAssumption
<1>3. l <= n /\ (l = 0 => n = 0)
  BY <1>2 DEF FeedsAssumption
<1>4. PICK first : first = SubSeq(m, 1, l)
  OBVIOUS
<1>5. first \in Seq(S) /\ Len(first) = l /\ \A i \in 1..l : first[i] = m[i]
  <2>1. \A i \in 1..l : m[i] \in S
    BY <1>1, <1>3
  <2>2. l \in 0..n /\ n = Len(m)
    BY <1>1, <1>3
  <2>3. first \in Seq(S) /\ Len(first) = l
    BY <1>4, <2>1, <2>2
  <2>4. \A i \in 1..l : first[i] = m[i]
    BY <1>4, <2>1, <2>2
  <2>. QED  BY <2>3, <2>4
<1>6. FirstOf(m, FeedPage) = first
  BY <1>1, <1>2, <1>4 DEF FirstOf
<1>7. cut = [items |-> first, nextAfter |-> IF first = <<>> THEN after ELSE Last(first).sequence,
              hasMore |-> n > l]
  BY <1>1, <1>5, <1>6 DEF PageOf, NextAfter
<1>8. cut.items = first
  BY <1>7
<1>9. cut.nextAfter = IF l = 0 THEN after ELSE m[l].sequence
  <2>1. first = <<>> <=> l = 0
    BY <1>5
  <2>2. l # 0 => Last(first) = m[l]
    BY <1>5 DEF Last
  <2>. QED  BY <1>7, <2>1, <2>2
<1>10. ~cut.hasMore => l = n
  <2>1. cut.hasMore = (n > l)
    BY <1>7
  <2>2. n > l => cut.hasMore
    BY <2>1, Zenon
  <2>. QED  BY <1>3, <2>2
<1>. QED  BY <1>1, <1>3, <1>5, <1>8, <1>9, <1>10

\* Walking on keeps what the walk promises.
LEMMA WalkGoesOn ==
  ASSUME FeedsAssumption, FeedTypes, FeedNumbers, quoteReader # None, WalkSound, ReadQuotes
  PROVE  WalkSound'
<1>. DEFINE those == {q \in LiveQuotes : q.sequence > quoteReader.after}
<1>1. /\ those \in SUBSET solverQuotes /\ IsFiniteSet(solverQuotes)
      /\ solverQuotes \subseteq RestingQuotes
  BY DEF LiveQuotes, FeedTypes
<1>2. /\ IsFiniteSet(those) /\ \A x \in those : x.sequence \in Nat
      /\ \A x, y \in those : x.sequence = y.sequence => x = y
  <2>1. IsFiniteSet(those)
    <3>. HIDE DEF those
    <3>. QED  BY <1>1, FS_Subset
  <2>. QED  BY <1>1, <2>1 DEF RestingQuotes, FeedNumbers
<1>3. PICK m : m = BySequence(those)
  OBVIOUS
<1>4. PICK n \in Nat : n = Cardinality(those)
  BY <1>2, FS_CardinalityType
<1>5. /\ m \in [1..n -> those] /\ m \in Seq(those) /\ Len(m) = n
      /\ \A i, j \in 1..n : i < j => m[i].sequence < m[j].sequence
      /\ \A x \in those : \E i \in 1..n : m[i] = x
  <2>. HIDE DEF those
  <2>. QED  BY <1>2, <1>3, <1>4, ListedBySequence
<1>6. PICK cut : cut = QuotePage(quoteReader.after)
  OBVIOUS
<1>7. cut = PageOf(m, quoteReader.after)
  BY <1>3, <1>6 DEF QuotePage
<1>8. PICK l \in Nat :
        /\ l <= n /\ (l = 0 => n = 0)
        /\ cut.items \in Seq(those) /\ Len(cut.items) = l
        /\ \A i \in 1..l : cut.items[i] = m[i]
        /\ cut.nextAfter = IF l = 0 THEN quoteReader.after ELSE m[l].sequence
        /\ ~cut.hasMore => l = n
  <2>1. m \in Seq(those) /\ Len(m) = n
    BY <1>5
  <2>. HIDE DEF those
  <2>2. \E l \in Nat :
          /\ l <= Len(m) /\ (l = 0 => Len(m) = 0)
          /\ cut.items \in Seq(those) /\ Len(cut.items) = l
          /\ \A i \in 1..l : cut.items[i] = m[i]
          /\ cut.nextAfter = IF l = 0 THEN quoteReader.after ELSE m[l].sequence
          /\ ~cut.hasMore => l = Len(m)
    BY <1>7, <2>1, PageIsCut
  <2>. QED  BY <2>1, <2>2
<1>9. quoteReader' = [quoteReader EXCEPT
         !.after = cut.nextAfter, !.done = ~cut.hasMore,
         !.got = @ \cup {cut.items[i].sequence : i \in DOMAIN cut.items}]
  BY <1>6 DEF ReadQuotes
<1>10. UNCHANGED <<feedTime, records, solverQuotes>>
  BY DEF ReadQuotes, matcherVars
<1>11. /\ DOMAIN quoteReader' = {"after", "got", "from", "done"}
       /\ quoteReader'.after = cut.nextAfter /\ quoteReader'.from = quoteReader.from
       /\ quoteReader'.got = quoteReader.got \cup {cut.items[i].sequence : i \in DOMAIN cut.items}
  BY <1>9 DEF WalkSound
<1>12. quoteReader'.done => l = n
  <2>1. quoteReader'.done = ~cut.hasMore
    BY <1>9 DEF WalkSound
  <2>2. quoteReader'.done => ~cut.hasMore
    BY <2>1, Zenon
  <2>. QED  BY <1>8, <2>2
<1>13. DOMAIN cut.items = 1..l
  BY <1>8
<1>14. cut.nextAfter \in Nat
  BY <1>2, <1>5, <1>8 DEF WalkSound
<1>15. ASSUME NEW x \in Standing, x \in quoteReader.from, quoteReader'.done \/ x <= cut.nextAfter
       PROVE  x \in quoteReader'.got
  <2>1. PICK q \in LiveQuotes : q.sequence = x
    BY DEF Standing
  <2>2. q \in solverQuotes /\ x \in Nat /\ quoteReader.after \in Nat
    BY <1>1, <2>1 DEF LiveQuotes, RestingQuotes, WalkSound
  <2>3. CASE x <= quoteReader.after
    BY <1>11, <1>15, <2>3 DEF WalkSound
  <2>4. CASE x > quoteReader.after
    <3>1. PICK i \in 1..n : m[i] = q
      BY <1>5, <2>1, <2>4
    <3>2. i \in 1..l
      <4>1. CASE quoteReader'.done
        BY <1>12, <3>1, <4>1
      <4>2. CASE x <= cut.nextAfter
        <5>1. SUFFICES ASSUME i > l PROVE FALSE
          BY <3>1
        <5>2. l # 0 /\ l \in 1..n
          BY <1>8, <3>1, <5>1
        <5>3. m[l].sequence < m[i].sequence /\ cut.nextAfter = m[l].sequence
          BY <1>5, <1>8, <3>1, <5>1, <5>2
        <5>. QED  BY <1>14, <2>1, <2>2, <3>1, <4>2, <5>3
      <4>. QED  BY <1>15, <4>1, <4>2
    <3>3. cut.items[i].sequence = x
      BY <1>8, <2>1, <3>1, <3>2
    <3>. QED  BY <1>11, <1>13, <3>2, <3>3
  <2>. QED  BY <2>2, <2>3, <2>4
<1>16. Standing' = Standing
  BY <1>10 DEF Standing, LiveQuotes, Unexpired
<1>. HIDE DEF those
<1>. QED  BY <1>10, <1>11, <1>14, <1>15, <1>16 DEF WalkSound

\* The tape's page goes on where the reader was.
LEMMA TapeGoesOn ==
  ASSUME FeedsAssumption, FeedTypes, FeedNumbers, TapeSound, ReadExecutions
  PROVE  TapeSound'
<1>1. PICK k \in Nat : k = Len(tapeReader.got)
  BY DEF TapeSound
<1>2. PICK d \in Nat : d = Len(executions)
  BY DEF FeedTypes
<1>3. /\ executions \in Seq(Ended) /\ \A i \in 1..d : executions[i].sequence \in Nat \ {0}
      /\ \A i, j \in 1..d : i < j => executions[i].sequence < executions[j].sequence
      /\ k <= d /\ tapeReader.after = IF k = 0 THEN 0 ELSE executions[k].sequence
  BY <1>1, <1>2 DEF FeedTypes, FeedNumbers, TapeSound
<1>. DEFINE those == {e \in Range(executions) : e.sequence > tapeReader.after}
            list == [i \in 1..(d - k) |-> executions[k + i]]
<1>4. \A i \in 1..d : executions[i].sequence > tapeReader.after <=> i > k
  BY <1>3
<1>5. those = Range(list)
  <2>1. Range(executions) = {executions[i] : i \in 1..d}
    BY <1>2, <1>3 DEF Range
  <2>2. Range(list) = {executions[k + i] : i \in 1..(d - k)}
    BY DEF Range
  <2>3. \A e \in those : e \in Range(list)
    <3>. SUFFICES ASSUME NEW e \in those PROVE e \in Range(list)
      OBVIOUS
    <3>1. PICK i \in 1..d : e = executions[i]
      BY <2>1
    <3>2. i > k
      BY <1>4, <3>1
    <3>3. i - k \in 1..(d - k) /\ executions[k + (i - k)] = e
      BY <3>1, <3>2
    <3>. QED  BY <2>2, <3>3
  <2>4. \A e \in Range(list) : e \in those
    <3>. SUFFICES ASSUME NEW i \in 1..(d - k) PROVE executions[k + i] \in those
      BY <2>2
    <3>1. k + i \in 1..d /\ k + i > k
      BY <1>3
    <3>2. executions[k + i].sequence > tapeReader.after
      BY <1>4, <3>1
    <3>. QED  BY <2>1, <3>1, <3>2
  <2>. QED  BY <2>3, <2>4
<1>6. PICK n \in Nat : n = d - k
  BY <1>3
<1>7. list \in [1..n -> those] /\ \A i, j \in 1..n : i < j => list[i].sequence < list[j].sequence
  <2>1. \A i \in 1..n : list[i] = executions[k + i] /\ k + i \in 1..d
    BY <1>3, <1>6
  <2>2. \A i \in 1..n : list[i] \in Range(list)
    BY <1>6 DEF Range
  <2>3. list \in [1..n -> those]
    BY <1>5, <1>6, <2>2
  <2>4. \A i, j \in 1..n : i < j => list[i].sequence < list[j].sequence
    BY <1>3, <1>6, <2>1
  <2>. QED  BY <2>3, <2>4
<1>8. \A i \in 1..n : list[i].sequence \in Nat
  BY <1>3, <1>6
<1>. HIDE DEF list
<1>9. Cardinality(those) = n /\ IsFiniteSet(those)
  <2>1. \A i, j \in 1..n : list[i] = list[j] => i = j
    BY <1>7, <1>8
  <2>2. Cardinality(Range(list)) = n
    <3>. HIDE DEF those
    <3>. QED  BY <1>7, <2>1, DistinctCount
  <2>3. IsFiniteSet(Range(list))
    <3>1. list \in Surjection(1..n, Range(list))
      BY <1>7 DEF Range, Surjection
    <3>2. IsFiniteSet(1..n)
      BY FS_Interval
    <3>. QED  BY <3>1, <3>2, FS_Surjection
  <2>. QED  BY <1>5, <2>2, <2>3
<1>10. \A x \in those : \E i \in 1..n : list[i] = x
  BY <1>5, <1>7 DEF Range
<1>11. /\ \A x \in those : x.sequence \in Nat
       /\ \A x, y \in those : x.sequence = y.sequence => x = y
  <2>. HIDE DEF those
  <2>1. \A i, j \in 1..n : list[i].sequence = list[j].sequence => i = j
    BY <1>7, <1>8
  <2>. QED  BY <1>8, <1>10, <2>1
<1>12. PICK m : m = BySequence(those)
  OBVIOUS
<1>. DEFINE key == [x \in those |-> x.sequence]
<1>13. m \in Seq(those) /\ Len(m) = n /\ m \in [1..n -> those]
       /\ \A i, j \in 1..n : i < j => m[i].sequence < m[j].sequence
  <2>. HIDE DEF those
  <2>. QED  BY <1>9, <1>11, <1>12, ListedBySequence
<1>14. \A i \in 1..n : m[i] = list[i]
  <2>. HIDE DEF those
  <2>1. key \in [those -> Int]
    BY <1>11
  <2>2. \A i \in 1..n : key[m[i]] = m[i].sequence /\ key[list[i]] = list[i].sequence
    BY <1>7, <1>13
  <2>. HIDE DEF key
  <2>3. /\ \A i, j \in 1..n : i < j => key[m[i]] < key[m[j]]
        /\ \A i, j \in 1..n : i < j => key[list[i]] < key[list[j]]
    BY <1>7, <1>13, <2>2
  <2>4. IsFiniteSet(those) /\ n = Cardinality(those)
    BY <1>9
  <2>5. m \in [1..n -> those] /\ list \in [1..n -> those]
    BY <1>7, <1>13
  <2>6. SortedBy(m, those, key) /\ SortedBy(list, those, key)
    BY <2>3, <2>4, <2>5 DEF SortedBy
  <2>7. \A i \in 1..Cardinality(those) : m[i] = list[i]
    BY <2>1, <2>4, <2>6, OrderIsOne
  <2>. QED  BY <2>4, <2>7
<1>15. PICK cut : cut = ExecutionPage(tapeReader.after)
  OBVIOUS
<1>16. cut = PageOf(m, tapeReader.after)
  BY <1>12, <1>15 DEF ExecutionPage
<1>17. PICK l \in Nat :
        /\ l <= n /\ (l = 0 => n = 0)
        /\ cut.items \in Seq(those) /\ Len(cut.items) = l
        /\ \A i \in 1..l : cut.items[i] = m[i]
        /\ cut.nextAfter = IF l = 0 THEN tapeReader.after ELSE m[l].sequence
  <2>1. m \in Seq(those) /\ Len(m) = n
    BY <1>13
  <2>. HIDE DEF those
  <2>2. \E l \in Nat :
          /\ l <= Len(m) /\ (l = 0 => Len(m) = 0)
          /\ cut.items \in Seq(those) /\ Len(cut.items) = l
          /\ \A i \in 1..l : cut.items[i] = m[i]
          /\ cut.nextAfter = IF l = 0 THEN tapeReader.after ELSE m[l].sequence
          /\ ~cut.hasMore => l = Len(m)
    BY <1>16, <2>1, PageIsCut
  <2>. QED  BY <2>1, <2>2
<1>18. \A i \in 1..l : cut.items[i] = executions[k + i]
  BY <1>6, <1>14, <1>17 DEF list
<1>19. those \subseteq Ended
  <2>1. Range(executions) \subseteq Ended
    BY <1>3 DEF Range
  <2>. QED  BY <2>1
<1>20. cut.items \in Seq(Ended)
  <2>. HIDE DEF those
  <2>. QED  BY <1>17, <1>19
<1>21. tapeReader' = [after |-> cut.nextAfter, got |-> tapeReader.got \o cut.items]
       /\ executions' = executions
  BY <1>15 DEF ReadExecutions, matcherVars
<1>22. PICK got : got = tapeReader.got \o cut.items
  OBVIOUS
<1>23. got \in Seq(Ended) /\ Len(got) = k + l
       /\ \A i \in 1..(k + l) : got[i] = IF i <= k THEN tapeReader.got[i] ELSE cut.items[i - k]
  <2>1. tapeReader.got \in Seq(Ended)
    BY DEF TapeSound
  <2>2. PICK s : s = tapeReader.got
    OBVIOUS
  <2>3. PICK t : t = cut.items
    OBVIOUS
  <2>4. s \in Seq(Ended) /\ t \in Seq(Ended) /\ Len(s) = k /\ Len(t) = l /\ got = s \o t
    BY <1>1, <1>17, <1>20, <1>22, <2>1, <2>2, <2>3
  <2>5. got \in Seq(Ended) /\ Len(got) = k + l
        /\ \A i \in 1..(k + l) : got[i] = IF i <= k THEN s[i] ELSE t[i - k]
    BY <2>4, ConcatProperties
  <2>. QED  BY <2>2, <2>3, <2>5
<1>24. \A i \in 1..(k + l) : got[i] = executions[i]
  <2>. SUFFICES ASSUME NEW i \in 1..(k + l) PROVE got[i] = executions[i]
    OBVIOUS
  <2>1. CASE i <= k
    BY <1>1, <1>23, <2>1 DEF TapeSound
  <2>2. CASE i > k
    <3>1. i - k \in 1..l /\ k + (i - k) = i /\ ~(i <= k)
      BY <2>2
    <3>2. got[i] = cut.items[i - k]
      BY <1>23, <3>1
    <3>3. cut.items[i - k] = executions[k + (i - k)]
      BY <1>18, <3>1
    <3>. QED  BY <3>1, <3>2, <3>3
  <2>. QED  BY <2>1, <2>2
<1>25. k + l <= d
  BY <1>6, <1>17
<1>26. cut.nextAfter = IF k + l = 0 THEN 0 ELSE executions[k + l].sequence
  <2>1. CASE l = 0
    BY <1>3, <1>17, <2>1
  <2>2. CASE l # 0
    <3>1. l \in 1..n /\ l \in 1..l
      BY <1>17, <2>2
    <3>2. m[l] = executions[k + l]
      BY <1>17, <1>18, <3>1
    <3>. QED  BY <1>17, <2>2, <3>2
  <2>. QED  BY <2>1, <2>2
<1>27. tapeReader'.got = got /\ tapeReader'.after = cut.nextAfter
       /\ DOMAIN tapeReader' = {"after", "got"}
  BY <1>21, <1>22
<1>. HIDE DEF those
<1>. QED  BY <1>2, <1>21, <1>23, <1>24, <1>25, <1>26, <1>27 DEF TapeSound

\* The fills done are those of the routes, two a route at most.
LEMMA FillsOfRoutes ==
  ASSUME FeedTypes, FeedNumbers, NEW d \in Nat, d = Len(executions)
  PROVE  /\ FillsDone \subseteq (1..d) \X (1..2) /\ IsFiniteSet(FillsDone)
         /\ \A i, j : <<i, j>> \in FillsDone <=>
              i \in 1..d /\ executions[i].route # None /\ j \in DOMAIN executions[i].route
<1>1. DOMAIN executions = 1..d
  BY DEF FeedTypes
<1>2. \A i, j : <<i, j>> \in FillsDone <=>
              i \in 1..d /\ executions[i].route # None /\ j \in DOMAIN executions[i].route
  BY <1>1 DEF FillsDone
<1>3. \A i \in 1..d : executions[i].route # None => DOMAIN executions[i].route \subseteq 1..2
  <2>. SUFFICES ASSUME NEW i \in 1..d, executions[i].route # None
                PROVE  DOMAIN executions[i].route \subseteq 1..2
    OBVIOUS
  <2>1. executions[i].route \in Seq(RouteFills) /\ Len(executions[i].route) <= 2
    BY DEF FeedNumbers
  <2>. QED  BY <2>1
<1>4. \A x \in FillsDone : \E i, j : x = <<i, j>>
  BY DEF FillsDone
<1>5. FillsDone \subseteq (1..d) \X (1..2)
  BY <1>2, <1>3, <1>4
<1>6. IsFiniteSet((1..d) \X (1..2))
  <2>1. IsFiniteSet(1..d)
    BY FS_Interval
  <2>2. IsFiniteSet(1..2)
    <3>1. PICK two \in Int : two = 2
      OBVIOUS
    <3>2. IsFiniteSet(1..two)
      BY FS_Interval
    <3>. QED  BY <3>1, <3>2
  <2>. QED  BY <2>1, <2>2, FS_Product
<1>7. IsFiniteSet(FillsDone)
  BY <1>5, <1>6, FS_Subset
<1>. QED  BY <1>2, <1>5, <1>7

\* The tape lists every fill once.
LEMMA TapeListsFills ==
  ASSUME FeedTypes, FeedNumbers, NEW n, n = Cardinality(FillsDone)
  PROVE  /\ n \in Nat /\ NewestFirst \in [1..n -> FillsDone]
         /\ \A i, j \in 1..n : NewestFirst[i] = NewestFirst[j] => i = j
         /\ \A x \in FillsDone : \E i \in 1..n : NewestFirst[i] = x
<1>1. PICK d \in Nat : d = Len(executions)
  BY DEF FeedTypes
<1>2. PICK S : S = FillsDone
  OBVIOUS
<1>3. S \subseteq (1..d) \X (1..2) /\ IsFiniteSet(S)
  BY <1>1, <1>2, FillsOfRoutes
<1>4. n = Cardinality(S) /\ n \in Nat
  BY <1>2, <1>3, FS_CardinalityType
<1>. DEFINE key == [x \in S |-> x[2] - 3 * x[1]]
<1>5. \A x \in S : /\ x[1] \in 1..d /\ x[2] \in 1..2 /\ x = <<x[1], x[2]>>
                   /\ key[x] = x[2] - 3 * x[1] /\ key[x] \in Int
  BY <1>3
<1>6. key \in [S -> Int]
  BY <1>5
<1>. HIDE DEF key
<1>7. \A x, y \in S : /\ key[x] = key[y] => x = y
                      /\ key[x] < key[y] <=> Newer(x, y)
  <2>. SUFFICES ASSUME NEW x \in S, NEW y \in S
                PROVE  /\ key[x] = key[y] => x = y
                       /\ key[x] < key[y] <=> Newer(x, y)
    OBVIOUS
  <2>1. PICK a \in 1..d, b \in 1..2 : x[1] = a /\ x[2] = b /\ x = <<a, b>> /\ key[x] = b - 3 * a
    BY <1>5
  <2>2. PICK e \in 1..d, f \in 1..2 : y[1] = e /\ y[2] = f /\ y = <<e, f>> /\ key[y] = f - 3 * e
    BY <1>5
  <2>3. b - 3 * a = f - 3 * e => a = e /\ b = f
    OBVIOUS
  <2>4. b - 3 * a < f - 3 * e <=> a > e \/ (a = e /\ b < f)
    OBVIOUS
  <2>. QED  BY <2>1, <2>2, <2>3, <2>4 DEF Newer
<1>8. PICK s \in [1..n -> S] : \A i, j \in 1..n : i < j => key[s[i]] < key[s[j]]
  <2>1. \A x, y \in S : key[x] = key[y] => x = y
    BY <1>7
  <2>. QED  BY <1>3, <1>4, <1>6, <2>1, OrderExists
<1>9. \A i, j \in 1..n : i < j => Newer(s[i], s[j])
  BY <1>7, <1>8
<1>10. PICK t : t = NewestFirst
  OBVIOUS
<1>11. t \in [1..n -> S] /\ \A i, j \in 1..n : i < j => Newer(t[i], t[j])
  BY <1>2, <1>4, <1>9, <1>10 DEF NewestFirst
<1>12. \A i, j \in 1..n : i < j => key[t[i]] < key[t[j]]
  BY <1>7, <1>11
<1>13. \A i, j \in 1..n : t[i] = t[j] => i = j
  <2>. SUFFICES ASSUME NEW i \in 1..n, NEW j \in 1..n, t[i] = t[j], i < j PROVE FALSE
    BY <1>4
  <2>1. key[t[i]] < key[t[j]] /\ key[t[i]] \in Int
    BY <1>5, <1>11, <1>12
  <2>. QED  BY <2>1
<1>14. \A x \in S : \E i \in 1..n : t[i] = x
  <2>1. SortedBy(t, S, key)
    BY <1>4, <1>11, <1>12 DEF SortedBy
  <2>. QED  BY <1>3, <1>4, <1>6, <2>1, SortedByIsAll
<1>. QED  BY <1>2, <1>4, <1>10, <1>11, <1>13, <1>14

\* What a fill counts for, when its execution is one of the day.
Recent(i) == executions[i].route # None /\ ~(records[executions[i].sequence].at + DayLength < feedTime)
SizeOf(x) == executions[x[1]].route[x[2]].size
DaySize == [x \in FillsDone |-> IF Recent(x[1]) THEN SizeOf(x) ELSE 0]

\* The sizes of the fills of the day make what was traded in it.
LEMMA DayIsFills ==
  ASSUME FeedsAssumption, FeedTypes, FeedNumbers
  PROVE  /\ \A x \in FillsDone : DaySize[x] \in Int /\ SizeOf(x) \in Int
         /\ SumOver(DaySize, FillsDone) = DayVolume
<1>1. PICK d \in Nat : d = Len(executions)
  BY DEF FeedTypes
<1>2. PICK S : S = FillsDone
  OBVIOUS
<1>3. /\ S \subseteq (1..d) \X (1..2) /\ IsFiniteSet(S)
      /\ \A i, j : <<i, j>> \in S <=>
           i \in 1..d /\ executions[i].route # None /\ j \in DOMAIN executions[i].route
  BY <1>1, <1>2, FillsOfRoutes
<1>4. \A x \in S : /\ x[1] \in 1..d /\ x = <<x[1], x[2]>> /\ executions[x[1]].route # None
                   /\ x[2] \in DOMAIN executions[x[1]].route
  <2>. SUFFICES ASSUME NEW x \in S
                PROVE  /\ x[1] \in 1..d /\ x = <<x[1], x[2]>> /\ executions[x[1]].route # None
                       /\ x[2] \in DOMAIN executions[x[1]].route
    OBVIOUS
  <2>1. PICK i \in 1..d, j \in 1..2 : x = <<i, j>>
    BY <1>3
  <2>. QED  BY <1>3, <2>1
<1>5. \A i \in 1..d : executions[i].route # None =>
        /\ IsFiniteSet(DOMAIN executions[i].route)
        /\ \A j \in DOMAIN executions[i].route : executions[i].route[j].size \in Int
  <2>. SUFFICES ASSUME NEW i \in 1..d, executions[i].route # None
                PROVE  /\ IsFiniteSet(DOMAIN executions[i].route)
                       /\ \A j \in DOMAIN executions[i].route : executions[i].route[j].size \in Int
    OBVIOUS
  <2>1. PICK r \in Seq(RouteFills) : r = executions[i].route
    BY <1>1 DEF FeedNumbers
  <2>2. DOMAIN r = 1..Len(r) /\ Len(r) \in Nat /\ \A j \in 1..Len(r) : r[j] \in RouteFills
    OBVIOUS
  <2>3. \A j \in 1..Len(r) : r[j].size \in Int
    BY <2>2 DEF RouteFills
  <2>4. IsFiniteSet(1..Len(r))
    BY <2>2, FS_Interval
  <2>. QED  BY <2>1, <2>2, <2>3, <2>4
<1>6. \A x \in S : SizeOf(x) \in Int /\ DaySize[x] = IF Recent(x[1]) THEN SizeOf(x) ELSE 0
  BY <1>2, <1>4, <1>5 DEF SizeOf, DaySize
<1>7. \A x \in S : DaySize[x] \in Int
  BY <1>6
<1>. DEFINE class == [x \in S |-> x[1]]
            of == [i \in 1..d |-> {x \in S : class[x] = i}]
            g == [i \in 1..d |-> SumOver(DaySize, of[i])]
            day == [i \in 1..d |->
                      IF executions[i].route = None \/ records[executions[i].sequence].at + DayLength < feedTime
                      THEN 0
                      ELSE SumOver([j \in DOMAIN executions[i].route |-> executions[i].route[j].size],
                                   DOMAIN executions[i].route)]
<1>8. IsFiniteSet(1..d)
  BY FS_Interval
<1>9. SumOver(DaySize, S) = SumOver(g, 1..d)
  <2>1. class \in [S -> 1..d]
    BY <1>4
  <2>2. \A i \in 1..d : of[i] = {x \in S : class[x] = i}
    OBVIOUS
  <2>3. \A i \in 1..d : g[i] = SumOver(DaySize, of[i])
    OBVIOUS
  <2>4. PICK T : T = 1..d
    OBVIOUS
  <2>5. IsFiniteSet(T) /\ class \in [S -> T]
        /\ (\A i \in T : of[i] = {x \in S : class[x] = i})
        /\ \A i \in T : g[i] = SumOver(DaySize, of[i])
    BY <1>8, <2>1, <2>2, <2>3, <2>4
  <2>. HIDE DEF class, of, g
  <2>6. SumOver(DaySize, S) = SumOver(g, T)
    BY <1>3, <1>7, <2>5, SumByClass
  <2>. QED  BY <2>4, <2>6
<1>10. \A i \in 1..d : of[i] = {x \in S : x[1] = i}
  OBVIOUS
<1>11. ASSUME NEW i \in 1..d PROVE g[i] = day[i]
  <2>1. PICK T : T = {x \in S : x[1] = i}
    OBVIOUS
  <2>2. T \in SUBSET S /\ IsFiniteSet(T)
    BY <1>3, <2>1, FS_Subset
  <2>3. g[i] = SumOver(DaySize, T)
    BY <1>10, <2>1
  <2>4. CASE ~Recent(i)
    <3>1. \A x \in T : DaySize[x] = 0
      BY <1>6, <2>1, <2>4
    <3>2. SumOver(DaySize, T) = 0 * Cardinality(T)
      BY <2>2, <3>1, SumConstant
    <3>3. Cardinality(T) \in Nat
      BY <2>2, FS_CardinalityType
    <3>4. day[i] = 0
      BY <2>4 DEF Recent
    <3>. QED  BY <2>3, <3>2, <3>3, <3>4
  <2>5. CASE Recent(i)
    <3>1. executions[i].route # None
      BY <2>5 DEF Recent
    <3>2. PICK D : D = DOMAIN executions[i].route
      OBVIOUS
    <3>. DEFINE h == [j \in D |-> <<i, j>>]
                f == [j \in D |-> executions[i].route[j].size]
    <3>3. IsFiniteSet(D)
      BY <1>5, <3>1, <3>2
    <3>4. h \in [D -> T] /\ \A x, y \in D : h[x] = h[y] => x = y
      BY <1>3, <2>1, <3>1, <3>2
    <3>5. \A j \in D : f[j] \in Int /\ f[j] = DaySize[h[j]]
      <4>. SUFFICES ASSUME NEW j \in D PROVE f[j] \in Int /\ f[j] = DaySize[h[j]]
        OBVIOUS
      <4>1. f[j] \in Int
        BY <1>5, <3>1, <3>2
      <4>2. <<i, j>> \in S
        BY <1>3, <3>1, <3>2
      <4>3. DaySize[<<i, j>>] = SizeOf(<<i, j>>)
        BY <1>6, <2>5, <4>2
      <4>. QED  BY <4>1, <4>3 DEF SizeOf
    <3>6. \A y \in T : \E j \in D : h[j] = y
      BY <1>4, <2>1, <3>2
    <3>7. day[i] = SumOver(f, D)
      BY <2>5, <3>2 DEF Recent
    <3>8. SumOver(f, D) = SumOver(DaySize, T)
      <4>. HIDE DEF h, f
      <4>. QED  BY <2>2, <3>3, <3>4, <3>5, <3>6, SumReindexed
    <3>. QED  BY <2>3, <3>7, <3>8
  <2>. QED  BY <2>4, <2>5
<1>12. SumOver(g, 1..d) = SumOver(day, 1..d)
  <2>. HIDE DEF g, day
  <2>. QED  BY <1>8, <1>11, SumEqual
<1>13. DayVolume = SumOver(day, 1..d)
  <2>1. DOMAIN executions = 1..d
    BY <1>1 DEF FeedTypes
  <2>. QED  BY <2>1 DEF DayVolume
<1>. HIDE DEF class, of, g, day
<1>. QED  BY <1>2, <1>6, <1>7, <1>9, <1>12, <1>13

\* A ticker that left no fill out counts every fill of the day.
LEMMA TickerCounts ==
  ASSUME FeedsAssumption, FeedTypes, FeedNumbers, NEW depth, NEW trades,
         trades = PublicTrades(TickerTrades), NEW read, read = PublicTicker(trades, depth)
  PROVE  /\ read.at = feedTime /\ read.sequence = Len(records)
         /\ ~read.truncated => read.volume = DayVolume
<1>1. PICK n \in Nat : n = Cardinality(FillsDone)
  BY TapeListsFills
<1>2. PICK s : s = NewestFirst
  OBVIOUS
<1>3. /\ s \in [1..n -> FillsDone] /\ \A i, j \in 1..n : s[i] = s[j] => i = j
      /\ \A x \in FillsDone : \E i \in 1..n : s[i] = x
  BY <1>1, <1>2, TapeListsFills
<1>. DEFINE all == [i \in 1..n |-> TradeOf(s[i])]
            cutoff == IF feedTime > DayLength THEN feedTime - DayLength ELSE 0
            window == {i \in DOMAIN trades : trades[i].at >= cutoff}
            sizes == [i \in window |-> trades[i].size]
<1>4. trades = FirstOf(all, TickerTrades)
  BY <1>1, <1>2 DEF PublicTrades
<1>5. /\ read.at = feedTime /\ read.sequence = Len(records)
      /\ read.truncated = (Len(trades) = TickerTrades)
      /\ read.volume = SumOver(sizes, window)
  BY DEF PublicTicker
<1>6. ASSUME ~read.truncated PROVE read.volume = DayVolume
  <2>1. Len(trades) # TickerTrades
    <3>1. Len(trades) = TickerTrades => read.truncated
      BY <1>5, Zenon
    <3>. QED  BY <1>6, <3>1
  <2>2. Len(all) = n /\ all \in Seq({TradeOf(s[i]) : i \in 1..n})
    OBVIOUS
  <2>3. trades = all
    <3>1. PICK m \in Nat : m = (IF n < TickerTrades THEN n ELSE TickerTrades)
      BY DEF FeedsAssumption
    <3>2. trades = SubSeq(all, 1, m)
      BY <1>4, <2>2, <3>1 DEF FirstOf
    <3>3. m <= n /\ (m = TickerTrades \/ m = n)
      BY <3>1 DEF FeedsAssumption
    <3>4. Len(trades) = m
      BY <2>2, <3>2, <3>3
    <3>5. m = n
      BY <2>1, <3>3, <3>4
    <3>. HIDE DEF all
    <3>. QED  BY <2>2, <3>2, <3>5
  <2>4. DOMAIN trades = 1..n /\ \A i \in 1..n : trades[i] = TradeOf(s[i])
    BY <2>3
  <2>5. \A i \in 1..n : /\ s[i] \in FillsDone /\ trades[i].size = SizeOf(s[i])
                        /\ trades[i].at \in Nat
                        /\ trades[i].at >= cutoff <=> Recent(s[i][1])
    <3>. SUFFICES ASSUME NEW i \in 1..n
                  PROVE  /\ s[i] \in FillsDone /\ trades[i].size = SizeOf(s[i])
                         /\ trades[i].at \in Nat
                         /\ trades[i].at >= cutoff <=> Recent(s[i][1])
      OBVIOUS
    <3>1. PICK x \in FillsDone : x = s[i]
      BY <1>3
    <3>2. PICK d \in Nat : d = Len(executions)
      BY DEF FeedTypes
    <3>3. x[1] \in 1..d /\ executions[x[1]].route # None
      <4>1. PICK a \in 1..d, b \in 1..2 : x = <<a, b>>
        BY <3>2, FillsOfRoutes
      <4>. QED  BY <3>2, <4>1, FillsOfRoutes
    <3>4. executions[x[1]].sequence \in 1..Len(records)
      BY <3>2, <3>3 DEF FeedNumbers
    <3>5. records[executions[x[1]].sequence].at \in Nat
      <4>1. PICK e \in 1..Len(records) : e = executions[x[1]].sequence
        BY <3>4
      <4>2. records[e] \in Recordings
        BY DEF FeedTypes
      <4>. QED  BY <4>1, <4>2 DEF Recordings
    <3>6. trades[i] = TradeOf(x)
      BY <2>4, <3>1
    <3>7. trades[i].at = records[executions[x[1]].sequence].at /\ trades[i].size = SizeOf(x)
      BY <3>6 DEF TradeOf, SizeOf
    <3>8. feedTime \in Nat /\ DayLength \in Nat
      BY DEF FeedTypes, FeedsAssumption
    <3>9. trades[i].at >= cutoff <=> ~(trades[i].at + DayLength < feedTime)
      BY <3>5, <3>7, <3>8
    <3>. QED  BY <3>1, <3>3, <3>5, <3>7, <3>9 DEF Recent
  <2>. DEFINE h == [i \in window |-> s[i]]
  <2>6. window \in SUBSET (1..n) /\ IsFiniteSet(window)
    <3>1. window \in SUBSET (1..n) /\ IsFiniteSet(1..n)
      BY <2>4, FS_Interval
    <3>. HIDE DEF window
    <3>. QED  BY <3>1, FS_Subset
  <2>7. \A i \in 1..n : i \in window <=> Recent(s[i][1])
    BY <2>4, <2>5
  <2>8. \A i \in window : sizes[i] = trades[i].size /\ h[i] = s[i]
    OBVIOUS
  <2>. HIDE DEF window, sizes, all, cutoff
  <2>9. h \in [window -> FillsDone] /\ \A i, j \in window : h[i] = h[j] => i = j
    BY <1>3, <2>6
  <2>10. \A x \in FillsDone : /\ DaySize[x] \in Int /\ SizeOf(x) \in Int
                              /\ DaySize[x] = IF Recent(x[1]) THEN SizeOf(x) ELSE 0
    BY DayIsFills DEF DaySize
  <2>11. \A i \in window : sizes[i] \in Int /\ sizes[i] = DaySize[h[i]]
    BY <2>5, <2>6, <2>7, <2>8, <2>10
  <2>12. \A x \in FillsDone : (\A i \in window : h[i] # x) => DaySize[x] = 0
    <3>. SUFFICES ASSUME NEW x \in FillsDone, \A i \in window : h[i] # x PROVE DaySize[x] = 0
      OBVIOUS
    <3>1. PICK i \in 1..n : s[i] = x
      BY <1>3
    <3>2. i \notin window
      BY <2>8, <3>1
    <3>. QED  BY <2>7, <2>10, <3>1, <3>2
  <2>13. IsFiniteSet(FillsDone)
    <3>1. PICK d \in Nat : d = Len(executions)
      BY DEF FeedTypes
    <3>. QED  BY <3>1, FillsOfRoutes
  <2>14. SumOver(sizes, window) = SumOver(DaySize, FillsDone)
    <3>1. PICK S, W, v, w, k : /\ S = FillsDone /\ W = window /\ v = DaySize
                               /\ w = sizes /\ k = h
      OBVIOUS
    <3>. HIDE DEF h
    <3>2. IsFiniteSet(S) /\ IsFiniteSet(W) /\ k \in [W -> S]
      BY <2>6, <2>9, <2>13, <3>1
    <3>3. \A i, j \in W : k[i] = k[j] => i = j
      BY <2>9, <3>1
    <3>4. \A i \in W : w[i] \in Int /\ w[i] = v[k[i]]
      BY <2>11, <3>1
    <3>5. \A x \in S : (\A i \in W : k[i] # x) => v[x] = 0
      BY <2>12, <3>1
    <3>6. SumOver(w, W) = SumOver(v, S)
      BY <3>2, <3>3, <3>4, <3>5, SumReindexed
    <3>. QED  BY <3>1, <3>6
  <2>. QED  BY <1>5, <2>14, DayIsFills
<1>. HIDE DEF sizes, window, all, cutoff
<1>. QED  BY <1>5, <1>6

\* What reads nothing and moves nothing leaves what was promised.
LEMMA FeedKeeps ==
  /\ FeedTypes /\ FeedNumbers /\ UNCHANGED <<feedTime, matcherVars>> => FeedTypes' /\ FeedNumbers'
  /\ TapeSound /\ UNCHANGED <<executions, tapeReader>> => TapeSound'
  /\ WalkSound /\ UNCHANGED <<feedTime, matcherVars, quoteReader>> => WalkSound'
  /\ TickerSound /\ UNCHANGED <<feedTime, matcherVars, ticker>> => TickerSound'
<1>1. FeedTypes /\ FeedNumbers /\ UNCHANGED <<feedTime, matcherVars>> => FeedTypes' /\ FeedNumbers'
  BY DEF matcherVars, FeedTypes, FeedNumbers
<1>2. TapeSound /\ UNCHANGED <<executions, tapeReader>> => TapeSound'
  BY DEF TapeSound
<1>3. UNCHANGED <<feedTime, matcherVars>> => Standing' = Standing /\ DayVolume' = DayVolume
  BY DEF matcherVars, Standing, LiveQuotes, Unexpired, DayVolume
<1>4. WalkSound /\ UNCHANGED <<feedTime, matcherVars, quoteReader>> => WalkSound'
  BY <1>3 DEF WalkSound, matcherVars
<1>5. TickerSound /\ UNCHANGED <<feedTime, matcherVars, ticker>> => TickerSound'
  BY <1>3 DEF TickerSound, matcherVars
<1>. QED  BY <1>1, <1>2, <1>4, <1>5

\* A move of the matcher takes nothing from what was read, and outdates the ticker.
LEMMA MoveKeepsFeeds ==
  ASSUME FeedsAssumption, FeedInv, MatcherMoves
  PROVE  FeedInv'
<1>1. FeedTypes /\ FeedNumbers /\ TapeSound /\ UNCHANGED <<feedTime, quoteReader, tapeReader, ticker>>
  BY DEF FeedInv, MatcherMoves
<1>2. /\ FeedTypes' /\ FeedNumbers' /\ QuotesFollow
      /\ Len(records') = Len(records) + 1
      /\ \/ UNCHANGED executions
         \/ \E e \in Ended : executions' = Append(executions, e)
  BY <1>1, MoveFollows
<1>3. PICK d, r \in Nat : d = Len(executions) /\ r = Len(records)
  BY <1>1 DEF FeedTypes
<1>4. Len(executions') >= d /\ \A i \in 1..d : executions'[i] = executions[i]
  <2>1. CASE UNCHANGED executions
    BY <1>3, <2>1
  <2>2. CASE \E e \in Ended : executions' = Append(executions, e)
    <3>1. PICK e \in Ended : executions' = Append(executions, e)
      BY <2>2
    <3>2. executions \in Seq(Ended)
      BY <1>1 DEF FeedTypes
    <3>. QED  BY <1>3, <3>1, <3>2
  <2>. QED  BY <1>2, <2>1, <2>2
<1>5. TapeSound'
  <2>1. Len(executions') \in Nat
    BY <1>2 DEF FeedTypes
  <2>2. PICK k \in Nat : k = Len(tapeReader.got)
    BY <1>1 DEF TapeSound
  <2>3. k <= d /\ \A i \in 1..k : tapeReader.got[i] = executions'[i]
    BY <1>1, <1>3, <1>4, <2>2 DEF TapeSound
  <2>4. tapeReader.after = IF k = 0 THEN 0 ELSE executions'[k].sequence
    BY <1>1, <1>3, <1>4, <2>2 DEF TapeSound
  <2>. QED  BY <1>1, <1>4, <2>1, <2>2, <2>3, <2>4 DEF TapeSound
<1>6. quoteReader # None => WalkSound'
  <2>. SUFFICES ASSUME quoteReader # None PROVE WalkSound'
    OBVIOUS
  <2>1. WalkSound
    BY DEF FeedInv
  <2>2. \A n \in Standing' : n \in quoteReader.from => n \in Standing
    <3>1. \A n \in quoteReader.from : n # Len(records) + 1
      BY <1>3, <2>1 DEF WalkSound
    <3>. QED  BY <1>2, <3>1 DEF QuotesFollow
  <2>3. quoteReader.from \subseteq 1..Len(records')
    BY <1>2, <1>3, <2>1 DEF WalkSound
  <2>. QED  BY <1>1, <2>1, <2>2, <2>3 DEF WalkSound
<1>7. ticker # None => TickerSound'
  BY <1>1, <1>2, <1>3 DEF FeedInv, TickerSound, FeedTypes
<1>. QED  BY <1>1, <1>2, <1>5, <1>6, <1>7 DEF FeedInv

\* Time takes quotes away, and outdates the ticker.
LEMMA TickKeepsFeeds ==
  ASSUME FeedInv, FeedTick
  PROVE  FeedInv'
<1>1. FeedTypes /\ FeedNumbers /\ TapeSound /\ UNCHANGED <<matcherVars, quoteReader, tapeReader, ticker>>
      /\ feedTime' = feedTime + 1 /\ feedTime \in Nat
  BY DEF FeedInv, FeedTick, FeedTypes
<1>2. UNCHANGED <<records, openOrders, solverQuotes, executions>>
  BY <1>1 DEF matcherVars
<1>3. FeedTypes' /\ FeedNumbers' /\ TapeSound'
  BY <1>1, <1>2 DEF FeedTypes, FeedNumbers, TapeSound
<1>4. \A n \in Standing' : n \in Standing
  <2>1. \A q \in LiveQuotes' : q \in LiveQuotes
    BY <1>1, <1>2 DEF LiveQuotes, Unexpired, FeedTypes, RestingQuotes
  <2>. QED  BY <2>1 DEF Standing
<1>5. quoteReader # None => WalkSound'
  BY <1>1, <1>2, <1>4 DEF FeedInv, WalkSound
<1>6. ticker # None => TickerSound'
  BY <1>1, <1>2 DEF FeedInv, TickerSound
<1>. QED  BY <1>1, <1>3, <1>5, <1>6 DEF FeedInv

LEMMA ReadersKeepFeeds ==
  ASSUME FeedsAssumption, FeedInv,
         BeginQuotes \/ ReadQuotes \/ ReadExecutions \/ ReadTicker
  PROVE  FeedInv'
<1>1. /\ FeedTypes /\ FeedNumbers /\ TapeSound
      /\ quoteReader # None => WalkSound
      /\ ticker # None => TickerSound
  BY DEF FeedInv
<1>2. UNCHANGED <<feedTime, matcherVars>> /\ UNCHANGED executions
  BY DEF BeginQuotes, ReadQuotes, ReadExecutions, ReadTicker, matcherVars
<1>3. FeedTypes' /\ FeedNumbers'
  BY <1>1, <1>2, FeedKeeps
<1>4. CASE BeginQuotes
  <2>1. UNCHANGED <<tapeReader, ticker>>
        /\ quoteReader' = [after |-> 0, got |-> {}, from |-> Standing, done |-> FALSE]
    BY <1>4 DEF BeginQuotes, Standing
  <2>2. Standing \subseteq 1..Len(records)
    BY <1>1 DEF Standing, LiveQuotes, FeedNumbers
  <2>3. Standing' = Standing /\ records' = records
    BY <1>2 DEF matcherVars, Standing, LiveQuotes, Unexpired
  <2>4. WalkSound'
    BY <1>1, <2>1, <2>2, <2>3 DEF WalkSound, FeedTypes
  <2>5. TapeSound' /\ (ticker # None => TickerSound')
    BY <1>1, <1>2, <2>1, FeedKeeps
  <2>. QED  BY <1>3, <2>1, <2>4, <2>5 DEF FeedInv
<1>5. CASE ReadQuotes
  <2>1. UNCHANGED <<tapeReader, ticker>> /\ quoteReader # None
    BY <1>5 DEF ReadQuotes
  <2>2. WalkSound'
    BY <1>1, <1>5, <2>1, WalkGoesOn
  <2>3. TapeSound' /\ (ticker # None => TickerSound')
    BY <1>1, <1>2, <2>1, FeedKeeps
  <2>. QED  BY <1>3, <2>1, <2>2, <2>3 DEF FeedInv
<1>6. CASE ReadExecutions
  <2>1. UNCHANGED <<quoteReader, ticker>>
    BY <1>6 DEF ReadExecutions
  <2>2. TapeSound'
    BY <1>1, <1>6, TapeGoesOn
  <2>3. (quoteReader # None => WalkSound') /\ (ticker # None => TickerSound')
    BY <1>1, <1>2, <2>1, FeedKeeps
  <2>. QED  BY <1>3, <2>1, <2>2, <2>3 DEF FeedInv
<1>7. CASE ReadTicker
  <2>1. UNCHANGED <<quoteReader, tapeReader>>
    BY <1>7 DEF ReadTicker
  <2>2. PICK trades, depth : trades = PublicTrades(TickerTrades) /\ ticker' = PublicTicker(trades, depth)
    BY <1>7 DEF ReadTicker
  <2>3. /\ ticker'.at = feedTime /\ ticker'.sequence = Len(records)
        /\ ~ticker'.truncated => ticker'.volume = DayVolume
    BY <1>1, <2>2, TickerCounts
  <2>4. DayVolume' = DayVolume /\ UNCHANGED <<feedTime, records>>
    BY <1>2 DEF matcherVars, DayVolume
  <2>5. feedTime \in Nat /\ Len(records) \in Nat
    BY <1>1 DEF FeedTypes
  <2>6. TickerSound'
    BY <2>3, <2>4, <2>5 DEF TickerSound
  <2>7. TapeSound' /\ (quoteReader # None => WalkSound')
    BY <1>1, <1>2, <2>1, FeedKeeps
  <2>. QED  BY <1>3, <2>1, <2>6, <2>7 DEF FeedInv
<1>. QED  BY <1>4, <1>5, <1>6, <1>7

\* What is promised of each reader is what is promised to all.
LEMMA FeedMeans == ASSUME FeedInv PROVE ReadersMissNothing
<1>1. FeedTypes /\ TapeSound
  BY DEF FeedInv
<1>2. IsPrefix(tapeReader.got, executions)
  <2>1. tapeReader.got \in Seq(Ended) /\ executions \in Seq(Ended)
    BY <1>1 DEF FeedTypes, TapeSound
  <2>2. Len(tapeReader.got) <= Len(executions)
        /\ \A i \in 1..Len(tapeReader.got) : tapeReader.got[i] = executions[i]
    BY <1>1 DEF TapeSound
  <2>. QED  BY <2>1, <2>2, PrefixPointwise
<1>3. ASSUME quoteReader # None, quoteReader.done, NEW q \in LiveQuotes,
             q.sequence \in quoteReader.from
      PROVE  q.sequence \in quoteReader.got
  BY <1>3 DEF FeedInv, WalkSound, Standing
<1>4. ASSUME ticker # None, ticker.at = feedTime, ticker.sequence = Len(records), ~ticker.truncated
      PROVE  ticker.volume = DayVolume
  BY <1>4 DEF FeedInv, TickerSound
<1>. QED  BY <1>2, <1>3, <1>4 DEF ReadersMissNothing

\* A reader of the public feeds misses nothing and is told nothing twice, though
\* the matcher moves between any two pages, and a ticker that does not say it left
\* fills out has counted every fill of the day (matcher-feeds.ts and the public
\* endpoints of the matcher server).
THEOREM FeedsMissNothing == FeedSpec => []ReadersMissNothing
<1>1. FeedInit => FeedInv
  BY FeedStart
<1>2. FeedInv /\ [FeedNext]_feedVars => FeedInv'
  <2>1. CASE UNCHANGED feedVars
    <3>1. UNCHANGED <<feedTime, matcherVars>> /\ UNCHANGED <<quoteReader, tapeReader, ticker>>
          /\ UNCHANGED executions
      BY <2>1 DEF feedVars, matcherVars
    <3>. QED  BY <3>1, FeedKeeps DEF FeedInv
  <2>2. CASE FeedNext
    BY <2>2, FeedsAssumption, MoveKeepsFeeds, TickKeepsFeeds, ReadersKeepFeeds DEF FeedNext
  <2>. QED  BY <2>1, <2>2
<1>3. FeedInv => ReadersMissNothing
  BY FeedMeans
<1>. QED  BY <1>1, <1>2, <1>3, PTL DEF FeedSpec
=============================================================================
