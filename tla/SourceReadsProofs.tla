------------------------- MODULE SourceReadsProofs --------------------------
(***************************************************************************)
(* Proofs about the reading of source files, for any files, downloads and  *)
(* bounds.                                                                 *)
(*                                                                         *)
(* HashInv is about the pool and the requests that wait for its digests:   *)
(* a worker that has read blocks of another version finds the file changed *)
(* at the end, because no version comes back.  StreamInv is about the      *)
(* downloads: their slots, and what they have sent, as long as no edit     *)
(* fell into the stream.  ArchiveInv follows what an archive was asked for *)
(* through its stats and its entries: each source is still to come, is     *)
(* packed as registered, or has changed for good.                          *)
(***************************************************************************)
EXTENDS SourceReads, FiniteSetTheorems, SequenceTheorems, TLAPS

RoomInv == room \in [live : BOOLEAN, event : Nat] /\ log \subseteq Nat /\ up \in BOOLEAN

DiskInv == disk \in [Files -> Versions]

ItemsInv ==
  /\ items \in Seq(Item) /\ Len(items) + Len(add.parts) <= MaxItems
  /\ \A i \in DOMAIN items : items[i].digest = Whole(items[i].version)

\* The tasks: queued ones wait for a worker, and nothing is computed twice.
QueuesOK(tasks, busy) ==
  /\ tasks \in Seq(Keys) /\ busy \subseteq Keys /\ IsFiniteSet(busy)
  /\ Cardinality(busy) <= MaxWorkers
  /\ tasks # <<>> => Cardinality(busy) = MaxWorkers
  /\ IsInjective(tasks) /\ ToSet(tasks) \intersect busy = {}

\* What a worker has read, as long as the file is as registered.
Clean(key, blocks) ==
  /\ blocks \in Blocks
  /\ blocks # <<>> => disk[key[1]] >= key[2]
  /\ disk[key[1]] = key[2] => \A b \in DOMAIN blocks : blocks[b] = key[2]

WorkersInv ==
  /\ workers = [key \in DOMAIN workers |-> workers[key]]
  /\ \A key \in DOMAIN workers : Clean(key, workers[key])

CacheInv ==
  /\ cache \in Seq([key : Keys, digest : Blocks])
  /\ \A n \in DOMAIN cache : cache[n].digest = Whole(cache[n].key[2])

AddInv ==
  /\ add \in [busy : BOOLEAN, copy : Nat, parts : Seq(Part)]
  /\ \A k \in DOMAIN add.parts :
       LET part == add.parts[k]
       IN  /\ part.step = "wait" => <<part.file, part.version>> \in InFlight
           /\ part.step = "done" => part.digest = Whole(part.version)

HashInv ==
  /\ RoomInv /\ DiskInv /\ ItemsInv /\ AddInv /\ CacheInv
  /\ QueuesOK(queue, DOMAIN workers) /\ WorkersInv

\* The records of downloads that name known items.
Requests(known) ==
  [step : {"idle", "stat", "stream", "prepare", "verify", "closing"},
   todo : Seq(known), kept : Seq(known), archive : BOOLEAN, copy : Nat,
   sent : Blocks, slot : BOOLEAN, edited : BOOLEAN,
   wanted : SUBSET known, packed : SUBSET (known \X Blocks)]

\* What a download has sent of a source is of the registered version, and so
\* is the file while it streams, unless it was edited meanwhile.
Unmixed(request) ==
  LET item == items[Head(request.todo)]
  IN  request.step \in {"stat", "stream"} /\ ~ request.archive
        /\ item.source /\ ~ request.edited
      => /\ \A b \in DOMAIN request.sent : request.sent[b] = item.version
         /\ request.step = "stream" => disk[item.file] = item.version

Sound(request) ==
  /\ request \in Requests(DOMAIN items)
  /\ request.step \in {"stat", "stream", "verify"} => request.todo # <<>>
  /\ request.slot <=> request.step \in {"stream", "verify"}
  /\ request.step = "stat" => ~ request.archive
  /\ request.step \in {"prepare", "verify"} => request.archive
  /\ Unmixed(request)

DownloadsInv ==
  dl = [d \in Downloads |-> dl[d]] /\ \A d \in Downloads : Sound(dl[d])

Open == {d \in Downloads : dl[d].slot}

SlotsInv == IsFiniteSet(Open) /\ reads = Cardinality(Open) /\ reads <= MaxReads

\* What a browser has is of a known item, and of one version.
SoundCopy(part) ==
  /\ part \in [item : {0} \union DOMAIN items, blocks : Blocks, edited : BOOLEAN]
  /\ part.item # 0 /\ items[part.item].source /\ ~ part.edited =>
       \A b \in DOMAIN part.blocks : part.blocks[b] = items[part.item].version

ClientInv ==
  have = [d \in Downloads |-> have[d]] /\ \A d \in Downloads : SoundCopy(have[d])

StreamInv == DownloadsInv /\ SlotsInv /\ ClientInv

SourceInv == HashInv /\ StreamInv

\* No item, and no part that may become one, is of a version yet to come.
FreshInv ==
  /\ \A i \in DOMAIN items : items[i].version <= disk[items[i].file]
  /\ \A k \in DOMAIN add.parts : add.parts[k].version <= disk[add.parts[k].file]

\* What is packed is what was registered.
PackedRight(packed) == \A e \in packed : e[2] = items[e[1]].digest

\* A wanted source is still to come, has changed, or is packed.
Covered(wanted, left, packed) ==
  \A i \in wanted : i \in left \/ Changed(items[i]) \/ \E e \in packed : e[1] = i

Left(request) ==
  ToSet(request.todo) \union (IF request.step = "prepare" THEN ToSet(request.kept) ELSE {})

Packing(request) ==
  /\ PackedRight(request.packed)
  /\ Covered(request.wanted, Left(request), request.packed)

Complete(a) ==
  /\ a \in [wanted : SUBSET (DOMAIN items), packed : SUBSET ((DOMAIN items) \X Blocks)]
  /\ PackedRight(a.packed) /\ Covered(a.wanted, {}, a.packed)

ArchiveInv ==
  /\ FreshInv
  /\ \A d \in Downloads : Packing(dl[d])
  /\ \A a \in archived : Complete(a)

-----------------------------------------------------------------------------
(* Blocks.                                                                  *)

\* Blocks are the sequences of versions that are no longer than a file.
LEMMA BlocksAreSeqs ==
  ASSUME NEW s
  PROVE  s \in Blocks <=> s \in Seq(Versions) /\ Len(s) <= Size
<1>1. ASSUME s \in Blocks
      PROVE  s \in Seq(Versions) /\ Len(s) <= Size
  <2>1. PICK n \in 0 .. Size : s \in [1 .. n -> Versions]
    BY <1>1 DEF Blocks
  <2> QED
    BY <2>1, SourceBounds
<1>2. ASSUME s \in Seq(Versions), Len(s) <= Size
      PROVE  s \in Blocks
  <2>1. Len(s) \in 0 .. Size /\ s \in [1 .. Len(s) -> Versions]
    BY <1>2, SourceBounds
  <2> QED
    BY <2>1 DEF Blocks
<1> QED
  BY <1>1, <1>2

\* Nothing is blocks; one more version makes blocks until a file is full; a
\* beginning of blocks is blocks.
LEMMA BlocksBuilt ==
  /\ <<>> \in Blocks
  /\ \A s \in Blocks, v \in Versions :
       Len(s) < Size => /\ Append(s, v) \in Blocks
                        /\ Append(s, v) # <<>>
                        /\ DOMAIN Append(s, v) = 1 .. Len(s) + 1
                        /\ Append(s, v)[Len(s) + 1] = v
                        /\ \A b \in DOMAIN s : Append(s, v)[b] = s[b]
  /\ \A s \in Blocks : DOMAIN s = 1 .. Len(s) /\ Len(s) \in 0 .. Size
<1>1. <<>> \in Blocks
  <2>1. <<>> \in Seq(Versions) /\ Len(<<>>) <= Size
    BY SourceBounds
  <2>2. \A s : s \in Seq(Versions) /\ Len(s) <= Size => s \in Blocks
    BY BlocksAreSeqs
  <2> HIDE DEF Blocks
  <2> QED
    BY <2>1, <2>2, Zenon
<1>2. ASSUME NEW s \in Blocks, NEW v \in Versions, Len(s) < Size
      PROVE  /\ Append(s, v) \in Blocks
             /\ Append(s, v) # <<>>
             /\ DOMAIN Append(s, v) = 1 .. Len(s) + 1
             /\ Append(s, v)[Len(s) + 1] = v
             /\ \A b \in DOMAIN s : Append(s, v)[b] = s[b]
  <2>1. s \in Seq(Versions) /\ Len(s) \in Nat
    BY BlocksAreSeqs
  <2>2. Append(s, v) \in Seq(Versions) /\ Len(Append(s, v)) = Len(s) + 1
    BY <2>1
  <2>3. Len(s) + 1 <= Size
    BY <1>2, <2>1, SourceBounds
  <2>4. Append(s, v) \in Blocks
    BY <2>2, <2>3, BlocksAreSeqs
  <2> QED
    BY <2>1, <2>2, <2>4
<1>3. \A s \in Blocks : DOMAIN s = 1 .. Len(s) /\ Len(s) \in 0 .. Size
  <2> SUFFICES ASSUME NEW s \in Blocks
               PROVE  DOMAIN s = 1 .. Len(s) /\ Len(s) \in 0 .. Size
    OBVIOUS
  <2>1. s \in Seq(Versions) /\ Len(s) <= Size
    BY BlocksAreSeqs
  <2> QED
    BY <2>1, SourceBounds
<1> QED
  BY <1>1, <1>2, <1>3

\* A whole version is blocks, and so are blocks of one version as long as a file.
LEMMA WholeBlocks ==
  /\ \A v \in Versions : Whole(v) \in Blocks
  /\ \A s \in Blocks, v \in Versions :
       Len(s) = Size /\ (\A b \in DOMAIN s : s[b] = v) => s = Whole(v)
<1>1. ASSUME NEW v \in Versions
      PROVE  Whole(v) \in Blocks
  <2>1. Whole(v) \in [1 .. Size -> Versions] /\ Size \in 0 .. Size
    BY SourceBounds DEF Whole
  <2> QED
    BY <2>1 DEF Blocks
<1>2. ASSUME NEW s \in Blocks, NEW v \in Versions, Len(s) = Size,
             \A b \in DOMAIN s : s[b] = v
      PROVE  s = Whole(v)
  <2>1. s \in [1 .. Size -> Versions]
    BY <1>2, BlocksAreSeqs
  <2> QED
    BY <1>2, <2>1 DEF Whole
<1> QED
  BY <1>1, <1>2

-----------------------------------------------------------------------------
(* The pool.                                                                *)

\* What a task list looks like without its first task, and with one more.
LEMMA TasksMove ==
  ASSUME NEW tasks \in Seq(Keys), IsInjective(tasks)
  PROVE  /\ tasks # <<>> =>
              /\ Tail(tasks) \in Seq(Keys) /\ IsInjective(Tail(tasks))
              /\ Head(tasks) \in ToSet(tasks) /\ Head(tasks) \in Keys
              /\ ToSet(Tail(tasks)) = ToSet(tasks) \ {Head(tasks)}
         /\ \A key \in Keys \ ToSet(tasks) :
              /\ Append(tasks, key) \in Seq(Keys) /\ IsInjective(Append(tasks, key))
              /\ ToSet(Append(tasks, key)) = ToSet(tasks) \union {key}
              /\ Append(tasks, key) # <<>>
<1>1. ASSUME tasks # <<>>
      PROVE  /\ Tail(tasks) \in Seq(Keys) /\ IsInjective(Tail(tasks))
             /\ Head(tasks) \in ToSet(tasks) /\ Head(tasks) \in Keys
             /\ ToSet(Tail(tasks)) = ToSet(tasks) \ {Head(tasks)}
  <2>1. /\ Tail(tasks) \in Seq(Keys) /\ Len(Tail(tasks)) = Len(tasks) - 1
        /\ \A i \in 1 .. Len(tasks) - 1 : Tail(tasks)[i] = tasks[i + 1]
        /\ Len(tasks) \in Nat \ {0} /\ Head(tasks) = tasks[1]
        /\ DOMAIN tasks = 1 .. Len(tasks) /\ DOMAIN Tail(tasks) = 1 .. Len(tasks) - 1
    BY <1>1
  <2>2. \A a, b \in 1 .. Len(tasks) : tasks[a] = tasks[b] => a = b
    BY <2>1 DEF IsInjective
  <2>3. IsInjective(Tail(tasks))
    <3> SUFFICES ASSUME NEW a \in 1 .. Len(tasks) - 1, NEW b \in 1 .. Len(tasks) - 1,
                        Tail(tasks)[a] = Tail(tasks)[b]
                 PROVE  a = b
      BY <2>1 DEF IsInjective
    <3>1. a + 1 \in 1 .. Len(tasks) /\ b + 1 \in 1 .. Len(tasks)
          /\ tasks[a + 1] = tasks[b + 1]
      BY <2>1
    <3> QED
      BY <2>2, <3>1
  <2>4. ASSUME NEW x \in ToSet(tasks) \ {Head(tasks)}
        PROVE  x \in ToSet(Tail(tasks))
    <3>1. PICK i \in 1 .. Len(tasks) : x = tasks[i]
      BY <2>1 DEF ToSet
    <3>2. i - 1 \in 1 .. Len(tasks) - 1 /\ Tail(tasks)[i - 1] = x
      BY <2>1, <2>4, <3>1
    <3> QED
      BY <2>1, <3>2 DEF ToSet
  <2>5. ASSUME NEW x \in ToSet(Tail(tasks))
        PROVE  x \in ToSet(tasks) \ {Head(tasks)}
    <3>1. PICK i \in 1 .. Len(tasks) - 1 : x = Tail(tasks)[i]
      BY <2>1 DEF ToSet
    <3>2. i + 1 \in 1 .. Len(tasks) /\ x = tasks[i + 1] /\ i + 1 # 1 /\ 1 \in 1 .. Len(tasks)
      BY <2>1, <3>1
    <3> QED
      BY <2>1, <2>2, <3>2 DEF ToSet
  <2>6. Head(tasks) \in ToSet(tasks) /\ Head(tasks) \in Keys
    BY <2>1 DEF ToSet
  <2> QED
    BY <2>1, <2>3, <2>4, <2>5, <2>6
<1>2. ASSUME NEW key \in Keys \ ToSet(tasks)
      PROVE  /\ Append(tasks, key) \in Seq(Keys) /\ IsInjective(Append(tasks, key))
             /\ ToSet(Append(tasks, key)) = ToSet(tasks) \union {key}
             /\ Append(tasks, key) # <<>>
  <2>1. /\ Append(tasks, key) \in Seq(Keys)
        /\ DOMAIN tasks = 1 .. Len(tasks) /\ Len(tasks) \in Nat
        /\ DOMAIN Append(tasks, key) = 1 .. Len(tasks) + 1
        /\ \A i \in 1 .. Len(tasks) : Append(tasks, key)[i] = tasks[i]
        /\ Append(tasks, key)[Len(tasks) + 1] = key
    OBVIOUS
  <2>2. \A i \in 1 .. Len(tasks) : tasks[i] # key
    BY <2>1 DEF ToSet
  <2>3. IsInjective(Append(tasks, key))
    BY <2>1, <2>2 DEF IsInjective
  <2>4. ToSet(Append(tasks, key)) = ToSet(tasks) \union {key}
    BY <2>1 DEF ToSet
  <2> QED
    BY <2>1, <2>3, <2>4
<1> QED
  BY <1>1, <1>2

\* drain() starts the first task when a worker is free: nothing is lost, and
\* what waits then waits beside busy workers.
LEMMA DrainedFacts ==
  ASSUME NEW tasks \in Seq(Keys), NEW busy, IsInjective(tasks),
         busy = [key \in DOMAIN busy |-> busy[key]],
         DOMAIN busy \subseteq Keys, IsFiniteSet(DOMAIN busy),
         Cardinality(DOMAIN busy) <= MaxWorkers,
         ToSet(tasks) \intersect DOMAIN busy = {},
         Len(tasks) <= 1 \/ Cardinality(DOMAIN busy) >= MaxWorkers - 1,
         Drained(tasks, busy)
  PROVE  /\ QueuesOK(queue', DOMAIN workers')
         /\ ToSet(queue') \union DOMAIN workers' = ToSet(tasks) \union DOMAIN busy
         /\ workers' = [key \in DOMAIN workers' |-> workers'[key]]
         /\ \A key \in DOMAIN workers' :
              \/ key \in DOMAIN busy /\ workers'[key] = busy[key]
              \/ workers'[key] = <<>>
<1>1. Cardinality(DOMAIN busy) \in Nat
  BY FS_CardinalityType
<1>2. CASE tasks # <<>> /\ Cardinality(DOMAIN busy) < MaxWorkers
  <2> DEFINE first == Head(tasks)
  <2>1. /\ Tail(tasks) \in Seq(Keys) /\ IsInjective(Tail(tasks))
        /\ first \in ToSet(tasks) /\ first \in Keys
        /\ ToSet(Tail(tasks)) = ToSet(tasks) \ {first}
    BY <1>2, TasksMove
  <2>2. /\ queue' = Tail(tasks)
        /\ workers' = [key \in DOMAIN busy \union {first} |->
                         IF key \in DOMAIN busy THEN busy[key] ELSE <<>>]
    BY <1>2 DEF Drained
  <2>3. DOMAIN workers' = DOMAIN busy \union {first} /\ first \notin DOMAIN busy
    BY <2>1, <2>2
  <2>4. /\ IsFiniteSet(DOMAIN workers')
        /\ Cardinality(DOMAIN workers') = Cardinality(DOMAIN busy) + 1
    BY <2>3, FS_AddElement
  <2>5. Cardinality(DOMAIN workers') <= MaxWorkers
    BY <1>1, <1>2, <2>4, SourceBounds
  <2>6. Tail(tasks) # <<>> => Len(tasks) > 1
    BY <1>2
  <2>7. queue' # <<>> => Cardinality(DOMAIN workers') = MaxWorkers
    BY <1>1, <1>2, <2>2, <2>4, <2>6, SourceBounds
  <2>8. QueuesOK(queue', DOMAIN workers')
    BY <2>1, <2>2, <2>3, <2>4, <2>5, <2>7 DEF QueuesOK
  <2>9. ToSet(queue') \union DOMAIN workers' = ToSet(tasks) \union DOMAIN busy
    BY <2>1, <2>2, <2>3
  <2> QED
    BY <2>2, <2>3, <2>8, <2>9
<1>3. CASE ~ (tasks # <<>> /\ Cardinality(DOMAIN busy) < MaxWorkers)
  <2>1. queue' = tasks /\ workers' = busy
    BY <1>3 DEF Drained
  <2>2. tasks # <<>> => Cardinality(DOMAIN busy) = MaxWorkers
    BY <1>1, <1>3, SourceBounds
  <2>3. QueuesOK(queue', DOMAIN workers')
    BY <2>1, <2>2 DEF QueuesOK
  <2> QED
    BY <2>1, <2>3
<1> QED
  BY <1>2, <1>3

\* A worker that ends makes room for the next task.
LEMMA AfterWorkerFacts ==
  ASSUME HashInv, NEW key \in DOMAIN workers, AfterWorker(key)
  PROVE  /\ QueuesOK(queue', DOMAIN workers')
         /\ InFlight' = InFlight \ {key}
         /\ workers' = [other \in DOMAIN workers' |-> workers'[other]]
         /\ \A other \in DOMAIN workers' :
              \/ other \in DOMAIN workers /\ workers'[other] = workers[other]
              \/ workers'[other] = <<>>
<1> DEFINE busy == Without(key)
<1>1. DOMAIN busy = DOMAIN workers \ {key} /\ busy = [other \in DOMAIN busy |-> busy[other]]
      /\ \A other \in DOMAIN busy : busy[other] = workers[other]
  BY DEF Without
<1>2. QueuesOK(queue, DOMAIN workers)
  BY DEF HashInv
<1>3. /\ IsFiniteSet(DOMAIN busy)
      /\ Cardinality(DOMAIN busy) = Cardinality(DOMAIN workers) - 1
      /\ Cardinality(DOMAIN workers) \in Nat
  BY <1>1, <1>2, FS_RemoveElement, FS_CardinalityType DEF QueuesOK
<1>4. Len(queue) <= 1 \/ Cardinality(DOMAIN busy) >= MaxWorkers - 1
  BY <1>2, <1>3, SourceBounds DEF QueuesOK
<1>5. Cardinality(DOMAIN busy) <= MaxWorkers
  BY <1>2, <1>3, SourceBounds DEF QueuesOK
<1>6. Drained(queue, busy)
  BY DEF AfterWorker
<1> HIDE DEF busy
<1>7. /\ QueuesOK(queue', DOMAIN workers')
      /\ ToSet(queue') \union DOMAIN workers' = ToSet(queue) \union DOMAIN busy
      /\ workers' = [other \in DOMAIN workers' |-> workers'[other]]
      /\ \A other \in DOMAIN workers' :
           \/ other \in DOMAIN busy /\ workers'[other] = busy[other]
           \/ workers'[other] = <<>>
  BY <1>1, <1>2, <1>3, <1>4, <1>5, <1>6, DrainedFacts DEF QueuesOK
<1>8. key \notin ToSet(queue)
  BY <1>2 DEF QueuesOK
<1> QED
  BY <1>1, <1>7, <1>8 DEF InFlight

\* Files that have not changed leave what the workers have read clean.
LEMMA WorkersStayClean ==
  ASSUME HashInv, disk' = disk,
         workers' = [key \in DOMAIN workers' |-> workers'[key]],
         DOMAIN workers' \subseteq Keys,
         \A key \in DOMAIN workers' :
           \/ key \in DOMAIN workers /\ workers'[key] = workers[key]
           \/ workers'[key] = <<>>
  PROVE  WorkersInv'
<1>1. \A key \in DOMAIN workers' : Clean(key, workers'[key])
  BY BlocksBuilt DEF HashInv, WorkersInv, Clean
<1> QED
  BY <1>1 DEF WorkersInv, Clean

\* A step that leaves files, items, requests and pool alone keeps HashInv.
LEMMA HashSame ==
  ASSUME HashInv, UNCHANGED <<disk, items, add, pool>>, RoomInv'
  PROVE  HashInv'
BY DEF HashInv, DiskInv, ItemsInv, AddInv, CacheInv, WorkersInv, Clean, InFlight, pool

\* Publishing keeps the types of the room.
LEMMA PublishKeepsRoom ==
  ASSUME RoomInv, NEW copy \in Nat, Published(copy) \/ Refused(copy), up' \in BOOLEAN
  PROVE  RoomInv'
BY DEF RoomInv, Published, Refused

-----------------------------------------------------------------------------
(* Steps of the pool and of addSourceFiles.                                 *)

\* A file that is saved gets a version that it never had: what a worker has
\* read of the old one will not pass for it.
LEMMA EditKeepsHash ==
  ASSUME HashInv, NEW f \in Files, NEW version \in Versions, Edit(f, version)
  PROVE  HashInv'
<1>1. /\ disk' = [disk EXCEPT ![f] = version] /\ disk[f] < version
      /\ UNCHANGED <<items, room, log, add, queue, workers, cache, up>>
  BY DEF Edit, store, pool
<1>2. disk \in [Files -> Versions] /\ DiskInv'
  BY <1>1 DEF HashInv, DiskInv
<1>3. \A g \in Files : /\ disk[g] \in Int /\ disk'[g] \in Int /\ disk'[g] >= disk[g]
                       /\ disk'[g] # disk[g] => disk'[g] > disk[g]
  BY <1>1, <1>2 DEF Versions
<1>4. ASSUME NEW key \in DOMAIN workers
      PROVE  Clean(key, workers[key])'
  <2>1. Clean(key, workers[key]) /\ key[1] \in Files /\ key[2] \in Int
    BY DEF HashInv, WorkersInv, QueuesOK, Keys, Versions
  <2>2. CASE workers[key] = <<>>
    BY <1>1, <2>1, <2>2 DEF Clean
  <2>3. CASE workers[key] # <<>>
    <3>1. disk[key[1]] >= key[2] /\ disk[key[1]] \in Int /\ disk'[key[1]] \in Int
          /\ disk'[key[1]] >= disk[key[1]]
      BY <1>3, <2>1, <2>3 DEF Clean
    <3>2. disk'[key[1]] = key[2] => disk[key[1]] = key[2]
      BY <2>1, <3>1
    <3>3. disk'[key[1]] >= key[2]
      BY <2>1, <3>1
    <3> QED
      BY <1>1, <2>1, <3>2, <3>3 DEF Clean
  <2> QED
    BY <2>2, <2>3
<1>5. WorkersInv'
  BY <1>1, <1>4 DEF HashInv, WorkersInv
<1> QED
  BY <1>1, <1>2, <1>5
     DEF HashInv, RoomInv, ItemsInv, AddInv, CacheInv, InFlight

\* Registering files: every part is still to be looked at.
LEMMA AddFilesKeepsHash ==
  ASSUME HashInv, NEW files \in BoundedSeq(Files, 2), AddFiles(files)
  PROVE  HashInv'
<1>1. files \in Seq(Files) /\ DOMAIN files = 1 .. Len(files) /\ Len(files) \in Nat
  <2>1. PICK m \in 0 .. 2 : files \in [1 .. m -> Files]
    BY DEF BoundedSeq, SeqOf
  <2> QED
    BY <2>1
<1> DEFINE parts == [k \in DOMAIN files |->
                       [file |-> files[k], version |-> 0, digest |-> <<>>, step |-> "stat"]]
<1>2. /\ add' = [busy |-> TRUE, copy |-> room.event, parts |-> parts]
      /\ Len(items) + Len(files) <= MaxItems
      /\ UNCHANGED <<disk, items, room, log, queue, workers, cache, up>>
  BY DEF AddFiles, store, pool
<1>3. 0 \in Versions /\ <<>> \in Blocks
  BY BlocksBuilt, SourceBounds DEF Versions
<1>4. parts \in Seq(Part) /\ Len(parts) = Len(files) /\ DOMAIN parts = DOMAIN files
  BY <1>1, <1>3 DEF Part
<1>5. AddInv'
  BY <1>2, <1>4 DEF HashInv, RoomInv, AddInv
<1>6. ItemsInv'
  BY <1>2, <1>4 DEF HashInv, ItemsInv
<1> QED
  BY <1>2, <1>5, <1>6
     DEF HashInv, RoomInv, DiskInv, CacheInv, WorkersInv, Clean

\* The request that is answered or given up leaves its tasks to the pool.
LEMMA IdleKeepsHash ==
  ASSUME HashInv, add' = Idle, UNCHANGED <<disk, items, pool>>, RoomInv'
  PROVE  HashInv'
<1>1. Idle \in [busy : BOOLEAN, copy : Nat, parts : Seq(Part)] /\ Idle.parts = <<>>
  BY DEF Idle
<1>2. AddInv' /\ Len(add'.parts) = 0
  BY <1>1 DEF AddInv
<1>3. ItemsInv'
  <2>1. /\ items \in Seq(Item) /\ add.parts \in Seq(Part)
        /\ Len(items) + Len(add.parts) <= MaxItems
    BY DEF HashInv, ItemsInv, AddInv
  <2>2. Len(items) \in Nat /\ Len(add.parts) \in Nat
    BY <2>1
  <2>3. Len(items) + 0 <= MaxItems
    BY <2>1, <2>2, SourceBounds
  <2> QED
    BY <1>2, <2>3 DEF HashInv, ItemsInv
<1> QED
  BY <1>2, <1>3 DEF HashInv, DiskInv, CacheInv, WorkersInv, Clean, pool

\* What a part becomes when its digest is there, or is waited for.
LEMMA HashedFacts ==
  ASSUME HashInv, NEW k \in DOMAIN add.parts, NEW step \in {"wait", "done", "failed"},
         NEW digest \in Blocks, Hashed(k, step, digest)
  PROVE  /\ add' \in [busy : BOOLEAN, copy : Nat, parts : Seq(Part)]
         /\ Len(add'.parts) = Len(add.parts) /\ DOMAIN add'.parts = DOMAIN add.parts
         /\ add'.parts[k] = [file |-> add.parts[k].file, version |-> disk[add.parts[k].file],
                             digest |-> digest, step |-> step]
         /\ \A j \in DOMAIN add.parts \ {k} : add'.parts[j] = add.parts[j]
         /\ KeyOf(add.parts[k]) \in Keys
<1>1. /\ add \in [busy : BOOLEAN, copy : Nat, parts : Seq(Part)]
      /\ add.parts[k] \in Part /\ disk \in [Files -> Versions]
  BY DEF HashInv, AddInv, DiskInv
<1> DEFINE part == [file |-> add.parts[k].file, version |-> disk[add.parts[k].file],
                    digest |-> digest, step |-> step]
<1>2. part \in Part
  <2>1. disk[add.parts[k].file] \in Versions
    BY <1>1 DEF Part
  <2> QED
    BY <1>1, <2>1 DEF Part
<1>3. add' = [add EXCEPT !.parts[k] = part]
  BY DEF Hashed
<1> HIDE DEF part
<1>4. add'.parts = [add.parts EXCEPT ![k] = part] /\ add'.busy = add.busy
      /\ add' = [busy |-> add'.busy, copy |-> add'.copy, parts |-> add'.parts]
      /\ add'.copy = add.copy
  BY <1>1, <1>3
<1>5. add'.parts \in Seq(Part) /\ Len(add'.parts) = Len(add.parts)
      /\ DOMAIN add'.parts = DOMAIN add.parts
  BY <1>1, <1>2, <1>4
<1> QED
  BY <1>1, <1>2, <1>4, <1>5 DEF KeyOf, Keys, Part, part

\* An element of a sequence that moves to its end: nothing new comes in.
LEMMA MovedToTheEnd ==
  ASSUME NEW S, NEW s \in Seq(S), NEW n \in 1 .. Len(s)
  PROVE  LET moved == Append(RemoveAt(s, n), s[n])
         IN  /\ moved \in Seq(S)
             /\ \A i \in DOMAIN moved : \E j \in DOMAIN s : moved[i] = s[j]
<1>0. Len(s) \in Nat /\ n \in Nat \ {0} /\ n <= Len(s)
  OBVIOUS
<1>1. Len(s) \in Nat /\ DOMAIN s = 1 .. Len(s) /\ s[n] \in S /\ n \in Nat \ {0}
      /\ \A i \in 1 .. Len(s) : s[i] \in S
  OBVIOUS
<1> DEFINE left == SubSeq(s, 1, n - 1)
           right == SubSeq(s, n + 1, Len(s))
           both == left \o right
<1>2. /\ left \in Seq(S) /\ Len(left) = n - 1
      /\ \A i \in 1 .. n - 1 : left[i] = s[i]
  <2>1. left = [i \in 1 .. n - 1 |-> s[i]]
    BY <1>1
  <2>2. \A i \in 1 .. n - 1 : s[i] \in S
    BY <1>1
  <2> QED
    BY <1>1, <2>1, <2>2
<1>3. /\ right \in Seq(S) /\ Len(right) = Len(s) - n
      /\ \A i \in 1 .. Len(s) - n : right[i] = s[n + i]
  <2>1. Len(s) - n \in Nat /\ \A i \in 1 .. Len(s) - n : s[n + i] \in S
    BY <1>1
  <2>2. right = [i \in 1 .. Len(s) - n |-> s[n + i]]
    BY <1>1
  <2> QED
    BY <2>1, <2>2
<1> HIDE DEF left, right
<1>4. /\ both \in Seq(S) /\ Len(both) = Len(s) - 1
      /\ \A i \in 1 .. n - 1 : both[i] = left[i]
      /\ \A i \in n .. Len(s) - 1 : both[i] = right[i - (n - 1)]
  <2>1. left \in Seq(S) /\ right \in Seq(S) /\ Len(left) = n - 1 /\ Len(right) = Len(s) - n
    BY <1>2, <1>3
  <2>2. both \in Seq(S) /\ Len(both) = Len(left) + Len(right)
    BY <2>1
  <2>3. Len(both) = Len(s) - 1
    BY <1>0, <2>1, <2>2
  <2>4. \A i \in 1 .. Len(left) : both[i] = left[i]
    BY <2>1
  <2>5. \A i \in Len(left) + 1 .. Len(left) + Len(right) : both[i] = right[i - Len(left)]
    BY <2>1
  <2> HIDE DEF both
  <2>6. \A i \in n .. Len(s) - 1 : both[i] = right[i - (n - 1)]
    <3>1. \A i \in n .. Len(s) - 1 : i \in Len(left) + 1 .. Len(left) + Len(right)
      BY <1>0, <2>1
    <3> QED
      BY <2>1, <2>5, <3>1
  <2>7. \A i \in 1 .. n - 1 : both[i] = left[i]
    BY <2>1, <2>4
  <2> QED
    BY <2>2, <2>3, <2>6, <2>7
<1>5. \A i \in 1 .. Len(s) - 1 : \E j \in 1 .. Len(s) : both[i] = s[j]
  <2> SUFFICES ASSUME NEW i \in 1 .. Len(s) - 1
               PROVE  \E j \in 1 .. Len(s) : both[i] = s[j]
    OBVIOUS
  <2>1. CASE i < n
    <3>1. i \in 1 .. n - 1 /\ i \in 1 .. Len(s)
      BY <1>1, <2>1
    <3> QED
      BY <1>2, <1>4, <3>1
  <2>2. CASE ~ i < n
    <3>1. /\ i \in n .. Len(s) - 1 /\ i - (n - 1) \in 1 .. Len(s) - n
          /\ n + (i - (n - 1)) = i + 1 /\ i + 1 \in 1 .. Len(s)
      BY <1>1, <2>2
    <3>2. both[i] = right[i - (n - 1)] /\ right[i - (n - 1)] = s[n + (i - (n - 1))]
      BY <1>3, <1>4, <3>1
    <3> QED
      BY <3>1, <3>2
  <2> QED
    BY <2>1, <2>2
<1>6. RemoveAt(s, n) = both
  BY DEF RemoveAt, left, right
<1> HIDE DEF both
<1>7. /\ Append(both, s[n]) \in Seq(S) /\ Len(Append(both, s[n])) = Len(s)
      /\ \A i \in 1 .. Len(s) - 1 : Append(both, s[n])[i] = both[i]
      /\ Append(both, s[n])[Len(s)] = s[n]
  <2>1. both \in Seq(S) /\ s[n] \in S /\ Len(both) = Len(s) - 1
    BY <1>1, <1>4
  <2>2. /\ Append(both, s[n]) \in Seq(S) /\ Len(Append(both, s[n])) = Len(both) + 1
        /\ \A i \in 1 .. Len(both) : Append(both, s[n])[i] = both[i]
        /\ Append(both, s[n])[Len(both) + 1] = s[n]
    BY <2>1
  <2>3. Len(both) + 1 = Len(s)
    BY <1>0, <2>1
  <2> QED
    BY <2>1, <2>2, <2>3
<1>8. DOMAIN Append(both, s[n]) = 1 .. Len(s)
  BY <1>7
<1>9. ASSUME NEW i \in 1 .. Len(s)
      PROVE  \E j \in DOMAIN s : Append(both, s[n])[i] = s[j]
  <2>1. i = Len(s) \/ i \in 1 .. Len(s) - 1
    BY <1>0
  <2> QED
    BY <1>1, <1>5, <1>7, <2>1
<1> QED
  BY <1>6, <1>7, <1>8, <1>9

\* Looking at a file keeps HashInv: it hits the cache, joins a task in flight
\* or queues one.
LEMMA StatSourceKeepsHash ==
  ASSUME HashInv, NEW k \in DOMAIN add.parts, StatSource(k)
  PROVE  HashInv'
<1>1. UNCHANGED <<disk, items, room, log, up>>
  BY DEF StatSource, store
<1>2. DiskInv' /\ RoomInv'
  BY <1>1 DEF HashInv, DiskInv, RoomInv
<1>3. ASSUME CacheMiss(k)
      PROVE  HashInv'
  <2> DEFINE key == KeyOf(add.parts[k])
  <2>1. /\ add' \in [busy : BOOLEAN, copy : Nat, parts : Seq(Part)]
        /\ Len(add'.parts) = Len(add.parts) /\ DOMAIN add'.parts = DOMAIN add.parts
        /\ add'.parts[k] = [file |-> add.parts[k].file, version |-> disk[add.parts[k].file],
                            digest |-> <<>>, step |-> "wait"]
        /\ \A j \in DOMAIN add.parts \ {k} : add'.parts[j] = add.parts[j]
        /\ key \in Keys
    BY <1>3, HashedFacts, BlocksBuilt DEF CacheMiss
  <2>2. key = <<add'.parts[k].file, add'.parts[k].version>>
    BY <2>1 DEF KeyOf
  <2>3. /\ QueuesOK(queue', DOMAIN workers') /\ InFlight' = InFlight \union {key}
        /\ workers' = [other \in DOMAIN workers' |-> workers'[other]]
        /\ \A other \in DOMAIN workers' :
             \/ other \in DOMAIN workers /\ workers'[other] = workers[other]
             \/ workers'[other] = <<>>
    <3>1. CASE key \in InFlight
      <4>1. queue' = queue /\ workers' = workers
        BY <1>3, <3>1 DEF CacheMiss
      <4> QED
        BY <3>1, <4>1 DEF InFlight, HashInv, WorkersInv
    <3>2. CASE key \notin InFlight
      <4> DEFINE tasks == Append(queue, key)
      <4>1. Drained(tasks, workers)
        BY <1>3, <3>2 DEF CacheMiss
      <4>2. QueuesOK(queue, DOMAIN workers)
        BY DEF HashInv
      <4>3. /\ tasks \in Seq(Keys) /\ IsInjective(tasks)
            /\ ToSet(tasks) = ToSet(queue) \union {key}
        BY <2>1, <3>2, <4>2, TasksMove DEF InFlight, QueuesOK
      <4>4. ToSet(tasks) \intersect DOMAIN workers = {}
        BY <3>2, <4>2, <4>3 DEF InFlight, QueuesOK
      <4>5. Len(tasks) <= 1 \/ Cardinality(DOMAIN workers) >= MaxWorkers - 1
        <5>1. CASE queue = <<>>
          BY <5>1
        <5>2. CASE queue # <<>>
          BY <4>2, <5>2, SourceBounds DEF QueuesOK
        <5> QED
          BY <5>1, <5>2
      <4>6. workers = [other \in DOMAIN workers |-> workers[other]]
        BY DEF HashInv, WorkersInv
      <4> HIDE DEF tasks
      <4>7. /\ QueuesOK(queue', DOMAIN workers')
            /\ ToSet(queue') \union DOMAIN workers' = ToSet(tasks) \union DOMAIN workers
            /\ workers' = [other \in DOMAIN workers' |-> workers'[other]]
            /\ \A other \in DOMAIN workers' :
                 \/ other \in DOMAIN workers /\ workers'[other] = workers[other]
                 \/ workers'[other] = <<>>
        BY <4>1, <4>2, <4>3, <4>4, <4>5, <4>6, DrainedFacts DEF QueuesOK
      <4> QED
        BY <4>3, <4>7 DEF InFlight
    <3> QED
      BY <3>1, <3>2
  <2> HIDE DEF key
  <2>4. WorkersInv'
    BY <1>1, <2>3, WorkersStayClean DEF QueuesOK
  <2>5. AddInv'
    BY <2>1, <2>2, <2>3 DEF HashInv, AddInv
  <2>6. ItemsInv' /\ CacheInv'
    BY <1>1, <1>3, <2>1 DEF HashInv, ItemsInv, CacheInv, CacheMiss
  <2> QED
    BY <1>2, <2>3, <2>4, <2>5, <2>6 DEF HashInv
<1>4. ASSUME NEW n \in DOMAIN cache, CacheHit(k, n)
      PROVE  HashInv'
  <2> DEFINE Cached == [key : Keys, digest : Blocks]
  <2>1. /\ cache \in Seq(Cached) /\ cache[n] \in Cached
        /\ cache[n].digest = Whole(cache[n].key[2]) /\ cache[n].key = KeyOf(add.parts[k])
        /\ n \in 1 .. Len(cache)
    <3>1. cache \in Seq(Cached) /\ cache[n].digest = Whole(cache[n].key[2])
      BY <1>4 DEF HashInv, CacheInv
    <3> HIDE DEF Cached
    <3>2. DOMAIN cache = 1 .. Len(cache) /\ \A m \in 1 .. Len(cache) : cache[m] \in Cached
      BY <3>1
    <3> QED
      BY <1>4, <3>1, <3>2 DEF CacheHit
  <2>2. /\ add' \in [busy : BOOLEAN, copy : Nat, parts : Seq(Part)]
        /\ Len(add'.parts) = Len(add.parts) /\ DOMAIN add'.parts = DOMAIN add.parts
        /\ add'.parts[k] = [file |-> add.parts[k].file, version |-> disk[add.parts[k].file],
                            digest |-> cache[n].digest, step |-> "done"]
        /\ \A j \in DOMAIN add.parts \ {k} : add'.parts[j] = add.parts[j]
    BY <1>4, <2>1, HashedFacts DEF CacheHit
  <2>3. add'.parts[k].digest = Whole(add'.parts[k].version)
    BY <2>1, <2>2 DEF KeyOf
  <2>4. queue' = queue /\ workers' = workers
    BY <1>4 DEF CacheHit
  <2>5. AddInv'
    BY <2>2, <2>3, <2>4 DEF HashInv, AddInv, InFlight
  <2>6. CacheInv'
    <3>1. cache' = Append(RemoveAt(cache, n), cache[n])
      BY <1>4 DEF CacheHit
    <3>2. /\ cache' \in Seq(Cached)
          /\ \A i \in DOMAIN cache' : \E j \in DOMAIN cache : cache'[i] = cache[j]
      BY <2>1, <3>1, MovedToTheEnd
    <3> QED
      BY <3>2 DEF HashInv, CacheInv
  <2>7. ItemsInv' /\ WorkersInv'
    BY <1>1, <2>2, <2>4 DEF HashInv, ItemsInv, WorkersInv, Clean
  <2> QED
    BY <1>2, <2>4, <2>5, <2>6, <2>7 DEF HashInv
<1>5. ASSUME NoSource(k)
      PROVE  HashInv'
  <2>1. /\ add' \in [busy : BOOLEAN, copy : Nat, parts : Seq(Part)]
        /\ Len(add'.parts) = Len(add.parts) /\ DOMAIN add'.parts = DOMAIN add.parts
        /\ add'.parts[k] = [file |-> add.parts[k].file, version |-> disk[add.parts[k].file],
                            digest |-> <<>>, step |-> "failed"]
        /\ \A j \in DOMAIN add.parts \ {k} : add'.parts[j] = add.parts[j]
    BY <1>5, HashedFacts, BlocksBuilt DEF NoSource
  <2>2. queue' = queue /\ workers' = workers /\ cache' = cache
    BY <1>5 DEF NoSource, pool
  <2>3. AddInv'
    BY <2>1, <2>2 DEF HashInv, AddInv, InFlight
  <2> QED
    BY <1>1, <1>2, <2>1, <2>2, <2>3 DEF HashInv, ItemsInv, CacheInv, WorkersInv, Clean
<1> QED
  BY <1>3, <1>4, <1>5 DEF StatSource

\* The parts that waited for a key have its answer; no other part is touched.
LEMMA ToldFacts ==
  ASSUME HashInv, NEW key \in Keys, NEW step \in {"done", "failed"},
         NEW digest \in Blocks, step = "done" => digest = Whole(key[2]),
         Told(key, step, digest)
  PROVE  /\ add' \in [busy : BOOLEAN, copy : Nat, parts : Seq(Part)]
         /\ Len(add'.parts) = Len(add.parts)
         /\ \A k \in DOMAIN add'.parts :
              LET part == add'.parts[k]
              IN  /\ part.step = "wait" =>
                       <<part.file, part.version>> \in InFlight \ {key}
                  /\ part.step = "done" => part.digest = Whole(part.version)
<1> DEFINE Answer(part) ==
             IF part.step = "wait" /\ <<part.file, part.version>> = key
             THEN [part EXCEPT !.step = step, !.digest = digest] ELSE part
           parts == [k \in DOMAIN add.parts |-> Answer(add.parts[k])]
<1>1. /\ add \in [busy : BOOLEAN, copy : Nat, parts : Seq(Part)]
      /\ add.parts \in Seq(Part)
      /\ \A k \in DOMAIN add.parts :
           /\ add.parts[k] \in Part
           /\ add.parts[k].step = "wait" =>
                <<add.parts[k].file, add.parts[k].version>> \in InFlight
           /\ add.parts[k].step = "done" => add.parts[k].digest = Whole(add.parts[k].version)
  BY DEF HashInv, AddInv
<1>2. add' = [add EXCEPT !.parts = parts]
  BY DEF Told
<1>3. ASSUME NEW part \in Part
      PROVE  /\ Answer(part) \in Part
             /\ Answer(part).file = part.file /\ Answer(part).version = part.version
             /\ Answer(part).step = "wait" =>
                  part.step = "wait" /\ <<part.file, part.version>> # key
             /\ Answer(part).step = "done" =>
                  \/ part.step = "done" /\ Answer(part).digest = part.digest
                  \/ <<part.file, part.version>> = key /\ Answer(part).digest = digest
                     /\ step = "done"
  BY <1>3 DEF Part
<1> HIDE DEF Answer
<1>4. parts \in Seq(Part) /\ Len(parts) = Len(add.parts) /\ DOMAIN parts = DOMAIN add.parts
  BY <1>1, <1>3
<1>5. add'.parts = parts /\ add' \in [busy : BOOLEAN, copy : Nat, parts : Seq(Part)]
  BY <1>1, <1>2, <1>4
<1>6. ASSUME NEW k \in DOMAIN add.parts
      PROVE  /\ parts[k].step = "wait" =>
                  <<parts[k].file, parts[k].version>> \in InFlight \ {key}
             /\ parts[k].step = "done" => parts[k].digest = Whole(parts[k].version)
  <2>1. parts[k] = Answer(add.parts[k]) /\ add.parts[k] \in Part
    BY <1>1
  <2> HIDE DEF parts
  <2>2. parts[k].step = "wait" => <<parts[k].file, parts[k].version>> \in InFlight \ {key}
    BY <1>1, <1>3, <2>1
  <2>3. CASE parts[k].step = "done" /\ add.parts[k].step = "done" /\ parts[k].digest = add.parts[k].digest
    <3>1. add.parts[k].digest = Whole(add.parts[k].version)
      BY <1>1, <2>3
    <3>2. parts[k].version = add.parts[k].version
      BY <1>3, <2>1
    <3> QED
      BY <2>3, <3>1, <3>2
  <2>4. CASE parts[k].step = "done" /\ <<add.parts[k].file, add.parts[k].version>> = key
             /\ parts[k].digest = digest /\ step = "done"
    BY <1>3, <2>1, <2>4
  <2> QED
    BY <1>3, <2>1, <2>2, <2>3, <2>4
<1> HIDE DEF parts
<1> QED
  BY <1>4, <1>5, <1>6

\* A worker that ends, with a digest or without: nobody waits for its key any
\* more, and the next task has its place.
LEMMA WorkerEnds ==
  ASSUME HashInv, NEW key \in DOMAIN workers, NEW step \in {"done", "failed"},
         NEW digest \in Blocks, step = "done" => digest = Whole(key[2]),
         Told(key, step, digest), AfterWorker(key), CacheInv',
         UNCHANGED <<disk, store, up>>
  PROVE  HashInv'
<1>1. key \in Keys
  BY DEF HashInv, QueuesOK
<1>2. /\ add' \in [busy : BOOLEAN, copy : Nat, parts : Seq(Part)]
      /\ Len(add'.parts) = Len(add.parts)
      /\ \A k \in DOMAIN add'.parts :
           LET part == add'.parts[k]
           IN  /\ part.step = "wait" => <<part.file, part.version>> \in InFlight \ {key}
               /\ part.step = "done" => part.digest = Whole(part.version)
  BY <1>1, ToldFacts
<1>3. /\ QueuesOK(queue', DOMAIN workers')
      /\ InFlight' = InFlight \ {key}
      /\ workers' = [other \in DOMAIN workers' |-> workers'[other]]
      /\ \A other \in DOMAIN workers' :
           \/ other \in DOMAIN workers /\ workers'[other] = workers[other]
           \/ workers'[other] = <<>>
  BY AfterWorkerFacts
<1>4. WorkersInv'
  BY <1>3, WorkersStayClean DEF QueuesOK
<1>5. AddInv'
  BY <1>2, <1>3 DEF AddInv
<1>6. ItemsInv'
  BY <1>2 DEF HashInv, ItemsInv, store
<1>7. RoomInv' /\ DiskInv'
  BY DEF HashInv, RoomInv, DiskInv, store
<1> QED
  BY <1>3, <1>4, <1>5, <1>6, <1>7 DEF HashInv

\* A worker that fails, or finds the file changed.
LEMMA WorkerFailsKeepsHash ==
  ASSUME HashInv, NEW key \in DOMAIN workers, WorkerFails(key),
         UNCHANGED <<disk, store, up>>
  PROVE  HashInv'
<1>1. Told(key, "failed", <<>>) /\ AfterWorker(key) /\ CacheInv'
  BY DEF WorkerFails, HashInv, CacheInv
<1>2. <<>> \in Blocks
  BY BlocksBuilt
<1> QED
  BY <1>1, <1>2, WorkerEnds, Zenon

\* A worker that reads: what it has stays clean, as the file never gets an old
\* version back.
LEMMA WorkerReadsKeepsHash ==
  ASSUME HashInv, NEW key \in DOMAIN workers, WorkerReads(key)
  PROVE  HashInv'
<1> DEFINE more == Append(workers[key], disk[key[1]])
<1>1. /\ Len(workers[key]) < Size /\ workers' = [workers EXCEPT ![key] = more]
      /\ workers[key] = <<>> => disk[key[1]] = key[2]
      /\ UNCHANGED <<disk, items, room, log, add, queue, cache, up>>
  BY DEF WorkerReads, store
<1>2. /\ Clean(key, workers[key]) /\ key \in Keys
      /\ disk[key[1]] \in Versions /\ disk[key[1]] \in Int /\ key[2] \in Int
  BY DEF HashInv, WorkersInv, QueuesOK, Keys, DiskInv, Versions
<1>3. /\ more \in Blocks /\ DOMAIN more = 1 .. Len(workers[key]) + 1
      /\ more[Len(workers[key]) + 1] = disk[key[1]]
      /\ \A b \in DOMAIN workers[key] : more[b] = workers[key][b]
      /\ DOMAIN workers[key] = 1 .. Len(workers[key]) /\ Len(workers[key]) \in Nat
  BY <1>1, <1>2, BlocksBuilt DEF Clean
<1> HIDE DEF more
<1>4. disk[key[1]] >= key[2]
  BY <1>1, <1>2 DEF Clean
<1>5. disk[key[1]] = key[2] => \A b \in DOMAIN more : more[b] = key[2]
  <2> SUFFICES ASSUME disk[key[1]] = key[2], NEW b \in DOMAIN more
               PROVE  more[b] = key[2]
    OBVIOUS
  <2>1. b = Len(workers[key]) + 1 \/ b \in DOMAIN workers[key]
    BY <1>3
  <2> QED
    BY <1>2, <1>3, <2>1 DEF Clean
<1>6. WorkersInv'
  <2>1. /\ DOMAIN workers' = DOMAIN workers /\ workers'[key] = more
        /\ \A other \in DOMAIN workers \ {key} : workers'[other] = workers[other]
        /\ workers' = [other \in DOMAIN workers' |-> workers'[other]]
    BY <1>1 DEF HashInv, WorkersInv
  <2>2. \A other \in DOMAIN workers : Clean(other, workers[other])
    BY DEF HashInv, WorkersInv
  <2>3. Clean(key, more)
    BY <1>3, <1>4, <1>5 DEF Clean
  <2>4. \A other \in DOMAIN workers' : Clean(other, workers'[other])
    BY <2>1, <2>2, <2>3
  <2> QED
    BY <1>1, <2>1, <2>4 DEF WorkersInv, Clean
<1>7. DOMAIN workers' = DOMAIN workers
  BY <1>1
<1> QED
  BY <1>1, <1>6, <1>7
     DEF HashInv, RoomInv, DiskInv, ItemsInv, CacheInv, AddInv, InFlight

\* A worker that answers has read one version, the registered one.
LEMMA WorkerAnswersKeepsHash ==
  ASSUME HashInv, NEW key \in DOMAIN workers, WorkerAnswers(key)
  PROVE  HashInv'
<1> DEFINE Cached == [key : Keys, digest : Blocks]
           digest == workers[key]
           fresh == Append(cache, [key |-> key, digest |-> digest])
<1>1. Len(digest) = Size /\ UNCHANGED <<disk, store, up>>
  BY DEF WorkerAnswers
<1>2. CASE ~ Rechecked(key)
  <2>1. WorkerFails(key)
    BY <1>2 DEF WorkerAnswers
  <2> QED
    BY <1>1, <2>1, WorkerFailsKeepsHash
<1>3. CASE Rechecked(key)
  <2>1. /\ Told(key, "done", digest) /\ AfterWorker(key)
        /\ cache' = IF Len(fresh) > MaxCache THEN Tail(fresh) ELSE fresh
    BY <1>3 DEF WorkerAnswers
  <2>2. key \in Keys /\ key[2] \in Versions /\ Clean(key, digest)
    BY DEF HashInv, QueuesOK, WorkersInv, Keys
  <2>3. digest \in Blocks /\ digest = Whole(key[2])
    BY <1>1, <1>3, <2>2, WholeBlocks DEF Clean, Rechecked
  <2> DEFINE entry == [key |-> key, digest |-> digest]
  <2>4. entry \in Cached /\ entry.digest = Whole(entry.key[2])
    BY <2>2, <2>3
  <2>5. cache \in Seq(Cached) /\ \A n \in DOMAIN cache : cache[n].digest = Whole(cache[n].key[2])
    BY DEF HashInv, CacheInv
  <2> HIDE DEF digest, entry
  <2>6. fresh = Append(cache, entry)
    BY DEF entry
  <2> HIDE DEF fresh, Cached
  <2>7. /\ fresh \in Seq(Cached) /\ fresh # <<>>
        /\ \A n \in DOMAIN fresh : fresh[n].digest = Whole(fresh[n].key[2])
    <3>1. /\ fresh \in Seq(Cached) /\ fresh # <<>> /\ DOMAIN fresh = 1 .. Len(cache) + 1
          /\ fresh[Len(cache) + 1] = entry /\ DOMAIN cache = 1 .. Len(cache)
          /\ \A n \in 1 .. Len(cache) : fresh[n] = cache[n]
          /\ Len(cache) \in Nat
      BY <2>4, <2>5, <2>6
    <3>2. \A n \in 1 .. Len(cache) + 1 : n = Len(cache) + 1 \/ n \in 1 .. Len(cache)
      BY <3>1
    <3> QED
      BY <2>4, <2>5, <3>1, <3>2
  <2>8. /\ Tail(fresh) \in Seq(Cached)
        /\ \A n \in DOMAIN Tail(fresh) : n + 1 \in DOMAIN fresh /\ Tail(fresh)[n] = fresh[n + 1]
    BY <2>7
  <2>9. CacheInv'
    <3>1. CASE cache' = fresh
      BY <2>7, <3>1 DEF CacheInv, Cached
    <3>2. CASE cache' = Tail(fresh)
      BY <2>7, <2>8, <3>2 DEF CacheInv, Cached
    <3> QED
      BY <2>1, <3>1, <3>2
  <2> QED
    BY <1>1, <2>1, <2>3, <2>9, WorkerEnds, Zenon
<1> QED
  BY <1>2, <1>3

\* Items that were there are there, and as they were.
ItemsGrow ==
  /\ DOMAIN items \subseteq DOMAIN items'
  /\ \A i \in DOMAIN items : items'[i] = items[i]

\* Digested items are inserted: their digests come from the parts.
LEMMA AddItemsKeepsHash ==
  ASSUME HashInv, NEW free \in 0 .. MaxItems, AddItems(free)
  PROVE  HashInv' /\ ItemsGrow
<1> DEFINE total == Len(add.parts)
           inserted == Lesser(total, free + 1)
           new == [k \in 1 .. inserted |-> ItemOf(add.parts[k])]
<1>1. /\ add' = Idle /\ UNCHANGED <<disk, pool, up>>
      /\ \A k \in DOMAIN add.parts : add.parts[k].step = "done"
      /\ \/ UNCHANGED store
         \/ /\ items' = items \o new /\ log' = log \union {add.copy + k : k \in 1 .. free}
            /\ room' = [room EXCEPT !.event = add.copy + inserted]
  BY DEF AddItems
<1>2. /\ add.parts \in Seq(Part) /\ add.copy \in Nat /\ items \in Seq(Item)
      /\ Len(items) + Len(add.parts) <= MaxItems
      /\ \A i \in DOMAIN items : items[i].digest = Whole(items[i].version)
      /\ \A k \in DOMAIN add.parts :
           add.parts[k].step = "done" => add.parts[k].digest = Whole(add.parts[k].version)
  BY DEF HashInv, AddInv, ItemsInv
<1>3. total \in Nat /\ inserted \in 0 .. total /\ Len(items) \in Nat
      /\ DOMAIN add.parts = 1 .. total /\ \A k \in 1 .. total : add.parts[k] \in Part
  BY <1>2, SourceBounds DEF Lesser
<1>4. /\ new \in Seq(Item) /\ Len(new) = inserted
      /\ \A k \in 1 .. inserted : new[k].digest = Whole(new[k].version)
  <2>1. ASSUME NEW k \in 1 .. inserted
        PROVE  /\ ItemOf(add.parts[k]) \in Item
               /\ ItemOf(add.parts[k]).digest = Whole(ItemOf(add.parts[k]).version)
    <3>1. k \in 1 .. total
      BY <1>3
    <3> QED
      BY <1>1, <1>2, <1>3, <3>1 DEF ItemOf, Part, Item
  <2>2. inserted \in Nat
    BY <1>3
  <2> HIDE DEF inserted
  <2> QED
    BY <2>1, <2>2
<1> HIDE DEF total, new, inserted
<1>5. /\ items' \in Seq(Item) /\ Len(items') <= MaxItems /\ ItemsGrow
      /\ \A i \in DOMAIN items' : items'[i].digest = Whole(items'[i].version)
  <2>1. CASE items' = items
    <3>1. Len(items) <= MaxItems
      BY <1>2, <1>3, SourceBounds DEF total
    <3> QED
      BY <1>2, <2>1, <3>1 DEF ItemsGrow
  <2>2. CASE items' = items \o new
    <3>1. /\ items \o new \in Seq(Item) /\ Len(items \o new) = Len(items) + inserted
          /\ \A i \in 1 .. Len(items) : (items \o new)[i] = items[i]
          /\ \A i \in Len(items) + 1 .. Len(items) + inserted :
               (items \o new)[i] = new[i - Len(items)]
      BY <1>2, <1>4
    <3>2. Len(items) + inserted <= MaxItems
      BY <1>2, <1>3, SourceBounds DEF total
    <3>3. ASSUME NEW i \in 1 .. Len(items) + inserted
          PROVE  (items \o new)[i].digest = Whole((items \o new)[i].version)
      <4>1. CASE i <= Len(items)
        <5>1. i \in 1 .. Len(items) /\ i \in DOMAIN items
          BY <1>2, <1>3, <4>1
        <5> QED
          BY <1>2, <3>1, <5>1
      <4>2. CASE ~ i <= Len(items)
        <5>1. i \in Len(items) + 1 .. Len(items) + inserted /\ i - Len(items) \in 1 .. inserted
          BY <1>3, <4>2
        <5> QED
          BY <1>4, <3>1, <5>1
      <4> QED
        BY <4>1, <4>2
    <3>4. DOMAIN items' = 1 .. Len(items) + inserted
      BY <2>2, <3>1
    <3> QED
      BY <1>2, <1>3, <2>2, <3>1, <3>2, <3>3, <3>4 DEF ItemsGrow
  <2> QED
    BY <1>1, <2>1, <2>2 DEF store
<1>6. RoomInv'
  BY <1>1, <1>2, <1>3 DEF HashInv, RoomInv, store
<1>7. /\ AddInv' /\ Len(add'.parts) = 0
  BY <1>1 DEF AddInv, Idle
<1>8. ItemsInv'
  <2>1. Len(items') \in Nat /\ Len(items') + 0 <= MaxItems
    BY <1>5, SourceBounds
  <2> QED
    BY <1>5, <1>7, <2>1 DEF ItemsInv
<1>9. DiskInv' /\ CacheInv' /\ WorkersInv' /\ QueuesOK(queue, DOMAIN workers)'
  BY <1>1 DEF HashInv, DiskInv, CacheInv, WorkersInv, Clean, pool
<1> QED
  BY <1>5, <1>6, <1>7, <1>8, <1>9 DEF HashInv

\* The exception that ends the process takes the pool and the request with it.
LEMMA KillKeepsHash ==
  ASSUME HashInv, RoomInv', add' = Idle, queue' = <<>>, workers' = << >>, cache' = <<>>,
         UNCHANGED <<disk, items>>
  PROVE  HashInv'
<1>1. DOMAIN workers' = {} /\ workers' = [key \in DOMAIN workers' |-> workers'[key]]
  OBVIOUS
<1>2. QueuesOK(queue, DOMAIN workers)'
  <2>1. IsFiniteSet({}) /\ Cardinality({}) = 0
    BY FS_EmptySet
  <2>2. queue' \in Seq(Keys) /\ IsInjective(queue') /\ ToSet(queue') = {}
    BY DEF IsInjective, ToSet
  <2> QED
    BY <1>1, <2>1, <2>2, SourceBounds DEF QueuesOK
<1>3. WorkersInv' /\ CacheInv'
  BY <1>1 DEF WorkersInv, CacheInv
<1>4. /\ AddInv' /\ Len(add'.parts) = 0
  BY DEF AddInv, Idle
<1>5. ItemsInv'
  <2>1. /\ items \in Seq(Item) /\ add.parts \in Seq(Part)
        /\ Len(items) + Len(add.parts) <= MaxItems
    BY DEF HashInv, ItemsInv, AddInv
  <2>2. Len(items) \in Nat /\ Len(add.parts) \in Nat
    BY <2>1
  <2>3. Len(items) + 0 <= MaxItems
    BY <2>1, <2>2, SourceBounds
  <2> QED
    BY <1>4, <2>3 DEF HashInv, ItemsInv
<1> QED
  BY <1>2, <1>3, <1>4, <1>5 DEF HashInv, DiskInv

-----------------------------------------------------------------------------
(* Downloads.                                                               *)

\* What holds of one download of a room, for the proofs of its steps.
LEMMA DownloadFacts ==
  ASSUME HashInv, DownloadsInv, NEW d \in Downloads
  PROVE  /\ Sound(dl[d]) /\ dl[d] \in Requests(DOMAIN items)
         /\ dl[d].todo \in Seq(DOMAIN items) /\ dl[d].kept \in Seq(DOMAIN items)
         /\ dl[d].sent \in Blocks /\ dl[d].copy \in Nat
         /\ items \in Seq(Item) /\ DOMAIN items = 1 .. Len(items) /\ Len(items) \in Nat
         /\ dl[d].todo # <<>> =>
              /\ Head(dl[d].todo) \in DOMAIN items /\ Current(d) \in Item
              /\ Tail(dl[d].todo) \in Seq(DOMAIN items)
              /\ disk[Current(d).file] \in Versions
<1>1. Sound(dl[d]) /\ dl[d] \in Requests(DOMAIN items)
  BY DEF DownloadsInv, Sound
<1>2. /\ dl[d].todo \in Seq(DOMAIN items) /\ dl[d].kept \in Seq(DOMAIN items)
      /\ dl[d].sent \in Blocks /\ dl[d].copy \in Nat
  BY <1>1 DEF Requests
<1>3. items \in Seq(Item) /\ disk \in [Files -> Versions]
  BY DEF HashInv, ItemsInv, DiskInv
<1>4. DOMAIN items = 1 .. Len(items) /\ Len(items) \in Nat
      /\ \A i \in DOMAIN items : items[i] \in Item
  BY <1>3
<1>5. ASSUME dl[d].todo # <<>>
      PROVE  /\ Head(dl[d].todo) \in DOMAIN items /\ Current(d) \in Item
             /\ Tail(dl[d].todo) \in Seq(DOMAIN items)
             /\ disk[Current(d).file] \in Versions
  <2>1. Head(dl[d].todo) \in DOMAIN items /\ Tail(dl[d].todo) \in Seq(DOMAIN items)
    BY <1>2, <1>5, HeadTailProperties
  <2>2. Current(d) \in Item
    BY <1>4, <2>1 DEF Current
  <2> QED
    BY <1>3, <2>1, <2>2 DEF Item
<1> QED
  BY <1>1, <1>2, <1>3, <1>4, <1>5

\* One download moves: the others are as before, and the count of slots follows.
LEMMA OneMoves ==
  ASSUME DownloadsInv, SlotsInv, NEW d \in Downloads, NEW request, Sound(request),
         dl' = [dl EXCEPT ![d] = request], UNCHANGED <<disk, items>>,
         \/ request.slot = dl[d].slot /\ reads' = reads
         \/ request.slot /\ ~ dl[d].slot /\ reads < MaxReads /\ reads' = reads + 1
         \/ ~ request.slot /\ dl[d].slot /\ reads' = reads - 1
  PROVE  DownloadsInv' /\ SlotsInv'
<1>1. /\ dl' = [e \in Downloads |-> dl'[e]] /\ dl'[d] = request
      /\ \A e \in Downloads \ {d} : dl'[e] = dl[e]
  BY DEF DownloadsInv
<1>2. \A e \in Downloads : Sound(dl'[e])
  BY <1>1 DEF DownloadsInv
<1>3. DownloadsInv'
  BY <1>1, <1>2 DEF DownloadsInv, Sound, Unmixed
<1>4. /\ IsFiniteSet(Open) /\ reads = Cardinality(Open) /\ reads <= MaxReads
      /\ Cardinality(Open) \in Nat
  BY FS_CardinalityType DEF SlotsInv
<1>5. request.slot \in BOOLEAN /\ dl[d].slot \in BOOLEAN
  BY DEF DownloadsInv, Sound, Requests
<1>6. CASE request.slot = dl[d].slot /\ reads' = reads
  <2>1. Open' = Open
    BY <1>1, <1>6 DEF Open
  <2> QED
    BY <1>3, <1>4, <1>6, <2>1 DEF SlotsInv
<1>7. CASE request.slot /\ ~ dl[d].slot /\ reads < MaxReads /\ reads' = reads + 1
  <2>1. Open' = Open \union {d} /\ d \notin Open
    BY <1>1, <1>7 DEF Open
  <2>2. IsFiniteSet(Open') /\ Cardinality(Open') = Cardinality(Open) + 1
    BY <1>4, <2>1, FS_AddElement
  <2> QED
    BY <1>3, <1>4, <1>7, <2>2, SourceBounds DEF SlotsInv
<1>8. CASE ~ request.slot /\ dl[d].slot /\ reads' = reads - 1
  <2>1. Open' = Open \ {d} /\ d \in Open
    BY <1>1, <1>8 DEF Open
  <2>2. IsFiniteSet(Open') /\ Cardinality(Open') = Cardinality(Open) - 1
    BY <1>4, <2>1, FS_RemoveElement
  <2> QED
    BY <1>3, <1>4, <1>8, <2>2, SourceBounds DEF SlotsInv
<1> QED
  BY <1>6, <1>7, <1>8

\* A download that ends or is refused is sound.
LEMMA EndsAreSound ==
  ASSUME NEW step \in {"idle", "closing"}
  PROVE  Sound([NoDownload EXCEPT !.step = step])
<1> DEFINE ended == [NoDownload EXCEPT !.step = step]
<1>1. <<>> \in Blocks /\ <<>> \in Seq(DOMAIN items)
  BY BlocksBuilt
<1>2. NoDownload \in Requests(DOMAIN items) /\ NoDownload.slot = FALSE
  BY <1>1 DEF Requests, NoDownload
<1>3. ended \in Requests(DOMAIN items) /\ ended.step = step /\ ended.slot = FALSE
  BY <1>2 DEF Requests
<1> HIDE DEF ended
<1>4. Unmixed(ended) /\ ended.step \notin {"stat", "stream", "verify", "prepare"}
  BY <1>3 DEF Unmixed
<1>5. Sound(ended)
  BY <1>3, <1>4 DEF Sound
<1> QED
  BY <1>5 DEF ended

\* A stream that ends gives its slot back once, and one that has none gives none.
LEMMA EndedMoves ==
  ASSUME DownloadsInv, SlotsInv, NEW d \in Downloads, NEW step \in {"idle", "closing"},
         Ended(d, step), UNCHANGED <<disk, items>>
  PROVE  DownloadsInv' /\ SlotsInv'
<1> DEFINE ended == [NoDownload EXCEPT !.step = step]
<1>1. Sound(ended) /\ ~ ended.slot
  BY EndsAreSound DEF NoDownload
<1>2. /\ dl' = [dl EXCEPT ![d] = ended]
      /\ reads' = IF dl[d].slot THEN reads - 1 ELSE reads
  BY DEF Ended, ReadsAfter
<1>3. dl[d].slot \in BOOLEAN /\ ended.slot = FALSE
  BY DEF DownloadsInv, Sound, Requests, NoDownload
<1> HIDE DEF ended
<1> QED
  BY <1>1, <1>2, <1>3, OneMoves

\* What the browsers hold stays right when neither it nor the items change.
LEMMA ClientSame ==
  ASSUME ClientInv, UNCHANGED <<have, items>>
  PROVE  ClientInv'
BY DEF ClientInv, SoundCopy

\* A request starts with what the browser holds of the item, or with nothing.
LEMMA RequestKeepsStreams ==
  ASSUME HashInv, StreamInv, NEW d \in Downloads, NEW i \in DOMAIN items, NEW from \in Nat,
         from = 0 \/ from = Len(have[d].blocks), Request(d, i, from)
  PROVE  StreamInv'
<1> DEFINE sent == SubSeq(have[d].blocks, 1, from)
           request == [NoDownload EXCEPT
              !.step = "stat", !.todo = <<i>>, !.copy = room.event,
              !.sent = sent, !.edited = from > 0 /\ have[d].edited]
<1>1. /\ dl' = [dl EXCEPT ![d] = request] /\ dl[d].step = "idle"
      /\ from > 0 => have[d].item = i
      /\ have' = [have EXCEPT ![d] = Nothing]
      /\ UNCHANGED <<disk, items, reads>>
  BY DEF Request, store
<1>2. /\ have[d] \in [item : {0} \union DOMAIN items, blocks : Blocks, edited : BOOLEAN]
      /\ have[d].blocks \in Seq(Versions)
  BY BlocksAreSeqs DEF StreamInv, ClientInv, SoundCopy
<1>3. sent \in Blocks /\ (from = 0 => sent = <<>>) /\ (from > 0 => sent = have[d].blocks)
  <2>1. CASE from = 0
    <3>1. sent = <<>>
      BY <1>2, <2>1
    <3> HIDE DEF sent, Blocks
    <3>2. <<>> \in Blocks
      BY BlocksBuilt
    <3> QED
      BY <2>1, <3>1, <3>2
  <2>2. CASE from # 0
    <3>1. sent = have[d].blocks
      BY <1>2, <2>2
    <3> QED
      BY <1>2, <2>2, <3>1
  <2> QED
    BY <2>1, <2>2
<1> HIDE DEF sent
<1>4. /\ request.step = "stat" /\ request.todo = <<i>>
      /\ request.slot = FALSE /\ request.archive = FALSE
      /\ request.sent = sent /\ request.edited = (from > 0 /\ have[d].edited)
      /\ request \in Requests(DOMAIN items)
  <2>1. <<>> \in Seq(DOMAIN items) /\ <<i>> \in Seq(DOMAIN items) /\ <<>> \in Blocks
    BY BlocksBuilt
  <2>2. /\ NoDownload \in Requests(DOMAIN items)
        /\ NoDownload.slot = FALSE /\ NoDownload.archive = FALSE
    BY <2>1 DEF Requests, NoDownload
  <2>3. room.event \in Nat
    BY DEF HashInv, RoomInv
  <2> DEFINE edited == from > 0 /\ have[d].edited
  <2>4. edited \in BOOLEAN
    BY <1>2
  <2> HIDE DEF edited
  <2> QED
    BY <1>3, <2>1, <2>2, <2>3, <2>4 DEF Requests, edited
<1>5. Sound(request)
  <2> HIDE DEF request
  <2>1. Head(request.todo) = i /\ request.todo # <<>>
    BY <1>4
  <2>2. ASSUME items[i].source, ~ request.edited, NEW b \in DOMAIN request.sent
        PROVE  request.sent[b] = items[i].version
    <3>1. from > 0
      BY <1>3, <1>4, <2>2
    <3>2. have[d].item = i /\ ~ have[d].edited /\ request.sent = have[d].blocks
      BY <1>1, <1>3, <1>4, <2>2, <3>1
    <3>3. i # 0
      <4>1. items \in Seq(Item)
        BY DEF HashInv, ItemsInv
      <4> QED
        BY <4>1
    <3> QED
      BY <2>2, <3>2, <3>3 DEF StreamInv, ClientInv, SoundCopy
  <2>3. Unmixed(request)
    BY <1>4, <2>1, <2>2 DEF Unmixed
  <2> QED
    BY <1>4, <2>1, <2>3 DEF Sound
<1> HIDE DEF request
<1>6. ~ dl[d].slot /\ request.slot = FALSE /\ dl[d].slot \in BOOLEAN
  BY <1>1, <1>4 DEF StreamInv, DownloadsInv, Sound, Requests
<1>7. DownloadsInv' /\ SlotsInv'
  BY <1>1, <1>5, <1>6, OneMoves DEF StreamInv
<1>8. ClientInv'
  <2>1. Nothing \in [item : {0} \union DOMAIN items, blocks : Blocks, edited : BOOLEAN]
        /\ Nothing.item = 0
    BY BlocksBuilt DEF Nothing
  <2>2. SoundCopy(Nothing)
    BY <2>1 DEF SoundCopy
  <2>3. /\ have' = [e \in Downloads |-> have'[e]]
        /\ \A e \in Downloads : SoundCopy(have'[e])
    BY <1>1, <2>2 DEF StreamInv, ClientInv
  <2> QED
    BY <1>1, <2>3 DEF StreamInv, ClientInv, SoundCopy
<1> QED
  BY <1>7, <1>8 DEF StreamInv

\* A stream begins with a slot; that of a single source only when the file is
\* as registered.
LEMMA BegunMoves ==
  ASSUME HashInv, StreamInv, NEW d \in Downloads, Begun(d), UNCHANGED <<disk, items>>,
         \/ /\ dl[d].step = "stat" /\ ~ dl[d].archive
            /\ ~ Stale(Current(d))
         \/ dl[d].step = "prepare" /\ dl[d].archive /\ dl[d].kept # <<>>
  PROVE  DownloadsInv' /\ SlotsInv'
<1> DEFINE todo == IF dl[d].archive THEN dl[d].kept ELSE dl[d].todo
           request == [dl[d] EXCEPT !.step = "stream", !.slot = TRUE, !.todo = todo]
<1>1. /\ Sound(dl[d]) /\ dl[d] \in Requests(DOMAIN items)
      /\ todo \in Seq(DOMAIN items) /\ todo # <<>>
  BY DownloadFacts DEF StreamInv, Sound
<1>2. dl' = [dl EXCEPT ![d] = request] /\ reads < MaxReads /\ reads' = reads + 1
  BY DEF Begun, StreamInv, DownloadsInv
<1> HIDE DEF todo
<1>3. /\ request \in Requests(DOMAIN items) /\ request.step = "stream"
      /\ request.slot = TRUE /\ request.todo = todo /\ request.sent = dl[d].sent
      /\ request.edited = dl[d].edited /\ request.archive = dl[d].archive
  BY <1>1 DEF Requests
<1> HIDE DEF request
<1>4. Unmixed(request)
  <2>1. CASE dl[d].archive
    BY <1>3, <2>1 DEF Unmixed
  <2>2. CASE ~ dl[d].archive
    <3>1. todo = dl[d].todo /\ dl[d].step = "stat" /\ ~ Stale(items[Head(todo)])
      BY <2>2 DEF todo, Current
    <3> QED
      BY <1>1, <1>3, <3>1 DEF Unmixed, Sound, Stale, Changed
  <2> QED
    BY <2>1, <2>2
<1>5. Sound(request)
  BY <1>1, <1>3, <1>4 DEF Sound
<1>6. ~ dl[d].slot
  BY <1>1 DEF Sound
<1> QED
  BY <1>2, <1>3, <1>5, <1>6, OneMoves DEF StreamInv

\* A refused request has no slot to give back.
LEMMA AnsweredMoves ==
  ASSUME StreamInv, NEW d \in Downloads, dl[d].step \in {"stat", "prepare"},
         Answered(d), UNCHANGED <<disk, items>>
  PROVE  DownloadsInv' /\ SlotsInv'
<1>1. Sound(NoDownload) /\ NoDownload.slot = FALSE
  <2>1. NoDownload = [NoDownload EXCEPT !.step = "idle"]
    BY DEF NoDownload
  <2> QED
    BY <2>1, EndsAreSound DEF NoDownload
<1>2. dl[d].slot = FALSE
  BY DEF StreamInv, DownloadsInv, Sound, Requests
<1> QED
  BY <1>1, <1>2, OneMoves DEF Answered, StreamInv

\* The archive's request names sources of the room.
LEMMA RequestArchiveMoves ==
  ASSUME HashInv, StreamInv, NEW d \in Downloads,
         NEW todo \in BoundedSeq(1 .. MaxItems, MaxItems), RequestArchive(d, todo)
  PROVE  DownloadsInv' /\ SlotsInv'
<1> DEFINE request == [NoDownload EXCEPT
              !.step = "prepare", !.archive = TRUE, !.copy = room.event, !.todo = todo,
              !.wanted = ToSet(todo)]
<1>1. /\ dl' = [dl EXCEPT ![d] = request] /\ dl[d].step = "idle" /\ IsSources(todo)
      /\ UNCHANGED <<disk, items, reads>>
  BY DEF RequestArchive, store
<1>2. todo \in Seq(DOMAIN items)
  <2>1. PICK m \in 0 .. MaxItems : todo \in [1 .. m -> 1 .. MaxItems]
    BY SourceBounds DEF BoundedSeq, SeqOf
  <2>2. m \in Nat /\ DOMAIN todo = 1 .. m
    BY <2>1
  <2>3. \A n \in DOMAIN todo : todo[n] \in ToSet(todo)
    BY DEF ToSet
  <2>4. \A n \in 1 .. m : todo[n] \in DOMAIN items
    BY <1>1, <2>2, <2>3 DEF IsSources
  <2>5. todo \in [1 .. m -> DOMAIN items]
    BY <2>1, <2>4
  <2> QED
    BY <2>2, <2>5
<1>3. /\ request.step = "prepare" /\ request.slot = FALSE /\ request.archive = TRUE
      /\ request \in Requests(DOMAIN items)
  <2>1. <<>> \in Seq(DOMAIN items) /\ <<>> \in Blocks
    BY BlocksBuilt
  <2>2. NoDownload \in Requests(DOMAIN items) /\ NoDownload.slot = FALSE
    BY <2>1 DEF Requests, NoDownload
  <2>3. room.event \in Nat
    BY DEF HashInv, RoomInv
  <2>4. ToSet(todo) \subseteq DOMAIN items
    BY <1>1 DEF IsSources
  <2> QED
    BY <1>2, <2>2, <2>3, <2>4 DEF Requests
<1> HIDE DEF request
<1>4. Sound(request)
  BY <1>3 DEF Sound, Unmixed
<1>5. dl[d].slot = FALSE
  BY <1>1 DEF StreamInv, DownloadsInv, Sound, Requests
<1> QED
  BY <1>1, <1>3, <1>4, <1>5, OneMoves DEF StreamInv

\* One more stat of an archive: the item is kept or left out.
LEMMA PrepareMoves ==
  ASSUME HashInv, StreamInv, NEW d \in Downloads, Prepare(d)
  PROVE  DownloadsInv' /\ SlotsInv'
<1> DEFINE kept == IF Changed(Current(d)) THEN dl[d].kept
                   ELSE Append(dl[d].kept, Head(dl[d].todo))
           request == [dl[d] EXCEPT !.todo = Tail(dl[d].todo), !.kept = kept]
<1>1. /\ dl' = [dl EXCEPT ![d] = request] /\ dl[d].step = "prepare" /\ dl[d].todo # <<>>
      /\ UNCHANGED <<disk, items, reads>>
  BY DEF Prepare, store, StreamInv, DownloadsInv
<1>2. /\ Sound(dl[d]) /\ dl[d] \in Requests(DOMAIN items)
      /\ Tail(dl[d].todo) \in Seq(DOMAIN items) /\ kept \in Seq(DOMAIN items)
  <2>1. /\ Sound(dl[d]) /\ dl[d] \in Requests(DOMAIN items)
        /\ Tail(dl[d].todo) \in Seq(DOMAIN items) /\ Head(dl[d].todo) \in DOMAIN items
        /\ dl[d].kept \in Seq(DOMAIN items)
    BY <1>1, DownloadFacts DEF StreamInv
  <2>2. Append(dl[d].kept, Head(dl[d].todo)) \in Seq(DOMAIN items)
    BY <2>1, AppendProperties
  <2> QED
    BY <2>1, <2>2
<1> HIDE DEF kept
<1>3. /\ request \in Requests(DOMAIN items) /\ request.step = "prepare"
      /\ request.slot = dl[d].slot /\ request.archive = dl[d].archive
  BY <1>1, <1>2 DEF Requests
<1> HIDE DEF request
<1>4. Sound(request)
  BY <1>1, <1>2, <1>3 DEF Sound, Unmixed
<1> QED
  BY <1>1, <1>3, <1>4, OneMoves DEF StreamInv

\* A chunk is of the version that the file has, which is the registered one as
\* long as nobody has saved the file.
LEMMA ChunkMoves ==
  ASSUME HashInv, StreamInv, NEW d \in Downloads, Streaming(d),
         NEW copy \in Nat, UNCHANGED <<disk, items, reads>>,
         dl' = [dl EXCEPT ![d] = [dl[d] EXCEPT !.sent = Chunk(d), !.copy = copy]]
  PROVE  DownloadsInv' /\ SlotsInv'
<1> DEFINE version == disk[Current(d).file]
           request == [dl[d] EXCEPT !.sent = Chunk(d), !.copy = copy]
<1>1. /\ Sound(dl[d]) /\ dl[d] \in Requests(DOMAIN items) /\ dl[d].sent \in Blocks
      /\ dl[d].step = "stream" /\ Len(dl[d].sent) < Size
      /\ version \in Versions /\ dl[d].todo # <<>>
  BY DownloadFacts DEF StreamInv, Streaming, Sound
<1>2. /\ Chunk(d) \in Blocks /\ DOMAIN Chunk(d) = 1 .. Len(dl[d].sent) + 1
      /\ Chunk(d)[Len(dl[d].sent) + 1] = version
      /\ \A b \in DOMAIN dl[d].sent : Chunk(d)[b] = dl[d].sent[b]
      /\ DOMAIN dl[d].sent = 1 .. Len(dl[d].sent) /\ Len(dl[d].sent) \in Nat
  BY <1>1, BlocksBuilt DEF Chunk
<1>3. \A b \in DOMAIN Chunk(d) : b = Len(dl[d].sent) + 1 \/ b \in DOMAIN dl[d].sent
  BY <1>2
<1>4. /\ request \in Requests(DOMAIN items) /\ request.sent = Chunk(d)
      /\ request.step = dl[d].step /\ request.todo = dl[d].todo
      /\ request.archive = dl[d].archive /\ request.edited = dl[d].edited
      /\ request.slot = dl[d].slot
  BY <1>1, <1>2 DEF Requests
<1> HIDE DEF request
<1>5. Unmixed(request)
  <2> SUFFICES ASSUME ~ dl[d].archive, items[Head(dl[d].todo)].source, ~ dl[d].edited
               PROVE  /\ \A b \in DOMAIN Chunk(d) :
                           Chunk(d)[b] = items[Head(dl[d].todo)].version
                      /\ version = items[Head(dl[d].todo)].version
    BY <1>4 DEF Unmixed, Current
  <2>1. /\ \A b \in DOMAIN dl[d].sent : dl[d].sent[b] = items[Head(dl[d].todo)].version
        /\ version = items[Head(dl[d].todo)].version
    BY <1>1 DEF Sound, Unmixed, Current
  <2> HIDE DEF version
  <2> QED
    BY <1>2, <1>3, <2>1
<1>6. Sound(request)
  BY <1>1, <1>4, <1>5 DEF Sound
<1>7. dl' = [dl EXCEPT ![d] = request]
  BY DEF request
<1> QED
  BY <1>4, <1>6, <1>7, OneMoves DEF StreamInv

\* What a browser keeps of a broken or finished stream is of one version.
LEMMA KeptIsSound ==
  ASSUME HashInv, StreamInv, NEW d \in Downloads, dl[d].step = "stream", ~ dl[d].archive,
         Kept(d), UNCHANGED items
  PROVE  ClientInv'
<1> DEFINE part == [item |-> Head(dl[d].todo), blocks |-> dl[d].sent, edited |-> dl[d].edited]
<1>1. /\ Sound(dl[d]) /\ dl[d] \in Requests(DOMAIN items) /\ dl[d].todo # <<>>
      /\ Head(dl[d].todo) \in DOMAIN items
  BY DownloadFacts DEF StreamInv, Sound
<1>2. SoundCopy(part)
  <2>1. part \in [item : {0} \union DOMAIN items, blocks : Blocks, edited : BOOLEAN]
    BY <1>1 DEF Requests
  <2>2. items[part.item].source /\ ~ part.edited =>
          \A b \in DOMAIN part.blocks : part.blocks[b] = items[part.item].version
    BY <1>1 DEF Sound, Unmixed
  <2> QED
    BY <2>1, <2>2 DEF SoundCopy
<1>3. have' = [have EXCEPT ![d] = part]
  BY DEF Kept
<1> HIDE DEF part
<1>4. have' = [e \in Downloads |-> have'[e]] /\ \A e \in Downloads : SoundCopy(have'[e])
  BY <1>2, <1>3 DEF StreamInv, ClientInv
<1> QED
  BY <1>4 DEF StreamInv, ClientInv, SoundCopy

\* The stat of an entry that has ended: the slot is kept.
LEMMA EndEntryMoves ==
  ASSUME HashInv, StreamInv, NEW d \in Downloads, EndEntry(d)
  PROVE  DownloadsInv' /\ SlotsInv'
<1> DEFINE request == [dl[d] EXCEPT !.step = "verify"]
<1>1. /\ dl' = [dl EXCEPT ![d] = request] /\ dl[d].step = "stream" /\ dl[d].archive
      /\ UNCHANGED <<disk, items, reads>>
  BY DEF EndEntry, store, StreamInv, DownloadsInv
<1>2. Sound(dl[d]) /\ dl[d] \in Requests(DOMAIN items)
  BY DownloadFacts DEF StreamInv
<1>3. /\ request \in Requests(DOMAIN items) /\ request.step = "verify"
      /\ request.todo = dl[d].todo /\ request.slot = dl[d].slot
      /\ request.archive = dl[d].archive
  BY <1>2 DEF Requests
<1> HIDE DEF request
<1>4. Sound(request)
  BY <1>1, <1>2, <1>3 DEF Sound, Unmixed
<1> QED
  BY <1>1, <1>3, <1>4, OneMoves DEF StreamInv

\* An archive goes on after an entry that is what was registered.
LEMMA VerifyEntryKeepsStreams ==
  ASSUME HashInv, StreamInv, NEW d \in Downloads, VerifyEntry(d)
  PROVE  StreamInv'
<1> DEFINE packed == dl[d].packed \union {<<Head(dl[d].todo), dl[d].sent>>}
           request == [dl[d] EXCEPT !.step = "stream", !.todo = Tail(dl[d].todo),
                                    !.sent = <<>>, !.copy = dl[d].copy + 1,
                                    !.packed = packed]
<1>1. /\ dl[d].step = "verify"
      /\ \/ Len(dl[d].todo) > 1 /\ dl' = [dl EXCEPT ![d] = request] /\ reads' = reads
         \/ Ended(d, "closing")
      /\ UNCHANGED <<disk, items, have>>
  BY DEF VerifyEntry, StreamInv, DownloadsInv
<1>2. /\ Sound(dl[d]) /\ dl[d] \in Requests(DOMAIN items)
      /\ dl[d].todo # <<>> /\ dl[d].todo \in Seq(DOMAIN items) /\ dl[d].archive
      /\ Head(dl[d].todo) \in DOMAIN items /\ Tail(dl[d].todo) \in Seq(DOMAIN items)
      /\ dl[d].sent \in Blocks /\ dl[d].copy + 1 \in Nat
  BY <1>1, DownloadFacts DEF StreamInv, Sound
<1>3. packed \subseteq (DOMAIN items) \X Blocks
  <2>1. dl[d].packed \subseteq (DOMAIN items) \X Blocks
    BY <1>2 DEF Requests
  <2> HIDE DEF Blocks
  <2> QED
    BY <1>2, <2>1
<1> HIDE DEF packed
<1>4. ClientInv'
  BY <1>1, ClientSame DEF StreamInv
<1>5. CASE Ended(d, "closing")
  BY <1>1, <1>4, <1>5, EndedMoves DEF StreamInv
<1>6. CASE Len(dl[d].todo) > 1 /\ dl' = [dl EXCEPT ![d] = request] /\ reads' = reads
  <2>1. Tail(dl[d].todo) # <<>>
    <3> DEFINE todo == dl[d].todo
    <3>1. todo \in Seq(DOMAIN items) /\ todo # <<>> /\ Len(todo) > 1
      BY <1>2, <1>6
    <3> HIDE DEF todo
    <3>2. Len(Tail(todo)) = Len(todo) - 1 /\ Len(todo) \in Nat
      BY <3>1, HeadTailProperties
    <3>3. Tail(todo) \in Seq(DOMAIN items)
      BY <3>1, HeadTailProperties
    <3>4. Len(Tail(todo)) # 0
      BY <3>1, <3>2
    <3>5. Len(<<>>) = 0
      BY EmptySeq
    <3>6. Tail(todo) # <<>>
      BY <3>4, <3>5, Zenon
    <3> QED
      BY <3>6 DEF todo
  <2>2. <<>> \in Blocks
    BY BlocksBuilt
  <2>3. /\ request \in Requests(DOMAIN items) /\ request.step = "stream"
        /\ request.todo = Tail(dl[d].todo) /\ request.slot = dl[d].slot
        /\ request.archive = dl[d].archive
    BY <1>2, <1>3, <2>2 DEF Requests
  <2> HIDE DEF request
  <2>4. Sound(request)
    BY <1>1, <1>2, <2>1, <2>3 DEF Sound, Unmixed
  <2>5. DownloadsInv' /\ SlotsInv'
    BY <1>1, <1>6, <2>3, <2>4, OneMoves DEF StreamInv
  <2> QED
    BY <1>4, <2>5 DEF StreamInv
<1> QED
  BY <1>1, <1>5, <1>6

\* Every step of a download leaves what it has, and what its browser has, right.
LEMMA DownloadStepKeepsStreams ==
  ASSUME HashInv, StreamInv, NEW d \in Downloads, DownloadStep(d), ~ ReportKills(d)
  PROVE  StreamInv'
<1>1. ASSUME NEW i \in 1 .. MaxItems, Request(d, i, 0)
      PROVE  StreamInv'
  <2>1. i \in DOMAIN items
    BY <1>1 DEF Request
  <2> QED
    BY <1>1, <2>1, RequestKeepsStreams
<1>2. ASSUME Len(have[d].blocks) \in 1 .. Size - 1,
             Request(d, have[d].item, Len(have[d].blocks))
      PROVE  StreamInv'
  <2>1. have[d].item \in DOMAIN items /\ Len(have[d].blocks) \in Nat
    BY <1>2 DEF Request
  <2> QED
    BY <1>2, <2>1, RequestKeepsStreams
<1>3. ASSUME NEW todo \in BoundedSeq(1 .. MaxItems, MaxItems), RequestArchive(d, todo)
      PROVE  StreamInv'
  <2>1. DownloadsInv' /\ SlotsInv'
    BY <1>3, RequestArchiveMoves
  <2>2. ClientInv'
    BY <1>3, ClientSame DEF RequestArchive, StreamInv, client, store
  <2> QED
    BY <2>1, <2>2 DEF StreamInv
<1>4. CASE CheckSource(d)
  <2>1. dl[d].step = "stat" /\ UNCHANGED <<disk, items, have>>
    BY <1>4 DEF CheckSource, store, client
  <2>2. ~ dl[d].archive
    BY <2>1 DEF StreamInv, DownloadsInv, Sound
  <2>3. CASE ~ Stale(Current(d)) /\ Begun(d)
    BY <2>1, <2>2, <2>3, BegunMoves, ClientSame DEF StreamInv
  <2>4. CASE Answered(d)
    BY <2>1, <2>4, AnsweredMoves, ClientSame DEF StreamInv
  <2> QED
    BY <1>4, <2>3, <2>4 DEF CheckSource
<1>5. CASE Prepare(d)
  <2>1. DownloadsInv' /\ SlotsInv'
    BY <1>5, PrepareMoves
  <2>2. ClientInv'
    BY <1>5, ClientSame DEF Prepare, StreamInv, client, store
  <2> QED
    BY <2>1, <2>2 DEF StreamInv
<1>6. CASE BeginArchive(d)
  <2>1. dl[d].step = "prepare" /\ UNCHANGED <<disk, items, have>>
    BY <1>6 DEF BeginArchive, store, client
  <2>2. dl[d].archive /\ dl[d].kept \in Seq(DOMAIN items)
    BY <2>1, DownloadFacts DEF StreamInv, DownloadsInv, Sound
  <2>3. CASE Len(dl[d].kept) >= 2 /\ Begun(d)
    <3>1. dl[d].kept # <<>>
      BY <2>3
    <3> QED
      BY <2>1, <2>2, <2>3, <3>1, BegunMoves, ClientSame DEF StreamInv
  <2>4. CASE Answered(d)
    BY <2>1, <2>4, AnsweredMoves, ClientSame DEF StreamInv
  <2> QED
    BY <1>6, <2>3, <2>4 DEF BeginArchive
<1>7. CASE Read(d)
  <2>1. /\ Streaming(d) /\ UNCHANGED <<disk, items, reads, have>>
        /\ dl' = [dl EXCEPT ![d].sent = Chunk(d)]
    BY <1>7 DEF Read, store, client
  <2>2. dl[d] \in Requests(DOMAIN items) /\ dl[d].copy \in Nat
    BY DownloadFacts DEF StreamInv
  <2>3. [dl[d] EXCEPT !.sent = Chunk(d), !.copy = dl[d].copy] = [dl[d] EXCEPT !.sent = Chunk(d)]
    BY <2>2 DEF Requests
  <2>4. dl' = [dl EXCEPT ![d] = [dl[d] EXCEPT !.sent = Chunk(d), !.copy = dl[d].copy]]
    BY <2>1, <2>3
  <2> QED
    BY <2>1, <2>2, <2>4, ChunkMoves, ClientSame DEF StreamInv
<1>8. CASE ReadAndReport(d)
  <2>1. /\ Streaming(d) /\ UNCHANGED <<disk, items, reads, have>>
        /\ dl' = [dl EXCEPT ![d] = [dl[d] EXCEPT !.sent = Chunk(d), !.copy = dl[d].copy + 1]]
    BY <1>8 DEF ReadAndReport, client, StreamInv, DownloadsInv
  <2>2. dl[d].copy + 1 \in Nat
    BY DownloadFacts DEF StreamInv
  <2> QED
    BY <2>1, <2>2, ChunkMoves, ClientSame DEF StreamInv
<1>9. CASE Flush(d)
  BY <1>9, KeptIsSound, EndedMoves DEF StreamInv, Flush
<1>10. CASE CutOff(d)
  BY <1>10, KeptIsSound, EndedMoves DEF StreamInv, CutOff, store
<1>11. CASE EndEntry(d)
  <2>1. DownloadsInv' /\ SlotsInv'
    BY <1>11, EndEntryMoves
  <2>2. ClientInv'
    BY <1>11, ClientSame DEF EndEntry, StreamInv, client, store
  <2> QED
    BY <2>1, <2>2 DEF StreamInv
<1>12. CASE VerifyEntry(d)
  BY <1>12, VerifyEntryKeepsStreams
<1>13. CASE BreakArchive(d)
  BY <1>13, EndedMoves, ClientSame DEF StreamInv, BreakArchive, client
<1>14. CASE Closed(d)
  BY <1>14, EndedMoves, ClientSame DEF StreamInv, Closed, client, store
<1> QED
  BY <1>1, <1>2, <1>3, <1>4, <1>5, <1>6, <1>7, <1>8, <1>9, <1>10, <1>11, <1>12,
     <1>13, <1>14 DEF DownloadStep

-----------------------------------------------------------------------------
(* All steps.                                                               *)

\* Inserting items changes nothing about those that are there.
LEMMA AddItemsKeepsStreams ==
  ASSUME HashInv, StreamInv, NEW free \in 0 .. MaxItems, AddItems(free)
  PROVE  StreamInv'
<1>1. /\ DOMAIN items \subseteq DOMAIN items'
      /\ \A i \in DOMAIN items : items'[i] = items[i]
      /\ UNCHANGED <<disk, dl, reads, have>>
  BY AddItemsKeepsHash DEF ItemsGrow, AddItems, client
<1>2. /\ Seq(DOMAIN items) \subseteq Seq(DOMAIN items')
      /\ SUBSET (DOMAIN items) \subseteq SUBSET (DOMAIN items')
      /\ SUBSET ((DOMAIN items) \X Blocks) \subseteq SUBSET ((DOMAIN items') \X Blocks)
  <2> HIDE DEF Blocks
  <2> QED
    BY <1>1
<1>3. ASSUME NEW d \in Downloads
      PROVE  Sound(dl[d])'
  <2>1. Sound(dl[d]) /\ dl[d] \in Requests(DOMAIN items)
    BY DownloadFacts DEF StreamInv
  <2>2. dl[d] \in Requests(DOMAIN items')
    BY <1>2, <2>1 DEF Requests
  <2>3. dl[d].todo # <<>> => Head(dl[d].todo) \in DOMAIN items
    BY DownloadFacts DEF StreamInv
  <2> QED
    BY <1>1, <2>1, <2>2, <2>3 DEF Sound, Unmixed
<1>4. DownloadsInv'
  BY <1>1, <1>3 DEF StreamInv, DownloadsInv
<1>5. SlotsInv'
  BY <1>1 DEF StreamInv, SlotsInv, Open
<1>6. ASSUME NEW d \in Downloads
      PROVE  SoundCopy(have[d])
             => /\ have[d] \in [item : {0} \union DOMAIN items', blocks : Blocks, edited : BOOLEAN]
                /\ have[d].item # 0 /\ items'[have[d].item].source /\ ~ have[d].edited =>
                     \A b \in DOMAIN have[d].blocks :
                       have[d].blocks[b] = items'[have[d].item].version
  BY <1>1 DEF SoundCopy
<1>7. ClientInv'
  BY <1>1, <1>6 DEF StreamInv, ClientInv, SoundCopy
<1> QED
  BY <1>4, <1>5, <1>7 DEF StreamInv

\* A file that is saved under a stream leaves a mark on it.
LEMMA EditKeepsStreams ==
  ASSUME HashInv, StreamInv, NEW f \in Files, NEW version \in Versions, Edit(f, version)
  PROVE  StreamInv'
<1>1. /\ disk' = [disk EXCEPT ![f] = version] /\ UNCHANGED <<items, have, reads>>
      /\ dl' = [d \in Downloads |->
                  IF dl[d].step = "stream" /\ Current(d).file = f
                  THEN [dl[d] EXCEPT !.edited = TRUE] ELSE dl[d]]
      /\ disk \in [Files -> Versions]
  BY DEF Edit, store, client, HashInv, DiskInv
<1>2. ASSUME NEW d \in Downloads
      PROVE  /\ Sound(dl[d])'
             /\ dl'[d].slot = dl[d].slot
  <2>1. Sound(dl[d]) /\ dl[d] \in Requests(DOMAIN items)
    BY DownloadFacts DEF StreamInv
  <2>2. CASE dl[d].step = "stream" /\ Current(d).file = f
    <3>1. dl'[d] = [dl[d] EXCEPT !.edited = TRUE]
      BY <1>1, <2>2
    <3>2. /\ dl'[d] \in Requests(DOMAIN items) /\ dl'[d].edited = TRUE
          /\ dl'[d].step = dl[d].step /\ dl'[d].todo = dl[d].todo
          /\ dl'[d].slot = dl[d].slot /\ dl'[d].archive = dl[d].archive
      BY <2>1, <3>1 DEF Requests
    <3> QED
      BY <1>1, <2>1, <2>2, <3>2 DEF Sound, Unmixed
  <2>3. CASE ~ (dl[d].step = "stream" /\ Current(d).file = f)
    <3>1. dl'[d] = dl[d]
      BY <1>1, <2>3
    <3>2. dl[d].step = "stream" => disk'[Current(d).file] = disk[Current(d).file]
      BY <1>1, <2>3
    <3> QED
      BY <1>1, <2>1, <3>1, <3>2 DEF Sound, Unmixed, Current
  <2> QED
    BY <2>2, <2>3
<1>3. dl' = [d \in Downloads |-> dl'[d]] /\ \A d \in Downloads : Sound(dl[d])'
  BY <1>1, <1>2
<1>4. Open' = Open
  BY <1>2 DEF Open
<1>5. SlotsInv'
  BY <1>1, <1>4 DEF StreamInv, SlotsInv
<1> QED
  BY <1>1, <1>3, <1>5, ClientSame DEF StreamInv, DownloadsInv

\* The exception that ends the process closes every stream.
LEMMA KillKeepsStreams ==
  ASSUME StreamInv, NEW d \in Downloads, ReportKills(d)
  PROVE  StreamInv'
<1>1. /\ dl' = [e \in Downloads |-> NoDownload] /\ reads' = 0
      /\ UNCHANGED <<disk, items, have>>
  BY DEF ReportKills, client
<1>2. Sound(NoDownload) /\ NoDownload.slot = FALSE
  <2>1. NoDownload = [NoDownload EXCEPT !.step = "idle"]
    BY DEF NoDownload
  <2> QED
    BY <2>1, EndsAreSound DEF NoDownload
<1>3. DownloadsInv'
  BY <1>1, <1>2 DEF DownloadsInv, Sound, Unmixed
<1>4. Open' = {}
  BY <1>1, <1>2 DEF Open
<1>5. SlotsInv'
  BY <1>1, <1>4, FS_EmptySet, SourceBounds DEF SlotsInv
<1> QED
  BY <1>1, <1>3, <1>5, ClientSame DEF StreamInv

\* Every step of the service, of the browsers and of the user keeps SourceInv.
LEMMA SourceStep ==
  SourceInv /\ [Next]_vars => SourceInv'
<1> SUFFICES ASSUME SourceInv, [Next]_vars
             PROVE  SourceInv'
  OBVIOUS
<1>0. HashInv /\ StreamInv /\ RoomInv
  BY DEF SourceInv, HashInv
<1>1. ASSUME UNCHANGED <<disk, dl, reads, have, items>>, HashInv'
      PROVE  SourceInv'
  <2>1. DownloadsInv' /\ SlotsInv'
    BY <1>0, <1>1 DEF StreamInv, DownloadsInv, SlotsInv, Sound, Unmixed, Open
  <2> QED
    BY <1>0, <1>1, <2>1, ClientSame DEF StreamInv, SourceInv
<1>2. ASSUME NEW files \in BoundedSeq(Files, 2), AddFiles(files)
      PROVE  SourceInv'
  BY <1>0, <1>1, <1>2, AddFilesKeepsHash DEF AddFiles, store, client
<1>3. CASE AddFails
  <2>1. add' = Idle /\ UNCHANGED <<disk, room, log, items, pool, reads, dl, have, up>>
    BY <1>3 DEF AddFails, store, client
  <2>2. HashInv'
    BY <1>0, <2>1, IdleKeepsHash DEF RoomInv
  <2> QED
    BY <1>1, <2>1, <2>2
<1>4. CASE PoolStep
  <2>1. UNCHANGED <<disk, dl, reads, have, items>>
    BY <1>4 DEF PoolStep, StatSource, WorkerReads, WorkerAnswers, WorkerDies, store, client
  <2>2. ASSUME NEW key \in DOMAIN workers, WorkerDies(key)
        PROVE  HashInv'
    BY <1>0, <2>2, WorkerFailsKeepsHash DEF WorkerDies
  <2>3. HashInv'
    BY <1>0, <1>4, <2>2, StatSourceKeepsHash, WorkerReadsKeepsHash, WorkerAnswersKeepsHash
       DEF PoolStep
  <2> QED
    BY <1>1, <2>1, <2>3
<1>5. ASSUME NEW free \in 0 .. MaxItems, AddItems(free)
      PROVE  SourceInv'
  BY <1>0, <1>5, AddItemsKeepsHash, AddItemsKeepsStreams DEF SourceInv
<1>6. ASSUME NEW d \in Downloads, DownloadStep(d)
      PROVE  SourceInv'
  <2>1. dl[d].copy \in Nat
    BY <1>0, DownloadFacts DEF StreamInv
  <2>2. CASE ReportKills(d)
    <3>1. RoomInv'
      BY <1>0, <2>1, <2>2, PublishKeepsRoom DEF ReportKills
    <3> QED
      BY <1>0, <2>2, <3>1, KillKeepsHash, KillKeepsStreams DEF ReportKills, SourceInv
  <2>3. CASE ~ ReportKills(d)
    <3>1. /\ UNCHANGED <<disk, items, add, pool, up>>
          /\ Published(dl[d].copy) \/ Refused(dl[d].copy) \/ UNCHANGED <<room, log>>
      BY <1>6, <2>3
         DEF DownloadStep, Request, RequestArchive, CheckSource, Prepare, BeginArchive,
             Read, ReadAndReport, Flush, CutOff, EndEntry, VerifyEntry, BreakArchive,
             Closed, store
    <3>2. RoomInv'
      BY <1>0, <2>1, <3>1, PublishKeepsRoom DEF RoomInv
    <3>3. HashInv'
      BY <1>0, <3>1, <3>2, HashSame
    <3> QED
      BY <1>0, <1>6, <2>3, <3>3, DownloadStepKeepsStreams DEF SourceInv
  <2> QED
    BY <2>2, <2>3
<1>7. ASSUME NEW f \in Files, NEW version \in Versions, Edit(f, version)
      PROVE  SourceInv'
  BY <1>0, <1>7, EditKeepsHash, EditKeepsStreams DEF SourceInv
<1>8. CASE Announce \/ ResetRoom
  <2>1. UNCHANGED <<disk, items, add, pool, reads, dl, have, up>>
    BY <1>8 DEF Announce, ResetRoom, client
  <2>2. RoomInv'
    <3>1. room.event \in Nat
      BY <1>0 DEF RoomInv
    <3>2. CASE Announce
      BY <1>0, <2>1, <3>1, <3>2, PublishKeepsRoom DEF Announce, RoomInv
    <3>3. CASE ResetRoom
      BY <1>0, <2>1, <3>3 DEF ResetRoom, RoomInv
    <3> QED
      BY <1>8, <3>2, <3>3
  <2> QED
    BY <1>0, <1>1, <2>1, <2>2, HashSame
<1>9. CASE UNCHANGED vars
  <2>1. UNCHANGED <<disk, room, log, items, add, pool, reads, dl, have, up>>
    BY <1>9 DEF vars, store, client
  <2>2. RoomInv'
    BY <1>0, <2>1 DEF RoomInv
  <2> QED
    BY <1>0, <1>1, <2>1, <2>2, HashSame
<1> QED
  BY <1>2, <1>3, <1>4, <1>5, <1>6, <1>7, <1>8, <1>9 DEF Next

\* The service starts with files, rooms and pool as the invariant has them.
LEMMA SourceInit ==
  Init => SourceInv
<1> SUFFICES ASSUME Init
             PROVE  SourceInv
  OBVIOUS
<1>1. /\ disk = [f \in Files |-> 0] /\ room = [live |-> TRUE, event |-> 0] /\ log = {}
      /\ add = Idle /\ queue = <<>> /\ workers = << >> /\ cache = <<>>
      /\ reads = 0 /\ dl = [d \in Downloads |-> NoDownload]
      /\ have = [d \in Downloads |-> Nothing] /\ archived = {} /\ up = TRUE
  BY DEF Init
<1>2. 0 \in Versions /\ Whole(0) \in Blocks /\ <<>> \in Blocks
  <2>1. 0 \in Versions
    BY SourceBounds DEF Versions
  <2> QED
    BY <2>1, WholeBlocks, BlocksBuilt
<1>3. /\ items \in Seq(Item) /\ Len(items) <= MaxItems
      /\ \A i \in DOMAIN items : items[i].digest = Whole(items[i].version)
  <2>1. \A f \in Files, source \in BOOLEAN :
          /\ Ready(f, source) \in Item
          /\ Ready(f, source).digest = Whole(Ready(f, source).version)
    BY <1>2 DEF Ready, Item
  <2>2. PICK sources \in Starts : \E files \in [DOMAIN sources -> Files] :
          items = [i \in DOMAIN sources |-> Ready(files[i], sources[i])]
    BY DEF Init
  <2>3. PICK files \in [DOMAIN sources -> Files] :
          items = [i \in DOMAIN sources |-> Ready(files[i], sources[i])]
    BY <2>2
  <2>4. PICK n \in 0 .. MaxItems : sources \in [1 .. n -> BOOLEAN]
    BY <2>2, SourceBounds
  <2>5. n \in Nat /\ n <= MaxItems /\ DOMAIN sources = 1 .. n
    BY <2>4, SourceBounds
  <2>6. \A i \in 1 .. n :
          /\ items[i] = Ready(files[i], sources[i])
          /\ files[i] \in Files /\ sources[i] \in BOOLEAN
    BY <2>3, <2>4, <2>5
  <2>7. \A i \in 1 .. n : items[i] \in Item /\ items[i].digest = Whole(items[i].version)
    BY <2>1, <2>6
  <2>8. DOMAIN items = 1 .. n /\ items = [i \in 1 .. n |-> items[i]]
    BY <2>3, <2>5
  <2>9. items \in Seq(Item) /\ Len(items) = n
    BY <2>5, <2>7, <2>8
  <2> QED
    BY <2>5, <2>7, <2>8, <2>9
<1>4. RoomInv /\ DiskInv
  BY <1>1, <1>2 DEF RoomInv, DiskInv
<1>5. AddInv /\ Len(add.parts) = 0
  BY <1>1 DEF AddInv, Idle
<1>6. ItemsInv
  <2>1. Len(items) \in Nat /\ Len(items) + 0 <= MaxItems
    BY <1>3, SourceBounds
  <2> QED
    BY <1>3, <1>5, <2>1 DEF ItemsInv
<1>7. DOMAIN workers = {} /\ workers = [key \in DOMAIN workers |-> workers[key]]
  BY <1>1
<1>8. QueuesOK(queue, DOMAIN workers)
  <2>1. IsFiniteSet({}) /\ Cardinality({}) = 0
    BY FS_EmptySet
  <2>2. queue \in Seq(Keys) /\ IsInjective(queue) /\ ToSet(queue) = {}
    BY <1>1 DEF IsInjective, ToSet
  <2> QED
    BY <1>1, <1>7, <2>1, <2>2, SourceBounds DEF QueuesOK
<1>9. WorkersInv /\ CacheInv
  BY <1>1, <1>7 DEF WorkersInv, CacheInv
<1>10. DownloadsInv
  <2>1. NoDownload = [NoDownload EXCEPT !.step = "idle"]
    BY DEF NoDownload
  <2>2. Sound(NoDownload)
    BY <2>1, EndsAreSound
  <2> QED
    BY <1>1, <2>2 DEF DownloadsInv
<1>11. SlotsInv
  <2>1. Open = {}
    BY <1>1 DEF Open, NoDownload
  <2> QED
    BY <1>1, <2>1, FS_EmptySet, SourceBounds DEF SlotsInv
<1>12. ClientInv
  <2>1. Nothing \in [item : {0} \union DOMAIN items, blocks : Blocks, edited : BOOLEAN]
        /\ Nothing.item = 0
    BY <1>2 DEF Nothing
  <2>2. SoundCopy(Nothing)
    BY <2>1 DEF SoundCopy
  <2> QED
    BY <1>1, <2>2 DEF ClientInv
<1> QED
  BY <1>4, <1>5, <1>6, <1>8, <1>9, <1>10, <1>11, <1>12 DEF SourceInv, HashInv, StreamInv

\* SourceInv holds in every state that the service reaches.
THEOREM SourceInvHolds == Spec => []SourceInv
<1>1. Init => SourceInv
  BY SourceInit
<1>2. SourceInv /\ [Next]_vars => SourceInv'
  BY SourceStep
<1> QED
  BY <1>1, <1>2, PTL DEF Spec

\* The digest of an item, and every digest in the cache, is that of one version
\* of the file, the registered one, whatever was saved while the worker read it
\* (sourceHashWorker, SourceHashPool.hash).
THEOREM OneVersionPerDigest == Spec => []DigestsOfOneVersion
<1>1. SourceInv => DigestsOfOneVersion
  BY DEF SourceInv, HashInv, ItemsInv, CacheInv, DigestsOfOneVersion
<1> QED
  BY <1>1, SourceInvHolds, PTL

\* No part of a request waits for a digest that is neither queued nor being
\* computed, no task waits beside a free worker, none is computed twice
\* (SourceHashPool.hash, drain, run).
THEOREM NothingIsForgotten == Spec => []NobodyWaitsForNothing
<1>1. SourceInv => NobodyWaitsForNothing
  BY DEF SourceInv, HashInv, AddInv, QueuesOK, NobodyWaitsForNothing
<1> QED
  BY <1>1, SourceInvHolds, PTL

\* The count of downloads is that of the open streams, so that no slot is lost
\* or given back twice (RoomStore.beginDownload and the release it returns).
THEOREM SlotsAreCounted == Spec => []SlotsCounted
<1>1. SourceInv => SlotsCounted
  <2> SUFFICES ASSUME SourceInv
               PROVE  SlotsCounted
    OBVIOUS
  <2>1. reads = Cardinality({d \in Downloads : dl[d].slot})
    BY DEF SourceInv, StreamInv, SlotsInv, Open
  <2>2. ASSUME NEW d \in Downloads
        PROVE  dl[d].slot = (dl[d].step \in {"stream", "verify"})
    <3>1. dl[d].slot \in BOOLEAN /\ (dl[d].slot <=> dl[d].step \in {"stream", "verify"})
      BY DEF SourceInv, StreamInv, DownloadsInv, Sound, Requests
    <3> QED
      BY <3>1
  <2> QED
    BY <2>1, <2>2 DEF SlotsCounted
<1> QED
  BY <1>1, SourceInvHolds, PTL

\* What a browser has put together of a source is of the registered version
\* unless the file was saved while it streamed (sendRoomItem).
THEOREM CopiesAreOfOneVersion == Spec => []ResumedFromOneVersion
<1>1. SourceInv => ResumedFromOneVersion
  BY DEF SourceInv, StreamInv, ClientInv, SoundCopy, ResumedFromOneVersion
<1> QED
  BY <1>1, SourceInvHolds, PTL

-----------------------------------------------------------------------------
(* Archives.                                                                *)

\* The elements of a sequence without its first one, and with one more.
LEMMA SetsOfSeqs ==
  ASSUME NEW S, NEW s \in Seq(S)
  PROVE  /\ s # <<>> => ToSet(s) = {Head(s)} \union ToSet(Tail(s))
         /\ \A x \in S : ToSet(Append(s, x)) = ToSet(s) \union {x}
         /\ ToSet(<<>>) = {}
<1>1. ASSUME s # <<>>
      PROVE  ToSet(s) = {Head(s)} \union ToSet(Tail(s))
  <2>1. /\ Len(s) \in Nat \ {0} /\ DOMAIN s = 1 .. Len(s) /\ Head(s) = s[1]
        /\ DOMAIN Tail(s) = 1 .. Len(s) - 1
        /\ \A i \in 1 .. Len(s) - 1 : Tail(s)[i] = s[i + 1]
    BY <1>1
  <2>2. ASSUME NEW i \in 1 .. Len(s)
        PROVE  s[i] \in {Head(s)} \union ToSet(Tail(s))
    <3>1. CASE i = 1
      BY <2>1, <3>1
    <3>2. CASE i # 1
      <4>1. i - 1 \in 1 .. Len(s) - 1 /\ Tail(s)[i - 1] = s[i]
        BY <2>1, <3>2
      <4> QED
        BY <2>1, <4>1 DEF ToSet
    <3> QED
      BY <3>1, <3>2
  <2>3. ASSUME NEW i \in 1 .. Len(s) - 1
        PROVE  Tail(s)[i] \in ToSet(s)
    <3>1. i + 1 \in 1 .. Len(s) /\ Tail(s)[i] = s[i + 1]
      BY <2>1
    <3> QED
      BY <2>1, <3>1 DEF ToSet
  <2>4. 1 \in 1 .. Len(s)
    BY <2>1
  <2> QED
    BY <2>1, <2>2, <2>3, <2>4 DEF ToSet
<1>2. ASSUME NEW x \in S
      PROVE  ToSet(Append(s, x)) = ToSet(s) \union {x}
  <2>1. /\ DOMAIN s = 1 .. Len(s) /\ Len(s) \in Nat
        /\ DOMAIN Append(s, x) = 1 .. Len(s) + 1
        /\ \A i \in 1 .. Len(s) : Append(s, x)[i] = s[i]
        /\ Append(s, x)[Len(s) + 1] = x
    OBVIOUS
  <2> QED
    BY <2>1 DEF ToSet
<1>3. ToSet(<<>>) = {}
  BY DEF ToSet
<1> QED
  BY <1>1, <1>2, <1>3

\* The versions of the parts and of the items are not ahead of the files.
LEMMA PartsStayFresh ==
  ASSUME SourceInv, FreshInv, UNCHANGED <<disk, items>>,
         \/ \E files \in BoundedSeq(Files, 2) : AddFiles(files)
         \/ PoolStep
         \/ add' = Idle
         \/ UNCHANGED add
  PROVE  FreshInv'
<1>1. /\ add \in [busy : BOOLEAN, copy : Nat, parts : Seq(Part)]
      /\ disk \in [Files -> Versions] /\ \A f \in Files : disk[f] \in Nat
  BY SourceBounds DEF SourceInv, HashInv, AddInv, DiskInv, Versions
<1>2. add.parts \in Seq(Part) /\ \A k \in DOMAIN add.parts : add.parts[k] \in Part
  BY <1>1
<1>3. SUFFICES \A k \in DOMAIN add'.parts : add'.parts[k].version <= disk[add'.parts[k].file]
  BY DEF FreshInv
<1>4. ASSUME NEW files \in BoundedSeq(Files, 2), AddFiles(files)
      PROVE  \A k \in DOMAIN add'.parts : add'.parts[k].version <= disk[add'.parts[k].file]
  <2>1. /\ DOMAIN add'.parts = DOMAIN files
        /\ \A k \in DOMAIN files : /\ add'.parts[k].version = 0
                                   /\ add'.parts[k].file = files[k]
    BY <1>4 DEF AddFiles
  <2>2. \A k \in DOMAIN files : files[k] \in Files
    BY <1>4 DEF BoundedSeq, SeqOf
  <2> QED
    BY <1>1, <2>1, <2>2
<1>5. CASE add' = Idle
  <2>1. add'.parts = <<>>
    BY <1>5 DEF Idle
  <2> QED
    BY <2>1
<1>6. CASE UNCHANGED add
  BY <1>6 DEF FreshInv
<1>7. ASSUME NEW k \in DOMAIN add.parts, NEW step, NEW digest, Hashed(k, step, digest)
      PROVE  \A j \in DOMAIN add'.parts : add'.parts[j].version <= disk[add'.parts[j].file]
  <2>1. add'.parts = [add.parts EXCEPT ![k] = [file |-> add.parts[k].file,
                        version |-> disk[add.parts[k].file], digest |-> digest, step |-> step]]
    BY <1>1, <1>7 DEF Hashed
  <2>2. /\ DOMAIN add'.parts = DOMAIN add.parts
        /\ add'.parts[k].version = disk[add'.parts[k].file]
        /\ add'.parts[k].file = add.parts[k].file
        /\ \A j \in DOMAIN add.parts \ {k} : add'.parts[j] = add.parts[j]
    BY <2>1
  <2>3. disk[add.parts[k].file] \in Nat
    BY <1>1, <1>2 DEF Part
  <2> QED
    BY <2>2, <2>3 DEF FreshInv
<1>8. ASSUME NEW key, NEW step, NEW digest, Told(key, step, digest)
      PROVE  \A k \in DOMAIN add'.parts : add'.parts[k].version <= disk[add'.parts[k].file]
  <2>1. /\ DOMAIN add'.parts = DOMAIN add.parts
        /\ \A k \in DOMAIN add.parts :
             add'.parts[k] = IF add.parts[k].step = "wait"
                                /\ <<add.parts[k].file, add.parts[k].version>> = key
                             THEN [add.parts[k] EXCEPT !.step = step, !.digest = digest]
                             ELSE add.parts[k]
    BY <1>1, <1>8 DEF Told
  <2>2. ASSUME NEW k \in DOMAIN add.parts
        PROVE  /\ add'.parts[k].version = add.parts[k].version
               /\ add'.parts[k].file = add.parts[k].file
    BY <1>2, <2>1 DEF Part
  <2> QED
    BY <2>1, <2>2 DEF FreshInv
<1>9. CASE PoolStep
  <2>1. ASSUME NEW k \in DOMAIN add.parts, StatSource(k)
        PROVE  \E step, digest : Hashed(k, step, digest)
    BY <2>1 DEF StatSource, CacheMiss, CacheHit, NoSource
  <2>2. ASSUME NEW key \in DOMAIN workers,
               WorkerAnswers(key) \/ WorkerDies(key)
        PROVE  \E step, digest : Told(key, step, digest)
    BY <2>2 DEF WorkerAnswers, WorkerDies, WorkerFails
  <2>3. ASSUME NEW key \in DOMAIN workers, WorkerReads(key)
        PROVE  UNCHANGED add
    BY <2>3 DEF WorkerReads
  <2> QED
    BY <1>6, <1>7, <1>8, <1>9, <2>1, <2>2, <2>3 DEF PoolStep
<1> QED
  BY <1>4, <1>5, <1>6, <1>9

\* New items are as fresh as the parts that they are made of.
LEMMA ItemsStayFresh ==
  ASSUME SourceInv, FreshInv, NEW free \in 0 .. MaxItems, AddItems(free)
  PROVE  FreshInv'
<1> DEFINE inserted == Lesser(Len(add.parts), free + 1)
           new == [k \in 1 .. inserted |-> ItemOf(add.parts[k])]
<1>1. /\ add' = Idle /\ UNCHANGED disk
      /\ items' = items \/ items' = items \o new
  BY DEF AddItems, store
<1>2. add'.parts = <<>>
  BY <1>1 DEF Idle
<1>3. /\ items \in Seq(Item) /\ Len(items) \in Nat /\ DOMAIN items = 1 .. Len(items)
      /\ add.parts \in Seq(Part) /\ Len(add.parts) \in Nat
      /\ DOMAIN add.parts = 1 .. Len(add.parts)
  BY DEF SourceInv, HashInv, ItemsInv, AddInv
<1>4. inserted \in Nat /\ inserted <= Len(add.parts)
  BY <1>3, SourceBounds DEF Lesser
<1>5. \A k \in 1 .. inserted : /\ new[k].version = add.parts[k].version
                              /\ new[k].file = add.parts[k].file /\ k \in DOMAIN add.parts
  BY <1>3, <1>4 DEF ItemOf
<1>6. /\ Len(new) = inserted
      /\ \A k \in 1 .. inserted : new[k].version <= disk[new[k].file]
  BY <1>4, <1>5 DEF FreshInv
<1> HIDE DEF new, inserted
<1>7. ASSUME items' = items \o new, NEW i \in DOMAIN items'
      PROVE  items'[i].version <= disk[items'[i].file]
  <2>1. /\ DOMAIN items' = 1 .. Len(items) + inserted
        /\ \A j \in 1 .. Len(items) : items'[j] = items[j]
        /\ \A j \in Len(items) + 1 .. Len(items) + inserted : items'[j] = new[j - Len(items)]
    BY <1>3, <1>4, <1>6, <1>7 DEF new
  <2>2. CASE i \in 1 .. Len(items)
    BY <1>3, <2>1, <2>2 DEF FreshInv
  <2>3. CASE i \notin 1 .. Len(items)
    <3>1. i \in Len(items) + 1 .. Len(items) + inserted /\ i - Len(items) \in 1 .. inserted
      BY <1>3, <1>4, <2>1, <2>3
    <3> QED
      BY <1>6, <2>1, <3>1
  <2> QED
    BY <2>2, <2>3
<1> QED
  BY <1>1, <1>2, <1>7 DEF FreshInv

\* What was right, or had changed, stays so, as long as items are only added
\* and what has changed does not change back.
LEMMA PackingLasts ==
  ASSUME ItemsGrow,
         \A i \in DOMAIN items : Changed(items[i]) => disk'[items[i].file] # items[i].version
  PROVE  /\ \A request \in Requests(DOMAIN items) : Packing(request) => Packing(request)'
         /\ \A a : Complete(a) => Complete(a)'
<1>1. /\ DOMAIN items \subseteq DOMAIN items'
      /\ \A i \in DOMAIN items : items'[i] = items[i]
  BY DEF ItemsGrow
<1>2. ASSUME NEW packed \in SUBSET ((DOMAIN items) \X Blocks), PackedRight(packed)
      PROVE  PackedRight(packed)'
  <2>1. \A e \in packed : e[1] \in DOMAIN items
    BY <1>2
  <2> QED
    BY <1>1, <1>2, <2>1 DEF PackedRight
<1>3. ASSUME NEW wanted \in SUBSET (DOMAIN items), NEW left, NEW packed,
             Covered(wanted, left, packed)
      PROVE  Covered(wanted, left, packed)'
  BY <1>1, <1>3 DEF Covered, Changed
<1>4. ASSUME NEW request \in Requests(DOMAIN items), Packing(request)
      PROVE  Packing(request)'
  <2>1. /\ request.wanted \in SUBSET (DOMAIN items)
        /\ request.packed \in SUBSET ((DOMAIN items) \X Blocks)
    BY DEF Requests
  <2> QED
    BY <1>2, <1>3, <1>4, <2>1 DEF Packing, Left
<1>5. ASSUME NEW a, Complete(a)
      PROVE  Complete(a)'
  <2>1. /\ a.wanted \in SUBSET (DOMAIN items)
        /\ a.packed \in SUBSET ((DOMAIN items) \X Blocks)
    BY <1>5 DEF Complete
  <2>2. PackedRight(a.packed)' /\ Covered(a.wanted, {}, a.packed)'
    BY <1>2, <1>3, <1>5, <2>1 DEF Complete
  <2>3. a \in [wanted : SUBSET (DOMAIN items'), packed : SUBSET ((DOMAIN items') \X Blocks)]
    BY <1>1, <1>5 DEF Complete
  <2> QED
    BY <2>2, <2>3 DEF Complete
<1> QED
  BY <1>4, <1>5

\* One download moves, and all that its archive wants stays in view.
LEMMA OnePacks ==
  ASSUME SourceInv, ArchiveInv, UNCHANGED <<disk, items, add>>, NEW d \in Downloads,
         NEW request, Packing(request), dl' = [dl EXCEPT ![d] = request],
         \A a \in archived' : a \in archived \/ Complete(a)
  PROVE  ArchiveInv'
<1>1. FreshInv'
  BY PartsStayFresh DEF ArchiveInv
<1>2. \A e \in Downloads : dl'[e] = IF e = d THEN request ELSE dl[e]
  BY DEF SourceInv, StreamInv, DownloadsInv
<1>3. \A e \in Downloads : Packing(dl'[e])
  BY <1>2 DEF ArchiveInv
<1>4. \A e \in Downloads : Packing(dl[e])'
  BY <1>3 DEF Packing, PackedRight, Covered, Left, Changed
<1>5. \A a \in archived' : Complete(a)
  BY DEF ArchiveInv
<1>6. \A a \in archived' : Complete(a)'
  BY <1>5 DEF Complete, PackedRight, Covered, Changed
<1> QED
  BY <1>1, <1>4, <1>6 DEF ArchiveInv

\* A download that packs nothing and wants nothing.
LEMMA NothingToPack ==
  ASSUME NEW request, request.wanted = {}, request.packed = {}
  PROVE  Packing(request)
BY DEF Packing, PackedRight, Covered

\* The end of a download, of an archive or not.
LEMMA EndPacks ==
  ASSUME SourceInv, ArchiveInv, UNCHANGED <<disk, items, add>>, NEW d \in Downloads,
         NEW step, dl' = [dl EXCEPT ![d] = [NoDownload EXCEPT !.step = step]],
         \A a \in archived' : a \in archived \/ Complete(a)
  PROVE  ArchiveInv'
<1> DEFINE ended == [NoDownload EXCEPT !.step = step]
<1>1. ended.wanted = {} /\ ended.packed = {}
  BY DEF NoDownload
<1> HIDE DEF ended
<1> QED
  BY <1>1, NothingToPack, OnePacks DEF ended

\* The steps of an archive before it streams.
LEMMA PreparationPacks ==
  ASSUME SourceInv, ArchiveInv, NEW d \in Downloads,
         \/ \E todo \in BoundedSeq(1 .. MaxItems, MaxItems) : RequestArchive(d, todo)
         \/ Prepare(d)
         \/ BeginArchive(d)
         \/ CheckSource(d)
  PROVE  ArchiveInv'
<1>0. /\ UNCHANGED <<disk, items, add, archived>> /\ HashInv /\ StreamInv /\ DownloadsInv
      /\ \A a \in archived' : a \in archived \/ Complete(a)
  BY DEF RequestArchive, Prepare, BeginArchive, CheckSource, store, client,
         SourceInv, StreamInv
<1>1. /\ dl[d] \in Requests(DOMAIN items) /\ Sound(dl[d]) /\ Packing(dl[d])
      /\ dl[d].todo \in Seq(DOMAIN items) /\ dl[d].kept \in Seq(DOMAIN items)
  BY <1>0, DownloadFacts DEF ArchiveInv
<1>2. ASSUME NEW todo \in BoundedSeq(1 .. MaxItems, MaxItems), RequestArchive(d, todo)
      PROVE  ArchiveInv'
  <2> DEFINE request == [NoDownload EXCEPT
               !.step = "prepare", !.archive = TRUE, !.copy = room.event, !.todo = todo,
               !.wanted = ToSet(todo)]
  <2>1. dl' = [dl EXCEPT ![d] = request]
    BY <1>2 DEF RequestArchive
  <2>2. request.wanted = ToSet(todo) /\ request.todo = todo /\ request.packed = {}
    BY DEF NoDownload
  <2> HIDE DEF request
  <2>3. Packing(request)
    BY <2>2 DEF Packing, PackedRight, Covered, Left
  <2> QED
    BY <1>0, <2>1, <2>3, OnePacks
<1>3. CASE Prepare(d)
  <2> DEFINE kept == IF Changed(Current(d)) THEN dl[d].kept
                     ELSE Append(dl[d].kept, Head(dl[d].todo))
             request == [dl[d] EXCEPT !.todo = Tail(dl[d].todo), !.kept = kept]
  <2>1. /\ dl' = [dl EXCEPT ![d] = request] /\ dl[d].step = "prepare" /\ dl[d].todo # <<>>
    BY <1>0, <1>3 DEF Prepare, DownloadsInv
  <2>2. Head(dl[d].todo) \in DOMAIN items
    BY <1>1, <2>1, HeadTailProperties
  <2>3. /\ ToSet(dl[d].todo) = {Head(dl[d].todo)} \union ToSet(Tail(dl[d].todo))
        /\ ToSet(kept) = ToSet(dl[d].kept) \union
                           (IF Changed(Current(d)) THEN {} ELSE {Head(dl[d].todo)})
    BY <1>1, <2>1, <2>2, SetsOfSeqs
  <2> HIDE DEF kept
  <2>4. /\ request.wanted = dl[d].wanted /\ request.packed = dl[d].packed
        /\ request.todo = Tail(dl[d].todo) /\ request.kept = kept
        /\ request.step = "prepare"
    BY <1>1, <2>1 DEF Requests
  <2> HIDE DEF request
  <2>5. Packing(request)
    BY <1>1, <2>1, <2>3, <2>4 DEF Packing, Covered, Left, Current
  <2> QED
    BY <1>0, <2>1, <2>5, OnePacks
<1>4. CASE BeginArchive(d) \/ CheckSource(d)
  <2>1. CASE Answered(d)
    <3>1. dl' = [dl EXCEPT ![d] = [NoDownload EXCEPT !.step = "idle"]]
      BY <2>1 DEF Answered, NoDownload
    <3> QED
      BY <1>0, <3>1, EndPacks
  <2>2. CASE Begun(d)
    <3> DEFINE todo == IF dl[d].archive THEN dl[d].kept ELSE dl[d].todo
               request == [dl[d] EXCEPT !.step = "stream", !.slot = TRUE, !.todo = todo]
    <3>1. dl' = [dl EXCEPT ![d] = request]
      BY <1>0, <2>2 DEF Begun, DownloadsInv
    <3>2. ToSet(todo) = Left(dl[d])
      <4>1. CASE BeginArchive(d)
        <5>1. dl[d].step = "prepare" /\ dl[d].todo = <<>> /\ dl[d].archive
          BY <1>1, <4>1 DEF BeginArchive, Sound
        <5>2. ToSet(dl[d].todo) = {}
          BY <1>1, <5>1, SetsOfSeqs
        <5> QED
          BY <5>1, <5>2 DEF Left
      <4>2. CASE CheckSource(d)
        BY <1>1, <4>2 DEF CheckSource, Sound, Left
      <4> QED
        BY <1>4, <4>1, <4>2
    <3> HIDE DEF todo
    <3>3. /\ request.wanted = dl[d].wanted /\ request.packed = dl[d].packed
          /\ request.todo = todo /\ request.step = "stream"
      BY <1>1 DEF Requests
    <3> HIDE DEF request
    <3>4. Left(request) = Left(dl[d])
      BY <3>2, <3>3 DEF Left
    <3>5. Packing(request)
      BY <1>1, <3>3, <3>4 DEF Packing
    <3> QED
      BY <1>0, <3>1, <3>5, OnePacks
  <2> QED
    BY <1>4, <2>1, <2>2 DEF BeginArchive, CheckSource
<1> QED
  BY <1>2, <1>3, <1>4

\* An entry that is what was registered joins those that are packed; after the
\* last one the archive is complete.
LEMMA VerifiedEntryPacks ==
  ASSUME SourceInv, ArchiveInv, NEW d \in Downloads, VerifyEntry(d)
  PROVE  ArchiveInv'
<1> DEFINE packed == dl[d].packed \union {<<Head(dl[d].todo), dl[d].sent>>}
           request == [dl[d] EXCEPT !.step = "stream", !.todo = Tail(dl[d].todo),
                                    !.sent = <<>>, !.copy = dl[d].copy + 1,
                                    !.packed = packed]
           finished == [wanted |-> dl[d].wanted, packed |-> packed]
<1>0. UNCHANGED <<disk, items, add>> /\ HashInv /\ StreamInv /\ DownloadsInv
  BY DEF VerifyEntry, SourceInv, StreamInv
<1>1. /\ dl[d].step = "verify" /\ dl[d].sent = items[Head(dl[d].todo)].digest
      /\ \/ /\ Len(dl[d].todo) > 1 /\ dl' = [dl EXCEPT ![d] = request]
            /\ archived' = archived
         \/ /\ ~ Len(dl[d].todo) > 1
            /\ dl' = [dl EXCEPT ![d] = [NoDownload EXCEPT !.step = "closing"]]
            /\ archived' = archived \union {finished}
  BY <1>0 DEF VerifyEntry, Verified, Current, Ended, DownloadsInv
<1>2. /\ dl[d] \in Requests(DOMAIN items) /\ Sound(dl[d]) /\ Packing(dl[d])
      /\ dl[d].todo \in Seq(DOMAIN items) /\ dl[d].sent \in Blocks
      /\ dl[d].wanted \subseteq DOMAIN items
      /\ dl[d].packed \subseteq (DOMAIN items) \X Blocks
  BY <1>0, DownloadFacts DEF ArchiveInv, Requests
<1>3. /\ dl[d].todo # <<>> /\ Head(dl[d].todo) \in DOMAIN items
      /\ ToSet(dl[d].todo) = {Head(dl[d].todo)} \union ToSet(Tail(dl[d].todo))
  BY <1>1, <1>2, HeadTailProperties, SetsOfSeqs DEF Sound
<1>4. PackedRight(packed) /\ packed \subseteq (DOMAIN items) \X Blocks
  <2>1. PackedRight(dl[d].packed)
    BY <1>2 DEF Packing
  <2>2. packed \subseteq (DOMAIN items) \X Blocks
    <3> HIDE DEF Blocks
    <3> QED
      BY <1>2, <1>3
  <2> QED
    BY <1>1, <2>1, <2>2 DEF PackedRight
<1>5. Covered(dl[d].wanted, ToSet(Tail(dl[d].todo)), packed)
  <2> SUFFICES ASSUME NEW i \in dl[d].wanted, i \notin ToSet(Tail(dl[d].todo)),
                      ~ Changed(items[i])
               PROVE  \E e \in packed : e[1] = i
    BY DEF Covered
  <2>1. i \in ToSet(dl[d].todo) \/ \E e \in dl[d].packed : e[1] = i
    BY <1>1, <1>2 DEF Packing, Covered, Left
  <2>2. CASE i = Head(dl[d].todo)
    <3>1. <<Head(dl[d].todo), dl[d].sent>> \in packed
      OBVIOUS
    <3> QED
      BY <2>2, <3>1
  <2> QED
    BY <1>3, <2>1, <2>2
<1> HIDE DEF packed
<1>6. CASE Len(dl[d].todo) > 1 /\ dl' = [dl EXCEPT ![d] = request] /\ archived' = archived
  <2>1. /\ request.wanted = dl[d].wanted /\ request.packed = packed
        /\ request.todo = Tail(dl[d].todo) /\ request.step = "stream"
    BY <1>2 DEF Requests
  <2> HIDE DEF request
  <2>2. Packing(request)
    BY <1>4, <1>5, <2>1 DEF Packing, Left, Covered
  <2> QED
    BY <1>0, <1>6, <2>2, OnePacks
<1>7. CASE /\ ~ Len(dl[d].todo) > 1
           /\ dl' = [dl EXCEPT ![d] = [NoDownload EXCEPT !.step = "closing"]]
           /\ archived' = archived \union {finished}
  <2>1. ToSet(Tail(dl[d].todo)) = {}
    <3> DEFINE todo == dl[d].todo
    <3>1. todo \in Seq(DOMAIN items) /\ todo # <<>> /\ ~ Len(todo) > 1
      BY <1>2, <1>3, <1>7
    <3> HIDE DEF todo
    <3>2. /\ Len(todo) \in Nat /\ Len(Tail(todo)) = Len(todo) - 1
          /\ Tail(todo) \in Seq(DOMAIN items)
      BY <3>1, HeadTailProperties, LenProperties
    <3>3. Len(todo) # 0
      BY <3>1, EmptySeq
    <3>4. Len(Tail(todo)) = 0
      BY <3>1, <3>2, <3>3
    <3>5. Tail(todo) = <<>>
      BY <3>2, <3>4, EmptySeq
    <3> QED
      BY <3>5 DEF todo, ToSet
  <2>2. Complete(finished)
    BY <1>2, <1>4, <1>5, <2>1 DEF Complete
  <2> HIDE DEF finished
  <2>3. \A a \in archived' : a \in archived \/ Complete(a)
    BY <1>7, <2>2
  <2> QED
    BY <1>0, <1>7, <2>3, EndPacks
<1> QED
  BY <1>1, <1>6, <1>7

\* Every step of a download keeps ArchiveInv.
LEMMA DownloadStepKeepsArchives ==
  ASSUME SourceInv, ArchiveInv, NEW d \in Downloads, DownloadStep(d), ~ ReportKills(d)
  PROVE  ArchiveInv'
<1>0. HashInv /\ StreamInv /\ DownloadsInv
  BY DEF SourceInv, StreamInv
<1>1. /\ dl[d] \in Requests(DOMAIN items) /\ Packing(dl[d])
  BY <1>0, DownloadFacts DEF ArchiveInv
<1>2. ASSUME NEW i, NEW from, Request(d, i, from)
      PROVE  ArchiveInv'
  <2> DEFINE request == [NoDownload EXCEPT
               !.step = "stat", !.todo = <<i>>, !.copy = room.event,
               !.sent = SubSeq(have[d].blocks, 1, from),
               !.edited = from > 0 /\ have[d].edited]
  <2>1. dl' = [dl EXCEPT ![d] = request] /\ UNCHANGED <<disk, items, add, archived>>
    BY <1>2 DEF Request, store
  <2>2. request.wanted = {} /\ request.packed = {}
    BY DEF NoDownload
  <2> HIDE DEF request
  <2> QED
    BY <2>1, <2>2, NothingToPack, OnePacks
<1>3. CASE Read(d) \/ ReadAndReport(d) \/ EndEntry(d)
  <2> DEFINE request == dl'[d]
  <2>1. /\ UNCHANGED <<disk, items, add, archived>> /\ dl[d].step = "stream"
        /\ dl' = [dl EXCEPT ![d] = request]
        /\ request.step \in {"stream", "verify"} /\ request.todo = dl[d].todo
        /\ request.wanted = dl[d].wanted /\ request.packed = dl[d].packed
    <3>1. CASE Read(d)
      BY <1>0, <1>1, <3>1 DEF Read, Streaming, store, client, DownloadsInv, Requests
    <3>2. CASE ReadAndReport(d)
      BY <1>0, <1>1, <3>2 DEF ReadAndReport, Streaming, client, DownloadsInv, Requests
    <3>3. CASE EndEntry(d)
      BY <1>0, <1>1, <3>3 DEF EndEntry, store, client, DownloadsInv, Requests
    <3> QED
      BY <1>3, <3>1, <3>2, <3>3
  <2> HIDE DEF request
  <2>2. Packing(request)
    BY <1>1, <2>1 DEF Packing, Left, Covered
  <2> QED
    BY <2>1, <2>2, OnePacks
<1>4. CASE Flush(d) \/ CutOff(d) \/ BreakArchive(d) \/ Closed(d)
  <2>1. /\ UNCHANGED <<disk, items, add, archived>>
        /\ \E step : dl' = [dl EXCEPT ![d] = [NoDownload EXCEPT !.step = step]]
    BY <1>4 DEF Flush, CutOff, BreakArchive, Closed, Ended, store, client
  <2> QED
    BY <2>1, EndPacks
<1>5. CASE VerifyEntry(d)
  BY <1>5, VerifiedEntryPacks
<1> QED
  BY <1>2, <1>3, <1>4, <1>5, PreparationPacks DEF DownloadStep

\* A saved file is of a version that it has not been, and stays so.
LEMMA EditKeepsArchives ==
  ASSUME SourceInv, ArchiveInv, NEW f \in Files, NEW version \in Versions, Edit(f, version)
  PROVE  ArchiveInv'
<1>0. HashInv /\ StreamInv
  BY DEF SourceInv
<1>1. /\ disk' = [disk EXCEPT ![f] = version] /\ UNCHANGED <<items, add, archived>>
      /\ \A g \in Files : disk[g] < version
      /\ dl' = [d \in Downloads |->
                  IF dl[d].step = "stream" /\ Current(d).file = f
                  THEN [dl[d] EXCEPT !.edited = TRUE] ELSE dl[d]]
      /\ disk \in [Files -> Versions]
  BY <1>0 DEF Edit, store, client, HashInv, DiskInv
<1>2. \A g \in Files : disk[g] \in Nat /\ disk'[g] \in Nat /\ disk[g] <= disk'[g]
  BY <1>1, SourceBounds DEF Versions
<1>3. /\ \A i \in DOMAIN items : items[i].file \in Files /\ items[i].version \in Nat
      /\ \A k \in DOMAIN add.parts : add.parts[k].file \in Files /\ add.parts[k].version \in Nat
  <2>1. items \in Seq(Item) /\ add.parts \in Seq(Part)
    BY <1>0 DEF HashInv, ItemsInv, AddInv
  <2>2. (\A i \in DOMAIN items : items[i] \in Item) /\ \A k \in DOMAIN add.parts : add.parts[k] \in Part
    BY <2>1
  <2> QED
    BY <2>2, SourceBounds DEF Item, Part, Versions
<1>4. FreshInv'
  <2>1. \A i \in DOMAIN items : items[i].version <= disk'[items[i].file]
    BY <1>2, <1>3 DEF ArchiveInv, FreshInv
  <2>2. \A k \in DOMAIN add.parts : add.parts[k].version <= disk'[add.parts[k].file]
    BY <1>2, <1>3 DEF ArchiveInv, FreshInv
  <2> QED
    BY <1>1, <2>1, <2>2 DEF FreshInv
<1>5. \A i \in DOMAIN items : Changed(items[i]) => disk'[items[i].file] # items[i].version
  <2> SUFFICES ASSUME NEW i \in DOMAIN items, Changed(items[i])
               PROVE  disk'[items[i].file] # items[i].version
    OBVIOUS
  <2>1. items[i].version < disk[items[i].file]
    BY <1>2, <1>3 DEF ArchiveInv, FreshInv, Changed
  <2> QED
    BY <1>2, <1>3, <2>1
<1>6. /\ \A request \in Requests(DOMAIN items) : Packing(request) => Packing(request)'
      /\ \A a : Complete(a) => Complete(a)'
  <2>1. ItemsGrow
    BY <1>1 DEF ItemsGrow
  <2> QED
    BY <1>5, <2>1, PackingLasts
<1>7. ASSUME NEW d \in Downloads
      PROVE  Packing(dl[d])'
  <2>1. dl[d] \in Requests(DOMAIN items) /\ Packing(dl[d])
    BY <1>0, DownloadFacts DEF ArchiveInv, StreamInv
  <2>2. /\ dl'[d].step = dl[d].step /\ dl'[d].todo = dl[d].todo
        /\ dl'[d].kept = dl[d].kept
        /\ dl'[d].wanted = dl[d].wanted /\ dl'[d].packed = dl[d].packed
    BY <1>1, <2>1 DEF Requests
  <2>3. Left(dl[d])' = Left(dl[d])
    BY <2>2 DEF Left
  <2>4. dl[d].wanted \subseteq DOMAIN items
    BY <2>1 DEF Requests
  <2>5. PackedRight(dl[d].packed)'
    BY <1>1, <2>1, <2>2 DEF Packing, PackedRight
  <2>6. Covered(dl[d].wanted, Left(dl[d]), dl[d].packed)'
    BY <1>1, <1>5, <2>1, <2>2, <2>3, <2>4 DEF Packing, Covered, Changed
  <2> QED
    BY <2>5, <2>6 DEF Packing
<1>8. \A a \in archived' : Complete(a)'
  BY <1>1, <1>6 DEF ArchiveInv
<1> QED
  BY <1>4, <1>7, <1>8 DEF ArchiveInv

\* Steps that leave the downloads, the items and the files alone.
LEMMA OtherStepsKeepArchives ==
  ASSUME ArchiveInv, FreshInv', UNCHANGED <<disk, items, archived>>,
         UNCHANGED dl \/ dl' = [d \in Downloads |-> NoDownload]
  PROVE  ArchiveInv'
<1>1. \A a \in archived' : Complete(a)'
  BY DEF ArchiveInv, Complete, PackedRight, Covered, Changed
<1>2. CASE UNCHANGED dl
  <2>1. \A d \in Downloads : Packing(dl[d])'
    BY <1>2 DEF ArchiveInv, Packing, PackedRight, Covered, Left, Changed
  <2> QED
    BY <1>1, <2>1 DEF ArchiveInv
<1>3. CASE dl' = [d \in Downloads |-> NoDownload]
  <2>1. \A d \in Downloads : dl'[d].wanted = {} /\ dl'[d].packed = {}
    BY <1>3 DEF NoDownload
  <2>2. \A d \in Downloads : Packing(dl[d])'
    BY <2>1 DEF Packing, PackedRight, Covered
  <2> QED
    BY <1>1, <2>2 DEF ArchiveInv
<1> QED
  BY <1>2, <1>3

\* Every step keeps ArchiveInv.
LEMMA ArchiveStep ==
  SourceInv /\ ArchiveInv /\ [Next]_vars => ArchiveInv'
<1> SUFFICES ASSUME SourceInv, ArchiveInv, [Next]_vars
             PROVE  ArchiveInv'
  OBVIOUS
<1>0. HashInv /\ StreamInv /\ FreshInv
  BY DEF SourceInv, ArchiveInv
<1>1. CASE \/ \E files \in BoundedSeq(Files, 2) : AddFiles(files)
           \/ AddFails \/ PoolStep
  <2>1. UNCHANGED <<disk, items, archived, dl>>
    BY <1>1 DEF AddFiles, AddFails, PoolStep, StatSource, WorkerReads, WorkerAnswers,
                WorkerDies, store, client
  <2>2. FreshInv'
    BY <1>0, <1>1, <2>1, PartsStayFresh DEF AddFails
  <2> QED
    BY <2>1, <2>2, OtherStepsKeepArchives
<1>2. ASSUME NEW free \in 0 .. MaxItems, AddItems(free)
      PROVE  ArchiveInv'
  <2>1. FreshInv' /\ ItemsGrow /\ UNCHANGED <<disk, dl, archived>>
    BY <1>0, <1>2, ItemsStayFresh, AddItemsKeepsHash DEF AddItems, client
  <2>2. /\ \A request \in Requests(DOMAIN items) : Packing(request) => Packing(request)'
        /\ \A a : Complete(a) => Complete(a)'
    BY <2>1, PackingLasts DEF Changed
  <2>3. \A d \in Downloads : dl[d] \in Requests(DOMAIN items) /\ Packing(dl[d])
    BY <1>0, DownloadFacts DEF ArchiveInv, StreamInv
  <2>4. \A r \in Requests(DOMAIN items) : Packing(r) =>
          PackedRight(r.packed)' /\ Covered(r.wanted, Left(r), r.packed)'
    BY <2>2 DEF Packing
  <2>5. \A d \in Downloads : Packing(dl[d])'
    BY <2>1, <2>3, <2>4 DEF Packing, PackedRight, Covered, Left
  <2> QED
    BY <2>1, <2>2, <2>5 DEF ArchiveInv
<1>3. ASSUME NEW d \in Downloads, DownloadStep(d)
      PROVE  ArchiveInv'
  <2>1. CASE ReportKills(d)
    <3>1. /\ add' = Idle /\ UNCHANGED <<disk, items, archived>>
          /\ dl' = [e \in Downloads |-> NoDownload]
      BY <2>1 DEF ReportKills, client
    <3>2. FreshInv'
      BY <1>0, <3>1, PartsStayFresh
    <3> QED
      BY <3>1, <3>2, OtherStepsKeepArchives
  <2> QED
    BY <1>3, <2>1, DownloadStepKeepsArchives
<1>4. ASSUME NEW f \in Files, NEW version \in Versions, Edit(f, version)
      PROVE  ArchiveInv'
  BY <1>4, EditKeepsArchives
<1>5. CASE Announce \/ ResetRoom \/ UNCHANGED vars
  <2>1. UNCHANGED <<disk, items, archived, dl, add>>
    BY <1>5 DEF Announce, ResetRoom, vars, store, client
  <2>2. FreshInv'
    BY <1>0, <2>1, PartsStayFresh
  <2> QED
    BY <2>1, <2>2, OtherStepsKeepArchives
<1> QED
  BY <1>1, <1>2, <1>3, <1>4, <1>5 DEF Next

\* The room starts with files as they are, and with no archive.
LEMMA ArchiveInit ==
  Init => ArchiveInv
<1> SUFFICES ASSUME Init
             PROVE  ArchiveInv
  OBVIOUS
<1>1. /\ disk = [f \in Files |-> 0] /\ add = Idle /\ archived = {}
      /\ dl = [d \in Downloads |-> NoDownload]
  BY DEF Init
<1>2. ASSUME NEW i \in DOMAIN items
      PROVE  items[i].version <= disk[items[i].file]
  <2>1. PICK sources \in Starts : \E files \in [DOMAIN sources -> Files] :
          items = [j \in DOMAIN sources |-> Ready(files[j], sources[j])]
    BY DEF Init
  <2>2. PICK files \in [DOMAIN sources -> Files] :
          items = [j \in DOMAIN sources |-> Ready(files[j], sources[j])]
    BY <2>1
  <2>3. items[i] = Ready(files[i], sources[i]) /\ files[i] \in Files
    BY <2>2
  <2> QED
    BY <1>1, <2>3 DEF Ready
<1>3. FreshInv
  BY <1>1, <1>2 DEF FreshInv, Idle
<1>4. \A d \in Downloads : Packing(dl[d])
  BY <1>1, NothingToPack DEF NoDownload
<1> QED
  BY <1>1, <1>3, <1>4 DEF ArchiveInv

\* ArchiveInv holds in every state that the service reaches.
THEOREM ArchiveInvHolds == Spec => []ArchiveInv
<1>1. SourceInv /\ SourceInv' /\ ArchiveInv /\ [Next]_vars => ArchiveInv'
  BY ArchiveStep
<1> QED
  BY <1>1, ArchiveInit, SourceInvHolds, PTL DEF Spec

\* An archive that arrives complete has every source that was wanted and has
\* not changed, and all it has is of the registered version: no block of a file
\* that was saved at any moment between the request and the last check
\* (prepareRoomArchive, verifiedSourceStream, verifyCompletedSource).
THEOREM ArchivesAreWhole == Spec => []ArchivesComplete
<1>1. SourceInv /\ ArchiveInv => ArchivesComplete
  <2> SUFFICES ASSUME SourceInv, ArchiveInv, NEW a \in archived
               PROVE  /\ \A i \in a.wanted : Changed(items[i]) \/ \E e \in a.packed : e[1] = i
                      /\ \A e \in a.packed : e[2] = Whole(items[e[1]].version)
    BY DEF ArchivesComplete
  <2>1. Complete(a)
    BY DEF ArchiveInv
  <2>2. \A e \in a.packed : e[1] \in DOMAIN items /\ e[2] = items[e[1]].digest
    BY <2>1 DEF Complete, PackedRight
  <2>3. \A i \in DOMAIN items : items[i].digest = Whole(items[i].version)
    BY DEF SourceInv, HashInv, ItemsInv
  <2> QED
    BY <2>1, <2>2, <2>3 DEF Complete, Covered
<1> QED
  BY <1>1, SourceInvHolds, ArchiveInvHolds, PTL

\* The variables of the service, of its pool and of its downloads have their types.
THEOREM TypeCorrect == Spec => []TypeOK
<1>1. SourceInv /\ ArchiveInv => TypeOK
  <2> SUFFICES ASSUME SourceInv, ArchiveInv
               PROVE  TypeOK
    OBVIOUS
  <2>1. /\ items \in Seq(Item) /\ add.parts \in Seq(Part)
        /\ Len(items) + Len(add.parts) <= MaxItems
    BY DEF SourceInv, HashInv, ItemsInv, AddInv
  <2>2. Len(items) \in Nat /\ Len(add.parts) \in Nat /\ DOMAIN items = 1 .. Len(items)
    BY <2>1
  <2>3. DOMAIN items \subseteq 1 .. MaxItems
    BY <2>1, <2>2, SourceBounds
  <2>4. dl \in [Downloads -> Download]
    <3>1. Seq(DOMAIN items) \subseteq Seq(1 .. MaxItems)
      <4>1. \A S, T : S \subseteq T => Seq(S) \subseteq Seq(T)
        OBVIOUS
      <4> QED
        BY <2>3, <4>1, Zenon
    <3>2. SUBSET (DOMAIN items) \subseteq SUBSET (1 .. MaxItems)
          /\ SUBSET ((DOMAIN items) \X Blocks) \subseteq SUBSET Entry
      BY <2>3 DEF Entry
    <3>3. Requests(DOMAIN items) \subseteq Download
      BY <3>1, <3>2 DEF Requests, Download
    <3> QED
      BY <3>3 DEF SourceInv, StreamInv, DownloadsInv, Sound
  <2>5. have \in [Downloads -> [item : 0 .. MaxItems, blocks : Blocks, edited : BOOLEAN]]
    <3>1. {0} \union DOMAIN items \subseteq 0 .. MaxItems
      BY <2>3, SourceBounds
    <3>2. \A d \in Downloads :
            have[d] \in [item : {0} \union DOMAIN items, blocks : Blocks, edited : BOOLEAN]
      BY DEF SourceInv, StreamInv, ClientInv, SoundCopy
    <3>3. \A d \in Downloads :
            have[d] \in [item : 0 .. MaxItems, blocks : Blocks, edited : BOOLEAN]
      BY <3>1, <3>2
    <3> QED
      BY <3>3 DEF SourceInv, StreamInv, ClientInv
  <2>6. archived \subseteq [wanted : SUBSET (1 .. MaxItems), packed : SUBSET Entry]
    BY <2>3 DEF ArchiveInv, Complete, Entry
  <2>7. reads \in 0 .. MaxReads
    BY FS_CardinalityType, SourceBounds DEF SourceInv, StreamInv, SlotsInv
  <2>8. /\ DOMAIN workers \subseteq Keys /\ queue \in Seq(Keys)
        /\ \A key \in DOMAIN workers : workers[key] \in Blocks
    BY DEF SourceInv, HashInv, QueuesOK, WorkersInv, Clean
  <2> QED
    BY <2>1, <2>4, <2>5, <2>6, <2>7, <2>8
       DEF SourceInv, HashInv, RoomInv, DiskInv, CacheInv, AddInv, TypeOK
<1> QED
  BY <1>1, SourceInvHolds, ArchiveInvHolds, PTL

=============================================================================
