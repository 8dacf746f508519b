---------------------------- MODULE SourceReads ----------------------------
(***************************************************************************)
(* The server reads the user's files: addSourceFiles registers them with   *)
(* the digest that the worker pool computes (sourceHashPool.ts), and       *)
(* downloads stream them, one by one with ranges (roomDownload.ts) or as   *)
(* an archive (roomArchive.ts), while the files change under them.         *)
(*                                                                         *)
(* A file is a sequence of blocks; a version of it stands for its bytes,   *)
(* its size and its modification time, so every edit can be seen by stat.  *)
(* A removed file is one more version, that stat may fail on.              *)
(* A progress report publishes an event with the copy of the room that the *)
(* request read at authorization (RoomEvents has the whole story of those  *)
(* copies).  Left out: HEAD and empty files, entry names, the ZIP format,  *)
(* the progress numbers, the limits of a room and the cancelling of items. *)
(***************************************************************************)
EXTENDS ByteRanges, Sequences, SequencesExt, FiniteSets

CONSTANTS
  Files, Downloads,
  Starts,        \* the rooms at the start: of each item, whether it is a source
  Size,          \* blocks of a file
  MaxItems,      \* bound on the items of the room
  MaxEdits,      \* bound on the edits
  MaxEvents,     \* bound on the event identifiers
  MaxReads,      \* maxActiveReads
  MaxWorkers, MaxCache

ASSUME SourceBounds ==
  /\ Size \in Nat \ {0} /\ MaxReads \in Nat \ {0} /\ MaxWorkers \in Nat \ {0}
  /\ MaxItems \in Nat \ {0, 1}
  /\ MaxEdits \in Nat /\ MaxEvents \in Nat /\ MaxCache \in Nat
  /\ Starts \subseteq UNION {[1 .. n -> BOOLEAN] : n \in 0 .. MaxItems}

VARIABLES
  disk,          \* the version of each file
  room, log,     \* the room's row, and the identifiers in room_events
  items,         \* the ready items, by insertion
  add,           \* the request of addSourceFiles that is in progress
  queue, workers, cache,   \* the pool
  reads,         \* activeReads
  dl,            \* the download requests
  have,          \* what each browser holds of one item
  archived,      \* the archives that arrived complete
  up             \* the service process lives

store == <<room, log, items>>
pool == <<queue, workers, cache>>
client == <<have, archived>>
vars == <<disk, store, add, pool, reads, dl, client, up>>

-----------------------------------------------------------------------------

Versions == 0 .. MaxEdits
Blocks == UNION {[1 .. n -> Versions] : n \in 0 .. Size}
Whole(version) == [b \in 1 .. Size |-> version]
Keys == Files \X Versions

\* Source items are the user's own files; the others were received from a device.
Item == [file : Files, version : Versions, digest : Blocks, source : BOOLEAN]
Part == [file : Files, version : Versions, digest : Blocks,
         step : {"stat", "wait", "done", "failed"}]
Idle == [busy |-> FALSE, copy |-> 0, parts |-> <<>>]

\* An entry of an archive: the item and the blocks that were packed for it.
Entry == (1 .. MaxItems) \X Blocks

\* A download: its stage, the items to come and those an archive has kept, its
\* copy of the event identifier, the blocks of the item it sends, its slot, and
\* whether the item changed while the stream was open.  Of an archive also the
\* sources that the room had when it was asked for, and what is packed so far.
Download == [step : {"idle", "stat", "stream", "prepare", "verify", "closing"},
             todo : Seq(1 .. MaxItems), kept : Seq(1 .. MaxItems),
             archive : BOOLEAN, copy : Nat, sent : Blocks, slot : BOOLEAN,
             edited : BOOLEAN, wanted : SUBSET (1 .. MaxItems), packed : SUBSET Entry]
NoDownload == [step |-> "idle", todo |-> <<>>, kept |-> <<>>, archive |-> FALSE,
               copy |-> 0, sent |-> <<>>, slot |-> FALSE, edited |-> FALSE,
               wanted |-> {}, packed |-> {}]
Nothing == [item |-> 0, blocks |-> <<>>, edited |-> FALSE]

TypeOK ==
  /\ disk \in [Files -> Versions]
  /\ room \in [live : BOOLEAN, event : Nat] /\ log \subseteq Nat
  /\ items \in Seq(Item)
  /\ add.parts \in Seq(Part) /\ add.busy \in BOOLEAN /\ add.copy \in Nat
  /\ queue \in Seq(Keys) /\ DOMAIN workers \subseteq Keys
  /\ \A key \in DOMAIN workers : workers[key] \in Blocks
  /\ cache \in Seq([key : Keys, digest : Blocks])
  /\ reads \in 0 .. MaxReads /\ dl \in [Downloads -> Download]
  /\ have \in [Downloads -> [item : 0 .. MaxItems, blocks : Blocks, edited : BOOLEAN]]
  /\ archived \subseteq [wanted : SUBSET (1 .. MaxItems), packed : SUBSET Entry]
  /\ up \in BOOLEAN

Ready(file, source) ==
  [file |-> file, version |-> 0, digest |-> Whole(0), source |-> source]

\* A room with an item for each of some files.
Init ==
  /\ disk = [f \in Files |-> 0]
  /\ room = [live |-> TRUE, event |-> 0] /\ log = {}
  /\ \E sources \in Starts : \E files \in [DOMAIN sources -> Files] :
       /\ IsInjective(files)
       /\ items = [i \in DOMAIN sources |-> Ready(files[i], sources[i])]
  /\ add = Idle /\ queue = <<>> /\ workers = << >> /\ cache = <<>>
  /\ reads = 0 /\ dl = [d \in Downloads |-> NoDownload]
  /\ have = [d \in Downloads |-> Nothing] /\ archived = {} /\ up = TRUE

-----------------------------------------------------------------------------
(* The room.                                                                *)

\* publish() with a copy of the room throws when the next identifier is in the
\* log or the room was deleted; the row has the new identifier all the same.
Published(copy) ==
  /\ room.live /\ copy + 1 \notin log /\ copy < MaxEvents
  /\ room' = [room EXCEPT !.event = copy + 1] /\ log' = log \union {copy + 1}
Refused(copy) ==
  /\ ~room.live \/ copy + 1 \in log
  /\ room' = [room EXCEPT !.event = IF room.live THEN copy + 1 ELSE @]
  /\ UNCHANGED log

\* Any other request of the room publishes an event.
Announce ==
  /\ Published(room.event)
  /\ UNCHANGED <<disk, items, add, pool, reads, dl, client, up>>

\* deleteRoom: the rows of the room go; no download is told.
ResetRoom ==
  /\ room.live /\ room' = [live |-> FALSE, event |-> 0] /\ log' = {}
  /\ UNCHANGED <<disk, items, add, pool, reads, dl, client, up>>

Current(d) == items[Head(dl[d].todo)]
Changed(item) == disk[item.file] # item.version

\* The user saves a file, under a stream that may read it; each version is new.
Edit(f, version) ==
  /\ \A g \in Files : disk[g] < version
  /\ disk' = [disk EXCEPT ![f] = version]
  /\ dl' = [d \in Downloads |->
              IF dl[d].step = "stream" /\ Current(d).file = f
              THEN [dl[d] EXCEPT !.edited = TRUE] ELSE dl[d]]
  /\ UNCHANGED <<store, add, pool, reads, client, up>>

-----------------------------------------------------------------------------
(* The pool and addSourceFiles.                                             *)

InFlight == ToSet(queue) \union DOMAIN workers

\* drain(): the first task starts when a worker is free.
Drained(tasks, busy) ==
  IF tasks # <<>> /\ Cardinality(DOMAIN busy) < MaxWorkers
  THEN /\ queue' = Tail(tasks)
       /\ workers' = [key \in DOMAIN busy \union {Head(tasks)} |->
                       IF key \in DOMAIN busy THEN busy[key] ELSE <<>>]
  ELSE queue' = tasks /\ workers' = busy

Without(key) == [k \in DOMAIN workers \ {key} |-> workers[k]]

\* Variant: a worker that ends gives its place back and starts no other task.
OnlyGivenBack(key) == queue' = queue /\ workers' = Without(key)

AfterWorker(key) == Drained(queue, Without(key))

\* The promise of a key is shared by every part that waits for it.
Told(key, step, digest) ==
  add' = [add EXCEPT !.parts =
    [k \in DOMAIN add.parts |->
       IF add.parts[k].step = "wait" /\ <<add.parts[k].file, add.parts[k].version>> = key
       THEN [add.parts[k] EXCEPT !.step = step, !.digest = digest]
       ELSE add.parts[k]]]

AddFiles(files) ==
  /\ room.live /\ ~add.busy /\ Len(items) + Len(files) <= MaxItems
  /\ add' = [busy |-> TRUE, copy |-> room.event,
             parts |-> [k \in DOMAIN files |->
                          [file |-> files[k], version |-> 0, digest |-> <<>>,
                           step |-> "stat"]]]
  /\ UNCHANGED <<disk, store, pool, reads, dl, client, up>>

\* What stat has found of a part.
KeyOf(part) == <<part.file, disk[part.file]>>
Hashed(k, step, digest) ==
  add' = [add EXCEPT !.parts[k] = [file |-> @.file, version |-> disk[@.file],
                                   digest |-> digest, step |-> step]]

\* hash(): a cached digest moves to the fresh end of the cache.
CacheHit(k, n) ==
  /\ cache[n].key = KeyOf(add.parts[k])
  /\ Hashed(k, "done", cache[n].digest)
  /\ cache' = Append(RemoveAt(cache, n), cache[n])
  /\ UNCHANGED <<queue, workers>>

\* A key in flight is waited for, any other is queued.
CacheMiss(k) ==
  LET key == KeyOf(add.parts[k])
  IN  /\ \A n \in DOMAIN cache : cache[n].key # key
      /\ Hashed(k, "wait", <<>>) /\ UNCHANGED cache
      /\ IF key \in InFlight THEN UNCHANGED <<queue, workers>>
         ELSE Drained(Append(queue, key), workers)

\* stat fails, or it finds something else than a file.
NoSource(k) == Hashed(k, "failed", <<>>) /\ UNCHANGED pool

StatSource(k) ==
  /\ add.parts[k].step = "stat"
  /\ CacheMiss(k) \/ NoSource(k) \/ \E n \in DOMAIN cache : CacheHit(k, n)
  /\ UNCHANGED <<disk, store, reads, dl, client, up>>

WorkerFails(key) ==
  /\ Told(key, "failed", <<>>) /\ AfterWorker(key) /\ UNCHANGED cache

\* The worker reads a file that is as registered.
WorkerReads(key) ==
  /\ key \in DOMAIN workers /\ Len(workers[key]) < Size
  /\ workers[key] = <<>> => disk[key[1]] = key[2]
  /\ workers' = [workers EXCEPT ![key] = Append(@, disk[key[1]])]
  /\ UNCHANGED <<disk, store, add, queue, cache, reads, dl, client, up>>

\* Variant: the worker does not look at the file again.
NotRechecked(key) == TRUE

Rechecked(key) == disk[key[1]] = key[2]

WorkerAnswers(key) ==
  /\ key \in DOMAIN workers /\ Len(workers[key]) = Size
  /\ LET digest == workers[key]
         fresh == Append(cache, [key |-> key, digest |-> digest])
     IN  IF Rechecked(key)
         THEN /\ Told(key, "done", digest) /\ AfterWorker(key)
              /\ cache' = IF Len(fresh) > MaxCache THEN Tail(fresh) ELSE fresh
         ELSE WorkerFails(key)
  /\ UNCHANGED <<disk, store, reads, dl, client, up>>

\* The file has changed before it was read, cannot be read, or the thread dies
\* with an error or an exit code.
WorkerDies(key) ==
  /\ key \in DOMAIN workers /\ WorkerFails(key)
  /\ UNCHANGED <<disk, store, reads, dl, client, up>>

\* The first part that failed answers the request; the others are forgotten.
AddFails ==
  /\ \E k \in DOMAIN add.parts : add.parts[k].step = "failed"
  /\ add' = Idle
  /\ UNCHANGED <<disk, store, pool, reads, dl, client, up>>

\* With every digest there, the items are inserted and published one after the
\* other; the first identifier that is taken ends it with an error.
ItemOf(part) == [file |-> part.file, version |-> part.version,
                 digest |-> part.digest, source |-> TRUE]

AddItems(free) ==
  LET total == Len(add.parts)
      inserted == Lesser(total, free + 1)
  IN  /\ add.busy /\ \A k \in DOMAIN add.parts : add.parts[k].step = "done"
      /\ free <= total /\ \A k \in 1 .. free : add.copy + k \notin log
      /\ free < total => add.copy + free + 1 \in log
      /\ add.copy + total <= MaxEvents
      /\ add' = Idle
      /\ IF room.live
         THEN /\ items' = items \o [k \in 1 .. inserted |-> ItemOf(add.parts[k])]
              /\ log' = log \union {add.copy + k : k \in 1 .. free}
              /\ room' = [room EXCEPT !.event = add.copy + inserted]
         ELSE UNCHANGED store
      /\ UNCHANGED <<disk, pool, reads, dl, client, up>>

-----------------------------------------------------------------------------
(* Downloads.                                                               *)

\* Variant: the slot is counted down by every handler that releases it.
CountedAgain(d) == Greater(0, reads - 1)

\* release(), called by every handler of a stream that ends: the first one counts.
ReadsAfter(d) == IF dl[d].slot THEN reads - 1 ELSE reads

Ended(d, step) ==
  /\ reads' = ReadsAfter(d) /\ dl' = [dl EXCEPT ![d] = [NoDownload EXCEPT !.step = step]]

\* A browser asks for an item, from the start or for the rest of what it has,
\* which it forgets if the request is refused.
Request(d, i, from) ==
  /\ room.live /\ dl[d].step = "idle" /\ i \in DOMAIN items
  /\ from > 0 => have[d].item = i
  /\ dl' = [dl EXCEPT ![d] = [NoDownload EXCEPT
              !.step = "stat", !.todo = <<i>>, !.copy = room.event,
              !.sent = SubSeq(have[d].blocks, 1, from),
              !.edited = from > 0 /\ have[d].edited]]
  /\ have' = [have EXCEPT ![d] = Nothing]
  /\ UNCHANGED <<disk, store, add, pool, reads, archived, up>>

\* Variant: the source is not looked at before it is streamed.
NeverStale(item) == FALSE

Stale(item) == item.source /\ Changed(item)

Begun(d) ==
  /\ reads < MaxReads /\ reads' = reads + 1
  /\ dl' = [dl EXCEPT ![d].step = "stream", ![d].slot = TRUE, ![d].todo =
              IF dl[d].archive THEN dl[d].kept ELSE @]

Answered(d) == dl' = [dl EXCEPT ![d] = NoDownload] /\ UNCHANGED reads

\* stat has ended: 409, 503 or the stream.
CheckSource(d) ==
  /\ dl[d].step = "stat"
  /\ \/ ~Stale(Current(d)) /\ Begun(d)
     \/ (Stale(Current(d)) \/ reads = MaxReads) /\ Answered(d)
  /\ UNCHANGED <<disk, store, add, pool, client, up>>

\* readySourceItems: the sources, by insertion.
IsSources(todo) ==
  /\ ToSet(todo) = {i \in DOMAIN items : items[i].source}
  /\ \A m, n \in DOMAIN todo : m < n => todo[m] < todo[n]

RequestArchive(d, todo) ==
  /\ room.live /\ dl[d].step = "idle" /\ IsSources(todo)
  /\ dl' = [dl EXCEPT ![d] = [NoDownload EXCEPT
              !.step = "prepare", !.archive = TRUE, !.copy = room.event,
              !.todo = todo, !.wanted = ToSet(todo)]]
  /\ UNCHANGED <<disk, store, add, pool, reads, client, up>>

\* prepareRoomArchive: one stat after another, changed sources are left out.
Prepare(d) ==
  /\ dl[d].step = "prepare" /\ dl[d].todo # <<>>
  /\ dl' = [dl EXCEPT ![d].todo = Tail(@),
                      ![d].kept = IF Changed(Current(d)) THEN @
                                  ELSE Append(@, Head(dl[d].todo))]
  /\ UNCHANGED <<disk, store, add, pool, reads, client, up>>

\* Nothing is awaited between the last stat and the slot.
BeginArchive(d) ==
  /\ dl[d].step = "prepare" /\ dl[d].todo = <<>>
  /\ \/ Len(dl[d].kept) >= 2 /\ Begun(d)
     \/ (Len(dl[d].kept) < 2 \/ reads = MaxReads) /\ Answered(d)
  /\ UNCHANGED <<disk, store, add, pool, client, up>>

Streaming(d) == dl[d].step = "stream" /\ Len(dl[d].sent) < Size
Chunk(d) == Append(dl[d].sent, disk[Current(d).file])

\* A chunk passes, with no report as the last one is less than 250 ms old.
Read(d) ==
  /\ Streaming(d)
  /\ dl' = [dl EXCEPT ![d].sent = Chunk(d)]
  /\ UNCHANGED <<disk, store, add, pool, reads, client, up>>

ReadAndReport(d) ==
  /\ Streaming(d) /\ Published(dl[d].copy)
  /\ dl' = [dl EXCEPT ![d].sent = Chunk(d), ![d].copy = @ + 1]
  /\ UNCHANGED <<disk, items, add, pool, reads, client, up>>

\* reportDownloadProgress throws inside transform(): nothing catches it there,
\* and the exception ends the process with all it keeps in memory.
ReportKills(d) ==
  /\ Streaming(d) /\ Refused(dl[d].copy) /\ up' = FALSE
  /\ add' = Idle /\ queue' = <<>> /\ workers' = << >> /\ cache' = <<>>
  /\ reads' = 0 /\ dl' = [e \in Downloads |-> NoDownload]
  /\ UNCHANGED <<disk, items, client>>

Kept(d) ==
  have' = [have EXCEPT ![d] = [item |-> Head(dl[d].todo), blocks |-> dl[d].sent,
                               edited |-> dl[d].edited]]

\* A single file: flush() reports the end; an error of it breaks the response off.
Flush(d) ==
  /\ dl[d].step = "stream" /\ ~dl[d].archive /\ Len(dl[d].sent) = Size
  /\ Published(dl[d].copy) \/ Refused(dl[d].copy)
  /\ Kept(d) /\ Ended(d, "idle")
  /\ UNCHANGED <<disk, items, add, pool, archived, up>>

\* The browser or the network breaks the response off.
CutOff(d) ==
  /\ dl[d].step = "stream" /\ ~dl[d].archive
  /\ Kept(d) /\ Ended(d, "idle")
  /\ UNCHANGED <<disk, store, add, pool, archived, up>>

\* An entry of an archive: its flush() awaits a stat.
EndEntry(d) ==
  /\ dl[d].step = "stream" /\ dl[d].archive /\ Len(dl[d].sent) = Size
  /\ dl' = [dl EXCEPT ![d].step = "verify"]
  /\ UNCHANGED <<disk, store, add, pool, reads, client, up>>

\* Variant: the entry is compared with what stat finds, not with the item.
AsItIsNow(d) == dl[d].sent = Whole(disk[Current(d).file])

Verified(d) == ~Changed(Current(d)) /\ dl[d].sent = Current(d).digest

\* verifyCompletedSource and the report; the archive goes on, or it is complete.
VerifyEntry(d) ==
  LET packed == dl[d].packed \union {<<Head(dl[d].todo), dl[d].sent>>}
  IN  /\ dl[d].step = "verify" /\ Verified(d) /\ Published(dl[d].copy)
      /\ IF Len(dl[d].todo) > 1
         THEN /\ dl' = [dl EXCEPT ![d].step = "stream", ![d].todo = Tail(@),
                                  ![d].sent = <<>>, ![d].copy = @ + 1, ![d].packed = packed]
              /\ UNCHANGED <<reads, archived>>
         ELSE /\ Ended(d, "closing")
              /\ archived' = archived \union {[wanted |-> dl[d].wanted, packed |-> packed]}
      /\ UNCHANGED <<disk, items, add, pool, have, up>>

\* A source that changed or a report that throws breaks the archive off, and so
\* does the browser.
BreakArchive(d) ==
  /\ dl[d].step \in {"stream", "verify"} /\ dl[d].archive
  /\ \/ UNCHANGED <<room, log>>
     \/ dl[d].step = "verify" /\ Verified(d) /\ Refused(dl[d].copy)
  /\ Ended(d, "closing")
  /\ UNCHANGED <<disk, items, add, pool, client, up>>

\* The response of an archive closes after its stream: release() is called again.
Closed(d) ==
  /\ dl[d].step = "closing" /\ Ended(d, "idle")
  /\ UNCHANGED <<disk, store, add, pool, client, up>>

-----------------------------------------------------------------------------

PoolStep ==
  \/ \E k \in DOMAIN add.parts : StatSource(k)
  \/ \E key \in DOMAIN workers :
       WorkerReads(key) \/ WorkerAnswers(key) \/ WorkerDies(key)

DownloadStep(d) ==
  \/ \E i \in 1 .. MaxItems : Request(d, i, 0)
  \/ /\ Len(have[d].blocks) \in 1 .. Size - 1
     /\ Request(d, have[d].item, Len(have[d].blocks))
  \/ \E todo \in BoundedSeq(1 .. MaxItems, MaxItems) : RequestArchive(d, todo)
  \/ CheckSource(d) \/ Prepare(d) \/ BeginArchive(d)
  \/ Read(d) \/ ReadAndReport(d) \/ ReportKills(d) \/ Flush(d) \/ CutOff(d)
  \/ EndEntry(d) \/ VerifyEntry(d) \/ BreakArchive(d) \/ Closed(d)

Next ==
  /\ up
  /\ \/ \E files \in BoundedSeq(Files, 2) : files # <<>> /\ AddFiles(files)
     \/ AddFails \/ PoolStep
     \/ \E free \in 0 .. MaxItems : AddItems(free)
     \/ \E d \in Downloads : DownloadStep(d)
     \/ \E f \in Files, version \in Versions : Edit(f, version)
     \/ Announce \/ ResetRoom

Spec == Init /\ [][Next]_vars

-----------------------------------------------------------------------------
(* Properties.                                                              *)

\* The count of downloads is the number of open streams: every stream gives its
\* slot back once, whichever of its handlers run (beginDownload, release).
SlotsCounted ==
  /\ reads = Cardinality({d \in Downloads : dl[d].slot})
  /\ \A d \in Downloads : dl[d].slot = (dl[d].step \in {"stream", "verify"})

\* An archive that arrives complete has every source that the room had when it
\* was asked for, but those that were saved since they were registered; and what
\* it has of a source is its registered version from the first block to the
\* last, whatever was saved between the stats, the stream and the check
\* (prepareRoomArchive, verifiedSourceStream, verifyCompletedSource).
ArchivesComplete ==
  \A a \in archived :
    /\ \A i \in a.wanted : Changed(items[i]) \/ \E e \in a.packed : e[1] = i
    /\ \A e \in a.packed : e[2] = Whole(items[e[1]].version)

\* What a browser has put together of a source file, over broken responses and
\* resumed ones, is of the registered version, unless the file was saved while
\* it streamed (sendRoomItem).
ResumedFromOneVersion ==
  \A d \in Downloads :
    LET part == have[d]
    IN  part.item # 0 /\ items[part.item].source /\ ~part.edited =>
          \A b \in DOMAIN part.blocks : part.blocks[b] = items[part.item].version

\* The digest of an item is that of the version registered, and a digest in the
\* cache is that of its key: no mixture of two versions (the worker).
DigestsOfOneVersion ==
  /\ \A i \in DOMAIN items : items[i].digest = Whole(items[i].version)
  /\ \A n \in DOMAIN cache : cache[n].digest = Whole(cache[n].key[2])

\* No request waits for a digest that nobody computes, no task waits beside a
\* free worker, and none is computed twice (hash, drain, run).
NobodyWaitsForNothing ==
  /\ \A k \in DOMAIN add.parts :
       add.parts[k].step = "wait" => <<add.parts[k].file, add.parts[k].version>> \in InFlight
  /\ queue # <<>> => Cardinality(DOMAIN workers) = MaxWorkers
  /\ IsInjective(queue) /\ ToSet(queue) \intersect DOMAIN workers = {}

\* Downloads of one room do not end the service, as long as there are slots
\* (roomStoreFaults.test.ts: eight downloads at a time).
DownloadsAreHarmless == up

=============================================================================
