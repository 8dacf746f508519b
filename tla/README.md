# A verification of Local File Transfer

Local File Transfer moves files and a shared note between a Windows desktop and the browsers of nearby devices. An Electron application starts a Fastify server in a utility process; a phone scans a QR code, opens a room in its browser and uploads, downloads and edits text. This directory holds TLA+ models of that program, TLC configurations that check them on small instances, and proofs checked by TLAPS for every instance. All paths are relative to the root of the repository (`src/`); `roomStore.ts` and the other server files of the current protocol are in `src/apps/server/src/v2/`.

## The system

| Component | State it keeps | Operations | Talks to |
| --- | --- | --- | --- |
| Room store, `roomStore.ts` | write locks, abort controllers, event emitter, download count, shared-text keys | create, resume, ensure, replace, delete, sweep rooms; register, write, replay, finish, cancel items; recover at startup; publish events | repository and receive directory, called by routes and by the service process |
| Repository, `sqliteRoomRepository.ts` | SQLite tables rooms, room_items, upload_commits, room_events, room_shared_text, room_tickets | whole-row updates, one transaction per checkpoint and per text update | room store only |
| HTTP routes, `routes.ts` | rate limiter, connection gate, time of the next sweep | PATCH and HEAD uploads, DELETE items, GET room, SSE events, downloads, shared text | room store |
| Downloads, `roomDownload.ts`, `roomArchive.ts`, `local/rangeDownload.ts` | slots in use, streams | ranges, validation of the source before and while it is read, archive | room store, file system |
| Source hash pool, `sourceHashPool.ts` | cache, tasks in flight, queue, workers | hash, close | room store |
| Shared text, `sharedTextCrypto.ts`, `SharedTextDialog.tsx` | encrypted note with a revision; the dialog's draft and base revision | compare-and-set update, reload, keep editing | room store, events |
| Transfer service, `desktop/src/service.ts` | server, store, pending requests | messages from the main process, close | main process |
| Desktop main process, `desktop/src/main.ts` | service client, active room, vault, lifecycle queue, restart state | start, refresh, reset, add files, recover the service | service process, renderer |
| Web client, `web/src/api/*`, `TransferRoomPage.tsx` | room view, upload loop, resume records, EventSource and polls | register, send checkpoints with retries, cancel, subscribe | routes |
| Limits, `connectionGate.ts`, `rateLimiter.ts`, `rotatingLog.ts` | counters | acquire and release | routes |
| Legacy store, `local/*`, `web/src/api/client.ts`, `SendPage.tsx` | in-memory sessions with files, hashes and locks; pages that upload | create and remove sessions, register files, append chunks, ranges, sweep | registered only on request (`enableLegacyRoutes`) |

The server is one JavaScript thread. Between two `await`s nothing else runs; SQLite calls are synchronous; file-system calls, streams and hashing are awaits. What is hard in this code follows from that:

- a handler reads a whole record (room or item), awaits several file operations and writes the whole record back;
- the database and the receive directory are two stores without a common transaction, and a crash may fall between any two steps on them;
- a client retries what it got no answer to, so a request may arrive again after it was committed, while its first copy is still at work, or after its idempotency record was trimmed;
- destination paths are found free in one step and used in a later one;
- clients learn of changes through a bounded event log, live notifications and polls, in any mixture of orders.

What makes each component correct:

- uploads: no byte is lost, doubled or interleaved; an acknowledged offset survives a crash; only whole files are delivered, under paths of their own; cancelled means cancelled; a lock is given back; startup ends;
- events: identifiers grow, a live subscriber misses nothing that was published, a client that was away catches up, and every view converges;
- rooms: an expired or deleted room accepts nothing and leaves nothing behind; a sliding expiry never passes the hard one;
- shared text: no update is lost silently, a draft is never replaced without the user;
- hash pool, downloads, gates: every slot comes back exactly once, nothing waits for ever, what is sent is the version that was registered;
- desktop: one lifecycle operation at a time, token, cookie and QR code belong to one room, one service runs at a time;
- legacy sessions: what was received stays in order on disk and in the hash, a removed session leaves no bytes, a range holds what its header asks for.

`PROJECT.json` lists the hazards at their lines, with the properties that cover them.

## The modules

| Module | Models | Uses |
| --- | --- | --- |
| `DurableUpload` | what an upload promises: the abstract specification | - |
| `UploadStore` | uploads of one room in the store: records, partial files, destinations, locks, crash, startup | implements `DurableUpload` |
| `MCUploadStore` | the instances of `UploadStore` for TLC | `UploadStore` |
| `UploadStoreProofs` | theorems about `UploadStore` | `UploadStore` |
| `UploadClient` | tabs that upload one file, and the answers of the server | implements `DurableUpload` |
| `UploadClientProofs` | theorems about `UploadClient` | `UploadClient` |
| `RoomEvents` | event identifiers, log, streams, polls, the view of a page | - |
| `RoomEventsProofs` | theorems about `RoomEvents` | `RoomEvents` |
| `RoomLifecycle` | expiry, reset, sweep and the requests that overlap them | - |
| `RoomLifecycleProofs` | theorems about `RoomLifecycle` | `RoomLifecycle` |
| `SharedText` | the note of a room, its key, and the dialogs that edit it | - |
| `MCSharedText` | symmetry for TLC | `SharedText` |
| `SharedTextProofs` | theorems about `SharedText` | `SharedText` |
| `DesktopLifecycle` | the main process of the desktop and the service processes it starts | - |
| `DesktopLifecycleProofs` | theorems about `DesktopLifecycle` | `DesktopLifecycle` |
| `ByteRanges` | range and chunk arithmetic, with what HTTP means by a range | - |
| `SourceReads` | hash pool, added files, downloads and archives, over files that change | `ByteRanges` |
| `MCSourceReads` | rooms to begin with, and symmetry, for TLC | `SourceReads` |
| `SourceReadsProofs` | theorems about `SourceReads` | `SourceReads` |
| `LegacySessions` | a session of the old API, its chunks, and the pages that upload to it | `ByteRanges` |
| `LegacySessionsProofs` | theorems about `LegacySessions` and `ByteRanges` | `LegacySessions` |

The models of the server share one convention. A step is the code between two `await`s, and a request carries the record it read (`job[w].snap`, `held`, `job[h].copy`) until it writes it back whole, as the code does. `DurableUpload` stands between the store and the client: the store, with its files, locks and crashes, implements it, and so does the pair of client and server when told is what a page has shown. A client model therefore needs only the state and the committed offset of each item.

### UploadStore

`row`, `commits` are the tables room_items and upload_commits; `part` and `final` the files; `writeLock` is `RoomStore.writeLocks`, with its holder; `pc` and `job` say where each PATCH request, or the startup reconciliation (the worker `Boot`), waits; `cancel` holds the `cancelItem` call of an item; `mode` and `todo` belong to startup. Three things are ghosts: `acked` is the highest offset answered, `cancelAsked` that a DELETE arrived, and the owner and `good` length of a file say whose bytes it really holds.

| Code | Actions |
| --- | --- |
| `registerUpload` | `Register` |
| `writeUploadCheckpoint` | `StartCheckpoint`, `StatPartial`, `OpenPartial`, `ReceiveBody`, `UndoWrite`, `SyncPartial`, `CommitCheckpoint`, `FailCommit`, `PublishProgress`, `FailPublish`, `FailIO`; for a known idempotency key `StartReplay` |
| `recoverCommittedCompletion` | `ProbeFinal`, `ProbePartial`, and `RecordReady` for a file it adopts |
| `finalizeUpload` | `HashPartial`, `ChooseFinalPath`, `RenamePartial`, `RecordReady` |
| `cancelItem` | `StartCancel`, `RemoveCancelled`, `RecordCancelled` |
| `recoverActiveRooms` | `Restart`, `VisitItem`, `SettlePartial`, `ResetRow`, the completion steps with worker `Boot`, `FinishBoot` |
| HEAD, retention in the sweep | `ReportStatus`, `ForgetCommits` |

Merged or abstracted:

- Registration inserts in the step that chooses its path; `RoomLifecycle` and `UploadClient` separate the check from the insertion. That several items may be given one path is kept.
- The loop of `pathExists` calls in `availableFilePath` is one step. The code tries 10,000 candidates and the model `MaxSuffix`; a request that finds none fails, and `Boot`, for which there are always candidates left, has no such step.
- The stat and the truncation of one partial file at startup are one step, since nothing else runs. The trimming of idempotency records belongs to the commit, which it follows without an await.
- A body that is short, too long, damaged or cut off is one of the outcomes of `ReceiveBody`.
- A crash keeps what was synced and any part of what was not. File creation, rename, removal and SQLite transactions are durable and ordered.
- `FailPublish` may happen at any publication; `RoomEvents` has the reason, an event identifier that is taken. `FailIO` is an error of any file-system call of a request; during startup such an error ends the process, which is a crash.
- The publication of a completed item may fail at startup as well: `initialize` rejects, the server does not listen, and `RecordReady` by `Boot` goes "down" with the item already recorded ready. The next start finds one unfinished upload fewer. The publications of `sweepExpired`, which `initialize` calls first, can fail in the same way; the room is recorded expired by then and the next start does not meet it again, so that nothing of it is in this model.
- `availableFilePath` starts from the base name of the path it is given: at registration the item's name, at completion the registered path, which may have a suffix already. A path is therefore a name with two numbers. A user who gives a file the very name that such a suffix produces is not told apart from one who gives it another name.

### UploadClient

`state` and `offset` are what the server answers about each item, `req` the POST and PATCH requests under way with the tab that still waits for each, `saved` the resume record, `pc` and `call` the position and the variables of `uploadRoomFile` in each tab. `shown` (the highest progress shown for an item), `released` (cancelled once) and `raced` (two registrations overlapped) are ghosts.

| Code | Actions |
| --- | --- |
| `uploadRoomFile`, resume record | `Begin`, `Look`, `List` |
| registration | `Register`, `Registered`, `Status` |
| loop | `Send`, `Acknowledged`, `CheckpointFailed`, `Ask` |
| end | `Finish`, `Final` |
| `pauseUpload`, a reloaded page, navigation | `Stop` |
| `registerUpload` | `AcceptRegister`, `InsertItem` |
| `writeUploadCheckpoint` | `AcceptPatch`, `CommitCheckpoint`, `CompleteUpload`, `ServerFails`, `Refuse` |
| `cancelItem`, a crash, startup | `Cancel`, `Crash`, `Recover`, `Restart` |

A file is counted in chunks, as the client always sends whole ones. HEAD and GET are answered and used in one step: between answer and use only other actors move, and a run in which they move after the use shows the page the same. A browser opens at most one request for an upload at a time and takes the lowest free slot of `req`; an abandoned request keeps its slot as long as the server works on it. Cancellation is one step, because the client sees only the state. Startup never rewinds an offset here; `UploadStore` shows under which circumstances it does.

### RoomEvents

`eventId` and `log` are rooms.event_id and room_events; `items` and `text` are versions of the items and of the note; `pc` and `held` are the requests with the event identifier of their copy of the room; `open`, `sent` and `wire` the stream of each browser on the server, `last` its Last-Event-ID, `view`, `seen` and `replies` the page and its polls. `lost` counts the slots of the connection gate that are held for nobody, `refused` says that the gate answered 503 and the page's EventSource is closed for good. `announced` and `known` are ghosts. `Publish` is the whole of `publish`: the copy is written back, the identifier incremented, the row inserted (an identifier that is taken throws), the log trimmed, the listeners called. `Connect` is the handler of GET events with its replay or snapshot; `Deliver` the callback of the page; `AskRoom` and `ApplyRoom` its poll, whose answers are applied in any order. `Connect`, `Refuse`, `OpenForNobody` and `SeeClosed` are the gate: a slot is taken with the stream, refused when there is none, and returned by the close of the connection, which the server may see late.

The server is back at once after a crash, with the log it had and every stream closed. A crash between the update of the text and its event is not a case of its own: it equals a lost event. Streams meet at the gate only, where `lost` stands for the streams of others, so that one browser is enough.

### RoomLifecycle

`room` is the row, `rows` and `files` the items and their partial files, `pc` and `job` the requests, `ender` one `deleteRoom` and one `sweepExpired` in progress, `now` the clock. `lastActive`, `overlapped` and `stuck` are ghosts. `BeginAdd` and `InsertItems` are registration and added files: both count the items before their awaits and insert after them, `registerUpload` one and `addSourceFiles` a whole list, each item with a publication of the same copy of the room, of which a taken identifier lets the list break off; `Trimmed` is `trimEvents`, which takes old identifiers from the log and so makes them free again. `AddNothing` is a disk that is full, a source that cannot be read, or a room that is gone. `BeginUpload` to `PublishProgress` a checkpoint, `BeginCancel` to `RecordCancelled` a cancellation, `Read` any authorized request without an await, `Resume` is `resumeRoom`, and `DeleteRoom`, `SweepExpired`, `RemoveFile`, `DropRoom` end the room. In `RemoveFails` an `rm` rejects, because another program holds the file open: the call throws, and as no sweep lists a room that is closed or expired, it stays (`stuck`).

The clock does not advance while a room is being ended (removing a few files takes no time at the scale of minutes). A request lives for at most `Patience`, which is `server.requestTimeout` (120 s) beside a TTL of 15 min. Added files are hashed for at most `HashPatience`, a bound the code does not have: it is not set by the request timeout, and if hashing takes longer than a TTL, `addSourceFiles` writes back an expiry of long ago (line 394) and the room in use may be dropped. The properties that need it say so by the assumption HashPatience <= Patience. The sweep handles one room; downloads, tickets and completion are left out.

### SharedText

`stored` is the row of room_shared_text, `keyKnown` whether `RoomStore.sharedTextKeys` has the room's key, `signal` the highest revision each page observed, `dialog` the state of each `SharedTextDialog`, `calls` the bag of requests each browser has under way. `notes`, the accepted texts by revision, and the field `shown` of a share are ghosts.

| Code | Actions |
| --- | --- |
| `readSharedText`, `updateSharedText`, `replaceSharedText` | `ServeRead`, `AcceptWrite`, `RejectWrite` |
| keys lost with the process, `rememberSharedTextKey` | `Restart`, `RememberKey` |
| the two effects of the dialog | `Open`, `Close`, `Observe` |
| typing, copying, `share()`, the two buttons of a conflict | `Edit`, `Copy`, `Share`, `Replace`, `UseLatest` |
| `.then` and `.catch` of the requests | `Apply` (`Opened`, `Signalled`, `Shared`), `Fail` |

An answer is a step of its own and may arrive in any order, after the dialog was closed and opened again, or not at all. The answer of a share is applied without any flag, as in the code; those of the effects only while their flag is set.

### DesktopLifecycle

`proc` has the service processes by launch, `client` is `serviceClient`, `boot` and `restart` say where `createMainWindow` and `restartPromise` wait, `queue` and `ops` are the operations on `lifecycleQueue`, of which the first runs, `stray` the requests that timed out in the main process and are still before the service. `active`, `vault` and `cookies` name rooms; `rooms` is what the service's database says of them.

| Code | Actions |
| --- | --- |
| `createMainWindow`, `ensureService`, `initializeService` | `Initialized`, `NotInitialized`, `PageLoaded`, `PageNotLoaded` |
| exit handler, `scheduleServiceRecovery` | `Exit`, `Relaunch`, with `Failed` and `Succeeded` for its end |
| `enqueueLifecycle`, `refreshNetworkRoom`, `resetActiveRoom`, `ensureActiveRoom` | `Enter`, `Start`, `Proceed`, `GiveUp` |
| `LocalServiceClient.request` and `service.ts` | `Serve`, `Refuse`, `TimeOut`, `ServeStray` |
| `activateRoom`, `installDesktopTicket`, `writeVault` | `TicketInstalled` or `TicketNotInstalled`, `VaultWritten` or `VaultNotWritten`, `Activate`, `ForgetTicket` |
| `before-quit` | `Quit`, `Quitted` |

Rooms are numbered by creation, so that "a room that was left" is a smaller number. One waiting reset stands for any number of them.

`encryption` is `safeStorage.isEncryptionAvailable()`, chosen at the start and kept. Without it `writeVault` returns without writing, `readVault` returns nothing, and the room becomes active all the same, so that each start and each recovery makes a new room; the vault then says nothing and `RoomsNeverMixed` claims nothing of it. With it, vault and active room are set by different steps (`VaultWritten`, `Activate`), between which other operations, exits and answers may fall.

### ByteRanges

`ByteRange`, `ContentRange` and `NextChunk` are `parseByteRange`, `parseContentRange` and `nextChunkRange` of `packages/protocol/src/transfer.ts`, over the numbers a header carries. `RangesAreExact` and `ChunksFollow` compare them with `Wanted`, the set of bytes that a header asks for.

### SourceReads

`disk` is the version of each file of the user, `room`, `log` and `items` the tables, `add` the request of `addSourceFiles` in progress with the state of each of its files, `queue`, `workers` and `cache` the pool (a worker has the blocks it has read so far), `reads` is `activeReads`, `dl` the download requests. `have` (what a browser put together of an item) and `archived` are observations.

| Code | Actions |
| --- | --- |
| `addSourceFiles` | `AddFiles`, `StatSource` (with `NoSource`), `AddFails`, `AddItems` |
| `SourceHashPool`, worker | `StatSource` (its `hash`), `WorkerReads`, `WorkerAnswers`, `WorkerDies`, `Drained` |
| `sendRoomItem` | `Request`, `CheckSource`, `Read`, `ReadAndReport`, `ReportKills`, `Flush`, `CutOff` |
| `prepareRoomArchive`, `sendRoomArchive` | `RequestArchive`, `Prepare`, `BeginArchive`, `Read`, `EndEntry`, `VerifyEntry`, `BreakArchive`, `Closed` |
| `publish` of another request, `deleteRoom` | `Announce`, `ResetRoom` |
| the user saves a file | `Edit` |

Of an archive, `dl` keeps the sources that the request found (`wanted`) and what was packed for each (`packed`), and `archived` the archives that arrived complete. `NoSource` is a stat that fails; a file that is removed later is one more version of it.

A version stands for bytes, size and modification time together, so that an edit which keeps both size and time, which the code cannot see, does not occur.

### LegacySessions

`session` is the life of one session, `recs` its files with the chunk that holds each one's lock, `wire` the request of each page that has not arrived, `page` the upload of each page, `dl` the downloads. A file is a sequence of bytes and its hash the bytes it was updated with.

| Code | Actions |
| --- | --- |
| `addUploadedFile` | `Register`, `AddRecord` |
| `appendUploadChunk`, `finalizeUpload` | `PutArrives`, `StatPartial`, `PassByte`, `BreakOff`, `EndChunk`, `SyncPartial`, `RenamePartial` |
| `sendSessionFile` | `Download`, `EndDownload`, `CutOff` |
| `delete`, `removeSession`, `deleteTemporaryFiles`, `sweepExpired` | `RemoveSession`, `DeleteTemporary`, `DeletionFails`, `SweepPartials` |
| `uploadFileChunks`, `waitForFileReady`, the buttons of a page | `StartUpload`, `SendChunk`, `GiveUp`, `Look`, `Poll` |

Time is left open: a live session may end at any step.

## The runs

| Run | Instance | Shows |
| --- | --- | --- |
| `UploadItems` | 3 bytes and 0 bytes, chunks up to 2, two requests, one crash, cancellation | one writer for an item, committed bytes on disk, checkpoints that partition the committed prefix, acknowledged offsets kept, ready only if delivered, for items with names of their own |
| `UploadSharedName` | two items of 1 byte and one name, a user's file at their path | only whole files are published, and ready is final, even though destinations are shared |
| `UploadPromise` | one item of 2 bytes | `DurableUpload` is implemented; every lock comes back; startup ends |
| `UploadClient` | two tabs, two calls, two items, 2 chunks, 2 attempts, 2 incidents | progress shown is durable (`ShownIsDurable`), done means committed, one incomplete item for a file, every call ends |
| `RoomEvents` | two requests, one browser, one stream allowed, 4 changes, crashes, reloads or lost slots | published events reach every open stream, announced changes reach the browser, the page converges, on its poll alone if it must |
| `RoomLifecycle` | two requests at a time, three in all, five items, a limit of two files, one event kept, 5 instants of time, one crash | a room in use is kept; two lists that pass the limit together bring the room to twice the limit and no further; a deleted room stays deleted; a room that ends is deleted with its partial files unless the call that ends it throws |
| `SharedText` | two browsers, two texts, two shares, two requests of a browser at a time | every note shown is one the room accepted under its revision; a write replaces only what its writer had on the screen |
| `DesktopLifecycle` | two rooms, two launches, with and without encryption | vault, cookie and active room are one; a room that was left does not come back; one service; every room operation ends |
| `SourceReads` | two files of 2 blocks, two downloads, one slot, one worker, one cached digest, one edit | slots are counted, an archive that arrives complete has every source that did not change, resumed files do not mix versions, digests are of one version, nobody waits for a digest that nobody computes |
| `LegacySessions` | two pages and one file of 3 bytes in chunks of 2, two attempts, one download, three kinds of session | received bytes stay in order on disk and in the hash; removal leaves none; ranges are exact; every upload ends |
| `UploadOverwrite` | two items of one name, no crash | violated: two completions rename onto one path |
| `SourceReadsCrash` | as `SourceReads`, two slots and no edit | violated: a download ends the service process |

Why the bounds are enough:

- Three bytes in chunks of at most two give a first, a middle and a last checkpoint, of different lengths, and a partial file may be longer than the offset by less than a chunk. The empty item is complete at registration. Two requests are all that can meet at one item: a third is refused by the lock, or is another replay.
- One crash is enough to reach every combination of database and disk the steps can leave; a second one during startup finds states of the same kind, and the inductive invariant, which is proved for any number of crashes, covers it for the safety of the data.
- `MaxCommits` is 1 where trimming is to happen and 2 where replays are to be known; the code keeps 4096.
- The symmetry over requests is sound: no constant or property names one. The runs with liveness use no symmetry.
- `UploadClient`: two attempts instead of three keep the case of a first failure that is retried and of the last one that is not. Two incidents are shared by all failures, pauses, reloads, cancellations and crashes, so that any two of these combine. Two calls allow two tabs at once, or one that comes back.
- `RoomEvents`: `MaxStreams` = 1, where the code allows four for an address, lets one slot that is lost or not yet seen closed shut the page out. `Keep` = 5 is at least the number of identifiers of a behaviour, where the code keeps 256. With fewer kept than were missed `AnnouncedReachesBrowser` fails: `routes.ts` line 150 sends a snapshot only if the last identifier sent is below the room's, and a replay that ends in text events has reached it. The page then depends on its 5 s poll; `PageConverges` holds all the same.
- `SharedText`: two texts are the empty one and another; a third would only be one more that is not the base. Two shares give one that succeeds and one that meets it; three need more than the state space allows, and a third writer meets the same comparison. Two requests of a browser are the opening read or a signal's beside a share.
- `DesktopLifecycle`: two rooms are the one left and its successor; what would create a third is not served, and its operation times out. Two launches are a start and one recovery, after which no further launch comes; the theorems are about any number of launches and rooms.
- `SourceReads`: with two blocks a file can be saved in the middle of being read. One slot and one worker make every second request meet the limit or the queue; two events make an identifier taken or free. `MaxSafe` = 5 is above every size. Of an archive of two sources one may be left out because it changed before the archive began, or change while it is streamed, and the other stays.
- `LegacySessions`: three bytes in chunks of two are a full chunk and a shorter last one, each of which may break off at any byte. Two pages at one file meet at the lock, at the offset and at the registration. `MaxSafe` is above the size. The theorems about `ByteRanges` in `LegacySessionsProofs` are about every size.
- `RoomLifecycle`: a TTL of 3 and a hard limit of 4 with a patience of 1 let a request begin in any third of a TTL, and both limits take effect. `MaxTime` is the hard limit, after which nothing more depends on time. Five items are one more than two lists at a limit of two can add, so that a room which passes twice the limit is not out of reach. `Keep` is 256 in the code; with 1, a list of two is as long to the log as one of more than 256 is there.
- `CHECK_DEADLOCK FALSE` in a configuration says that the behaviours of that run stop: when a budget of requests, calls or edits is spent, when the application has quit, or when the process has died.

Fairness:

- `UploadStore`: a pending file-system call settles and its continuation runs; a body ends or is cut off by `server.requestTimeout = 120_000` (`service.ts`). Weak fairness on the steps of each request, cancellation and startup says so; nothing forces a client to send. A service that is down, after a crash or a start that failed, is started again: the desktop does so once by itself and the user after that, so `StartupCompletes` is about users who do not give up.
- `UploadClient`: weak fairness on all steps of browsers, server and startup together: while something can be done, something is. Incidents and new calls are never forced.
- `RoomEvents`: only the fallback timer of the page (every 5 s) asks again, and some answer arrives. No request, stream or event is forced.
- `DesktopLifecycle`: weak fairness on the steps of the operation whose turn it is: the event loop of the main process runs, and each request has a timer (`serviceRequestTimeoutMs`, 30 s). The service need not answer, and users, exits and expiry are never forced.
- `LegacySessions`: weak fairness on each page together with the arrival of its request (or its failure, which the page sees), and on the work at the files. Users, lost connections and removals are never forced.
- `SharedText` and `SourceReads` are about safety and assume none.
- `RoomLifecycle`: requests of any kind keep reaching the server, whose `onRequest` hook sweeps (`routes.ts` 49-56), and removals settle.

Every property of a passing run is broken by a small change of one definition, listed in `PROJECT.json` under mutants; the operators marked "Variant" exist for that.

## What the models showed

Two disagreements have a run of their own, which finds the counterexample:

- `UploadOverwrite`: two uploads of one name that complete together check the path, then rename onto it; the first file delivered is lost.
- `SourceReadsCrash`: a download publishes its progress with the copy of the room it read at authorization. When a second download or any request has taken the next identifier, the insert throws inside `Transform.transform` (`roomDownload.ts` line 80), where nothing catches it, and the service process ends. In `flush` the same error only breaks the response off.

The following were met while modelling. The models have these states; the properties of the runs are about what holds all the same.

Uploads:

- A cancelled item comes back. `cancelItem` takes no write lock, so a checkpoint in flight writes back the record it read before (`roomStore.ts` line 645), and a replay of the last checkpoint completes a cancelled item (PROTOCOL.md line 43: cancellation is idempotent).
- Recovery trusts path and size. `recoverCommittedCompletion` (line 1025) takes any file of the right size at the registered path for the upload and stores that file's digest as its own; two items of one name are registered with one path (PROTOCOL.md line 104: the digest is verified).
- A crash between the rename to a suffixed path and the update of the record makes recovery look in vain and rewind an acknowledged upload.
- The client never replays. If the request of the last checkpoint fails between its commit and its completion, `HEAD` shows the full offset, the page says "complete", and nothing completes the item before the next start of the server (`roomClient.ts` line 282; PROTOCOL.md line 102 describes the replay as the recovery for this case).
- Two registrations under way together register one file twice. A call whose last GET fails sends a delivered file once more.

Rooms and events:

- The event identifier of a room can go back, because every publication starts from a copy read before its awaits (line 842; PROTOCOL.md line 120: it grows). Streams still receive every event that enters the log, since an identifier that is taken makes the publication throw and one that is not is new to them (`PublishedReachesStreams`, proved). The event of a request that lived through more than 256 publications of others is inserted, trimmed at once and skipped by every stream; the proof met it as the case in which `AnnouncedReachesBrowser` needs a hypothesis.
- A browser that goes away while the `onRequest` hook awaits a sweep leaves a slot, a listener and a timer behind, because the handler of GET events waits for a close that is over (`routes.ts` lines 49-56 and 174). With the slots of an address used up its pages live on their poll (`PageConverges`).
- Requests that add files at the same time pass the limit together, each with its whole list (`roomStore.ts` lines 396 and 420): `FilesNearLimit` allows the limit once for each request, and the run reaches twice the limit. As a rule the second list breaks off after its first file, because the first list has taken the identifier that its next event needs; once that identifier was trimmed from the log the list goes on, up to the next one that is still there.
- The same exception in `recoverCommittedCompletion` at startup makes `initialize` reject (lines 1036 and 1014): the application does not start, and does when it is started again.
- The same exception in `deleteRoom`, a crash there, or a partial file that cannot be removed leaves a room "closed" (line 749). Sweeps list active rooms only, so its items and partial files stay, until a request writes back an active copy (PRIVACY.md line 30).

Shared text:

- `QuietDialogIsCurrent` in `SharedText` is false: a signal that arrives while the dialog loads its first note is skipped and not looked at again, so that an untouched dialog shows an old note until the next change (SHARED_TEXT_DESIGN.md line 39). The next share is refused with a conflict, so nothing is lost.
- `RemoteTextKeepsDraft` is false: after a conflict, "Use latest" and new typing, the late answer to an older signal may be no newer than the base and replaces the draft (PROTOCOL.md line 133).

Desktop:

- `RoomReplacedOnlyIfGone` in `DesktopLifecycle` is false: any error of ensure-room, a time-out or a failed read included, is answered by a new room at start and recovery (`main.ts` line 224; AI_CONTEXT.md line 173). The late request may still keep the old room alive beside it.
- `ServiceUpOrReported` is false: an exit during a recovery is ignored by the handler (line 439), and the application is left without service and without message (RELIABILITY.md line 87).

Downloads:

- `roomDownload.ts` opens the file before it asks for a slot; a 503 leaves the handle open, and so does an aborted single download.
- Received files are never looked at again, so an If-Range request may join two versions of one. `ResumedFromOneVersion` is therefore about source files.
- A progress report writes back the item as it was when the request began. A client that stops reading holds its slot until it goes away.

Legacy sessions:

- If fsync or rename fails after the last chunk, the offset is at the end and no request finalises the file: "Resume upload" then polls until it fails.
- If the truncation of a broken chunk fails, the partial file is longer than the offset and every later chunk is refused; a failed upload stays failed, which is why `UploadsEnd` says saved or failed.
- A chunk that waits for its stat while the session is removed recreates the partial file, filled with zeros by the truncation, until a later sweep (`NoBytesLeft` allows zeros for this reason).
- Concurrent registrations exceed the limit on files by one for each, register a file twice, and choose one final path.
- An `rm` that rejects while a session is removed leaves the files that come after it.
- `markFileError` and `markStored` have no caller.

## The proofs

Each module of proofs takes one module and, from the named assumptions on its constants, shows its type invariant and every safety property and action property that the passing runs check, for every number of requests, browsers, items and bytes and every value of the bounds. The two refinements of `DurableUpload` are proved as well. The assumptions say that bounds are numbers, that some of them are positive, that sets which are counted are finite, and that the values which stand for nobody are nobody's. Added for the proofs: `LegacyBounds` says that there is a file and that no page is called "nobody"; `SourceBounds` that the room has space for the items it begins with; `ClientBounds` that `Ids` and `Slots` are finite; `EventBounds` that `Clients` is finite.

Few of the properties are inductive. The following sections say what had to be added and why.

### UploadStoreProofs

- `TypeCorrect` and `StoreIsSound`, `Spec => []StoreInvariant`.
- `OneWriter`, `CommittedIsOnDisk`, `WholeFilesPublished`: `OneWriterPerItem`, `CommittedBytesOnDisk`, `OnlyWholeFilesPublished`.
- `CommitsInOrder`, `CommitsPartition`, `ReadyStays`: `OrderInv`, `CommitsPartitionPrefix`, `ReadyNeverReopened`.
- For items with names of their own, `FilesAtHome`, `AckedKept`, `ReadyDelivered`, `StoreImplementsUpload`: `HomeInv`, `AckedOffsetKept`, `ReadyIsDelivered`, `ImplementsDurableUpload`.

That a committed offset is on disk needs to know what every request inside the write section has done to the file (`WriterSound`: its record is still the stored one, and its bytes have come as far as its `pc` says), which needs the lock to be held from the offset check to the answer (`LocksHeld`) and startup to be alone (`BootAlone`). Only whole files are renamed because a request that completes an item completes one whose offset is its size (`FinisherSound`), and for such an item the partial file is the sender's, or already moved (`ItemSound`); startup is covered by `BootSound`. All of it is said of an item only until somebody asks to cancel it, as cancellation takes no lock.

`OrderInv` orders the idempotency records: they are disjoint, those of an item lie before its offset and before what its writer is about to commit (with gaps, where records were trimmed or forgotten), and what a completing request or startup will write back is no older than they are. A ready item stays ready because no request holds a record of it from before, which is part of the same invariant.

`HomeInv` says where files are: a path carries the name of its item, the file there is that item's or nobody's, and each worker that is about to rename or to record knows the same path as the record. It holds under `NamesApart`: no two items have one sanitized name, and the user keeps no file under such a name. Without it these properties are false. With one name, a crash between rename and commit lets startup adopt the file of another item or rewind the offset, and two completions rename onto one path (the run `UploadOverwrite`). The run `UploadItems` has items with names of their own, so that states satisfy the hypothesis.

The proof has a lemma for each action, which shows the conjuncts that the action can disturb. The refinement maps each step to a step of `DurableUpload` or to a stutter: registration, commit, completion and cancellation are the four steps of the abstract upload, and an answer tells the sender no more than what is committed.

### UploadClientProofs

`ClientInvHolds`, `TypeCorrect`, `DoneMeansCommitted` (`DoneIsCommitted`), `AtMostOneOpen` (`OneOpenItem`) and `PagesSeeDurableUpload` (`ShownIsDurable`).

`ClientInv` gives each item one writer, which stands at the committed offset (`OneWriter`, `RequestOK`); ties each answer that a tab still waits for to the request of that tab (`OwnersInv`); and says what a tab in each position of the loop knows of the offset (`CallsInv`). That a file has one incomplete item needs the registrations that passed the check and have not inserted yet (`Reserved`, `OneFresh`). `Reserved` compares cardinalities; `Ids` and `Slots` are finite for that.

### RoomEventsProofs

`TypeCorrect`, `EventInvHolds`, `PublishedReaches` (`PublishedReachesStreams`) and `AnnouncedReaches` (`AnnouncedReachesBrowser`).

Types need that the log has a highest event, or `Connect` could not replay to it, and that open streams and lost slots together are within the gate. `EventInv` is about identifiers. A request publishes with the one after its copy of the room. Above every copy there is no gap in the log up to the newest event (`HeldInv`, `Gapless`), as only a crash leaves a gap and a crash ends every request. So the identifier is taken, and the insert throws; or it is below all that the log keeps, and the event is trimmed at once; or it is above all that were given out (`Bound`), and no stream skips it. `KnownInv` says that a browser knows each view in the log up to its last identifier and that its stream has the others.

`AnnouncedReaches` has two hypotheses about the behaviour: no request lives through more than `Keep` publications of others (`NoneOutlived`), and the log always has an event with a view (`ViewInLog`). Both are needed: in the first case an announced view enters no log and no stream, in the second a replay ends in text events and no snapshot follows. In the program `Keep` is 256, and a request is received within two minutes (the hashing of added files may take longer). `FewChangesReach` proves that both hold when a room is changed fewer than `Keep` times, as in the run.

### RoomLifecycleProofs

- `LifecycleTypes` and `LifecycleIsSound`, `Spec => []LifecycleInvariant`, from `LifecycleBounds`, the second also from HashPatience <= Patience.
- `ActivityKept` (with HashPatience <= Patience), `FilesBounded`, `GoneStaysGone`, `NothingStays`: `ActivityKeepsRoom`, `FilesNearLimit`, `GoneForGood`, `NothingLeftBehind`.

The expiry kept needs the age of every copy in flight (`CopiesYoung`): a copy that is written back carries the expiry of its own beginning, at most `Patience` before. The limit needs to count what requests will still add (`LimitShared`), whole lists and, for a checkpoint that revives a cancelled item, that item, of which there is one writer at most (`OneUploader`): what a request claims was within the limit when it began, so live and claimed items together are at most the limit for each request. That deletion is final needs that nothing but an insertion by a room that exists adds rows (`GoneIsEmpty`). That nothing is left behind needs that each partial file is one of an item with a row (`ItemsHome`) and that, unless a request overlapped it, the call that ends the room still has before it every file there is (`EndingAlone`).

### SharedTextProofs

`NoteInvHolds`, `TypeCorrect`, `OnlyAcceptedNotes` (`NotesAreAccepted`) and `NoUnseenOverwrite` (`NothingOverwrittenUnseen`). `NoteInv` says of each dialog and each request under way, whatever became of the dialog that sent it, that the notes it holds were accepted, and of each share that it expects the revision of the note its writer saw. As revisions number the accepted notes, equal revisions are one note.

### DesktopLifecycleProofs

`AtMostOneService` (`OneService`), `DesktopInvHolds`, `TypeCorrect`, `OneRoomIsNamed` (`RoomsNeverMixed`) and `NoWayBack` (`NeverBackToALeftRoom`). The first needs `ProcInv` alone: during the delay of a recovery no process lives. `DesktopInv` adds that one operation at most is running, that rooms are created in order, and that the room which a running operation, the vault or a request left over names is one that was created, none of them newer than what the operation will activate; that a room whose vault or activation is under way has its ticket, and that the vault holds it once it was written, if it can be. `RoomsNeverMixed` says of the moment between the two that the vault names the room which the running operation activates next.

### SourceReadsProofs

`SourceInvHolds`, `TypeCorrect`, `OneVersionPerDigest`, `NothingIsForgotten`, `SlotsAreCounted`, `CopiesAreOfOneVersion`, and `ArchiveInvHolds` with `ArchivesAreWhole` (`ArchivesComplete`): all the properties of the run that passes. `HashInv` says that a worker has read blocks of the version it was asked for, as long as the file has that version, and no version comes back; that every digest waited for is queued or being computed; and that a queue means that all workers are busy. `StreamInv` counts the slots by the open streams and says of what was sent that it is of the registered version until the file is saved. `ArchiveInv` says of an archive under way that each source it is to have is still to come, changed or packed, and that what is packed is the registered digest; it needs that no item is of a version yet to come (`FreshInv`), so that a file which differs now will never again be what was registered. `ResumedFromOneVersion` excepts copies of files that were saved while they streamed, for which it is false.

### LegacySessionsProofs

`LegacyInvHolds`, `TypeCorrect`, `NothingReceivedIsLost` (`ReceivedIsKept`), `NothingIsLeft` (`NoBytesLeft`), `RangesAreServed` (`RangesServed`); and about `ByteRanges`, from `MaxSafeIsNat` alone, `ServedRangesAreExact` and `ChunksAreExact`: for every size, header and chunk length up to `Number.MAX_SAFE_INTEGER`, the bytes served are those asked for, and the chunks follow each other. `RecOK` says how hash, partial file and offset of a record belong together at each step of a chunk: while a chunk streams, the hash to go back to is kept beside it; after the last byte the partial file is whole or was removed, so that a late rename brings nothing back.

### Only model-checked

The liveness properties: `WriteLocksReturned`, `StartupCompletes`, `PageConverges`, `EndedRoomGoes`, `CallsEnd`, `OperationsEnd` and `UploadsEnd`. Their proofs would need fairness and ENABLED, which are beyond the prover. The two runs that expect a violation are counterexamples and need no proof.

## What is not modelled

- The cipher of the shared text, ZIP encoding, SQLite itself, TLS and cookies, Electron and the operating system are taken for what the code expects of them.
- User interface, build and release scripts have no state worth a model beyond what the client modules have.
- The rate limiter counts requests by address and the rotating log moves files by size; no state of a room depends on them. The gate is modelled for one address. Limits in bytes and free disk space are refusals, which the models have as failures.
- Tickets, `ensureRoom` and `replaceRoom` in the store, several rooms in one sweep.
- `addRoomFiles` of the desktop, which runs beside the lifecycle queue: the service refuses it for a room that is gone.
- Of the client: the queue of several files, fingerprints and hashing, eviction of resume records, the line endings of a note.
- Of the pool: `close()`. Of downloads: HEAD, empty files, entry names.
- Of the old API: tokens, tickets, names and their collisions, empty files.

## The plan

1. Done: `UploadStore` with its abstract specification, `RoomEvents`, `RoomLifecycle`, `UploadClient`; the proofs of the first and the third.
2. Done: `SharedText`, `DesktopLifecycle`, `SourceReads`, `LegacySessions`, `ByteRanges` with its proofs.
3. Done: the proofs of every safety and action property of the passing runs, and of both refinements of `DurableUpload`.
4. Tickets, `ensureRoom` and `replaceRoom` in `RoomLifecycle`.
