---------------------------- MODULE UploadStore ----------------------------
(***************************************************************************)
(* Durable uploads of one active room: RoomStore.registerUpload,           *)
(* writeUploadCheckpoint, finalizeUpload, recoverCommittedCompletion,      *)
(* cancelItem and recoverActiveRooms (src/apps/server/src/v2/roomStore.ts) *)
(* over the SQLite repository and the receive directory.                   *)
(*                                                                         *)
(* The server runs on one JavaScript thread, so a step of the model is the *)
(* code between two awaits: SQLite calls are synchronous and belong to the *)
(* step that makes them, file-system calls end a step.  An item record is  *)
(* read once per request and written back whole, so a request carries the  *)
(* record it read (job[w].snap) until it writes it.                        *)
(*                                                                         *)
(* Bytes are abstracted to counts.  Of a file we keep its length, the      *)
(* length of the longest prefix that equals the sender's file (good), and  *)
(* the length known to be on disk after a power failure (synced).          *)
(***************************************************************************)
EXTENDS Integers, FiniteSets

CONSTANTS
  Items,            \* uploads that may be registered
  Requests,         \* PATCH requests that may be in flight
  Boot,             \* the startup reconciliation, a worker like a request
  NoOne,            \* holder of a free write lock
  Nobody,           \* owner of a path that holds no file
  User,             \* owner of a file the user put in the directory
  Names, NameOf,    \* sanitized file names, and the name of each item
  Size,             \* size of each item in bytes
  MaxChunk,         \* limits.uploadChunkSize
  MaxSuffix,        \* bound on the suffixed candidates tried for a path
  MaxCommits,       \* maxUploadCommitsPerItem
  MaxActiveWrites,  \* maxActiveWrites
  MaxCrashes,       \* bound on the crashes of a behaviour
  ForeignPaths,     \* paths at which the user may drop files of his own
  Cancellable       \* items a participant may cancel

ASSUME ItemsAssumption ==
  /\ Items # {} /\ IsFiniteSet(Items)
  /\ NameOf \in [Items -> Names]
  /\ Size \in [Items -> Nat]
ASSUME BoundsAssumption ==
  /\ MaxChunk \in Nat \ {0}
  /\ MaxSuffix \in Nat
  /\ MaxCommits \in Nat \ {0}
  /\ MaxActiveWrites \in Nat \ {0}
  /\ MaxCrashes \in Nat
ASSUME WorkersAssumption ==
  /\ Boot \notin Requests
  /\ NoOne \notin Requests
  /\ Nobody # User
  /\ Nobody \notin Items
  /\ User \notin Items

Workers == Requests \union {Boot}

\* "name", "name (k)" and "name (k) (j)" are <<name, 0, 0>>, <<name, k, 0>> and
\* <<name, k, j>>.
Paths == {p \in Names \X (0 .. MaxSuffix) \X (0 .. MaxSuffix) : p[2] = 0 => p[3] = 0}

VARIABLES
  row,          \* room_items: the durable record of each item
  commits,      \* upload_commits: the idempotency records
  part,         \* the partial file of each item
  final,        \* the files of the destination directory
  writeLock,    \* RoomStore.writeLocks, with the request that holds each
  pc, job,      \* where each worker waits, and what it carries
  cancel,       \* the cancelItem call in progress for each item
  mode, todo,   \* "up", "down" or "booting"; items recovery has yet to visit
  crashes,
  acked,        \* ghost: highest offset returned to the sender
  cancelAsked   \* ghost: a DELETE was received for the item

disk == <<row, commits, part, final>>
vars == <<row, commits, part, final, writeLock, pc, job, cancel,
          mode, todo, crashes, acked, cancelAsked>>

-----------------------------------------------------------------------------
(* Records.                                                                 *)

Live == {"pending", "transferring"}

Row == [state : Live \union {"absent", "ready", "cancelled"},
        confirmed : Nat, partial : BOOLEAN, final : Paths]

Commit == [item : Items, start : Nat, end : Nat]

File == [exists : BOOLEAN, len : Nat, good : Nat, synced : Nat]
Gone == [exists |-> FALSE, len |-> 0, good |-> 0, synced |-> 0]
Empty == [Gone EXCEPT !.exists = TRUE]

FinalFile == [owner : Items \union {Nobody, User}, len : Nat, good : Nat]
NoFinal == [owner |-> Nobody, len |-> 0, good |-> 0]

\* Between stat and the end of the transaction a request writes the partial file.
Writing == {"stat", "open", "body", "undo", "sync", "commit"}
Finalizing == {"hash", "choose", "rename", "record"}
Completing == {"probe", "probePart", "adopt"} \union Finalizing
PCs == {"idle", "publish", "settle", "reset"} \union Writing \union Completing

Job == [item : Items, start : Nat, len : Nat, snap : Row, dest : Paths,
        linked : BOOLEAN]

AnyItem == CHOOSE i \in Items : TRUE
NoRow == [state |-> "absent", confirmed |-> 0, partial |-> FALSE,
          final |-> <<NameOf[AnyItem], 0, 0>>]
NoJob == [item |-> AnyItem, start |-> 0, len |-> 0, snap |-> NoRow,
          dest |-> NoRow.final, linked |-> FALSE]
NoCancel == [step |-> "none", snap |-> NoRow]
Cancel == [step : {"none", "remove", "record"}, snap : Row]

TypeOK ==
  /\ row \in [Items -> Row]
  /\ commits \subseteq Commit
  /\ part \in [Items -> File]
  /\ final \in [Paths -> FinalFile]
  /\ writeLock \in [Items -> Requests \union {NoOne}]
  /\ pc \in [Workers -> PCs]
  /\ job \in [Workers -> Job]
  /\ cancel \in [Items -> Cancel]
  /\ mode \in {"up", "down", "booting"}
  /\ todo \subseteq Items
  /\ crashes \in Nat
  /\ acked \in [Items -> Nat]
  /\ cancelAsked \in [Items -> BOOLEAN]

Init ==
  /\ row = [i \in Items |-> NoRow]
  /\ commits = {}
  /\ part = [i \in Items |-> Gone]
  /\ final = [p \in Paths |-> NoFinal]
  /\ writeLock = [i \in Items |-> NoOne]
  /\ pc = [w \in Workers |-> "idle"]
  /\ job = [w \in Workers |-> NoJob]
  /\ cancel = [i \in Items |-> NoCancel]
  /\ mode = "up"
  /\ todo = {}
  /\ crashes = 0
  /\ acked = [i \in Items |-> 0]
  /\ cancelAsked = [i \in Items |-> FALSE]

-----------------------------------------------------------------------------
(* Files and paths.                                                         *)

Lesser(a, b) == IF a < b THEN a ELSE b
Greater(a, b) == IF a < b THEN b ELSE a

Occupied(p) == final[p].owner # Nobody

\* The k-th candidate for a path that has at most one suffix.
Suffixed(p, k) ==
  IF p[2] = 0 THEN <<p[1], k, 0>> ELSE <<p[1], p[2], k>>

\* availableFilePath: the first of base, "base (1)", "base (2)", ... that no file
\* has.  Nothing is reserved: two items may be given the same path.
Available(base, p) ==
  \E k \in 0 .. MaxSuffix :
    /\ p = Suffixed(base, k)
    /\ ~ Occupied(p)
    /\ \A j \in 0 .. k - 1 : Occupied(Suffixed(base, j))

\* truncate(path, n); on a missing file the call fails and changes nothing.
Truncated(f, n) ==
  IF f.exists
    THEN [exists |-> TRUE, len |-> n, good |-> Lesser(f.good, n),
          synced |-> Lesser(f.synced, n)]
    ELSE f

\* k body bytes meant for offset start are appended; genuine tells whether
\* they are the sender's bytes.
Appended(f, start, k, genuine) ==
  [exists |-> f.exists, len |-> f.len + k, synced |-> f.synced,
   good |-> IF genuine /\ f.len = start /\ f.good = start THEN start + k ELSE f.good]

\* Variant: the descriptor is closed without an fsync.
NotSynced(f) == f

\* fsync through a descriptor opened "r+".
Synced(f) == [f EXCEPT !.synced = f.len]

\* What is left of a file of which a power failure kept the first n bytes.
Survivor(f, n) == [f EXCEPT !.len = n, !.good = Lesser(@, n), !.synced = n]

-----------------------------------------------------------------------------
(* Shared pieces of the handlers.                                           *)

\* Variant: only the number of writers is limited.
SomeLockFree(i) ==
  Cardinality({j \in Items : writeLock[j] # NoOne}) < MaxActiveWrites

\* acquireWriteLock: one writer per item, a bounded number in all.
WriteLockFree(i) ==
  /\ writeLock[i] = NoOne
  /\ Cardinality({j \in Items : writeLock[j] # NoOne}) < MaxActiveWrites

Goto(w, label) == pc' = [pc EXCEPT ![w] = label]

\* Variant: the lock is not released in a finally block.
FinishLocked(w) ==
  /\ Goto(w, "idle")
  /\ job' = [job EXCEPT ![w] = NoJob]
  /\ UNCHANGED writeLock

\* The handler returns or throws: the finally block releases what it holds.
Finish(w) ==
  /\ Goto(w, "idle")
  /\ job' = [job EXCEPT ![w] = NoJob]
  /\ writeLock' = [i \in Items |-> IF writeLock[i] = w THEN NoOne ELSE writeLock[i]]

\* A response carrying Upload-Offset n for item i.
Answer(w, i, n) ==
  acked' = IF w = Boot THEN acked ELSE [acked EXCEPT ![i] = Greater(@, n)]

\* trimUploadCommits keeps the records with the highest end offsets.
Trimmed(cs, i) ==
  LET newer(c) == {d \in cs : d.item = i /\ d.end > c.end}
  IN  {c \in cs : c.item = i => Cardinality(newer(c)) < MaxCommits}

\* Variant: a rewind leaves the idempotency records alone.
AllCommits(i, n) == commits

\* deleteUploadCommitsAfter
CommitsUpTo(i, n) == {c \in commits : c.item = i => c.end <= n}

-----------------------------------------------------------------------------
(* Registration, status, retention.                                         *)

\* registerUpload for an item whose fingerprint matches no incomplete item.
\* An empty file is complete at once and is created exclusively ("wx").
Register(i) ==
  /\ mode = "up"
  /\ row[i].state = "absent"
  /\ \E p \in Paths :
       /\ Available(<<NameOf[i], 0, 0>>, p)
       /\ row' = [row EXCEPT ![i] =
                    [state |-> IF Size[i] = 0 THEN "ready" ELSE "pending",
                     confirmed |-> 0, partial |-> Size[i] # 0, final |-> p]]
       /\ final' = IF Size[i] = 0
                     THEN [final EXCEPT ![p] = [owner |-> i, len |-> 0, good |-> 0]]
                     ELSE final
  /\ UNCHANGED <<commits, part, writeLock, pc, job, cancel, mode, todo,
                 crashes, acked, cancelAsked>>

\* HEAD reports the committed offset.
ReportStatus(i) ==
  /\ mode = "up"
  /\ row[i].state # "absent"
  /\ Answer(NoOne, i, row[i].confirmed)
  /\ UNCHANGED <<disk, writeLock, pc, job, cancel, mode, todo, crashes,
                 cancelAsked>>

\* The sweep deletes the idempotency records older than the retention period:
\* of one item, those that end at or before some offset.
ForgetCommits(i, cut) ==
  /\ mode = "up"
  /\ commits' = {c \in commits : c.item = i => c.end > cut}
  /\ UNCHANGED <<row, part, final, writeLock, pc, job, cancel, mode, todo,
                 crashes, acked, cancelAsked>>

\* The user puts a file of his own into the receive directory.
DropForeignFile(p, n) ==
  /\ p \in ForeignPaths
  /\ ~ Occupied(p)
  /\ final' = [final EXCEPT ![p] = [owner |-> User, len |-> n, good |-> 0]]
  /\ UNCHANGED <<row, commits, part, writeLock, pc, job, cancel, mode, todo,
                 crashes, acked, cancelAsked>>

-----------------------------------------------------------------------------
(* writeUploadCheckpoint.                                                   *)

CommitOf(i, start, end) == [item |-> i, start |-> start, end |-> end]

\* Everything up to the first await: read the record, find no idempotency
\* record, accept the offset, take the lock.  Any other request is refused
\* without an effect.
StartCheckpoint(r, i, n) ==
  /\ mode = "up"
  /\ pc[r] = "idle"
  /\ row[i].state \in Live
  /\ row[i].partial
  /\ n \in 1 .. MaxChunk
  /\ row[i].confirmed + n <= Size[i]
  /\ CommitOf(i, row[i].confirmed, row[i].confirmed + n) \notin commits
  /\ WriteLockFree(i)
  /\ writeLock' = [writeLock EXCEPT ![i] = r]
  /\ job' = [job EXCEPT ![r] = [item |-> i, start |-> row[i].confirmed,
                                len |-> n, snap |-> row[i],
                                dest |-> row[i].final, linked |-> FALSE]]
  /\ Goto(r, IF row[i].confirmed > 0 THEN "stat" ELSE "open")
  /\ UNCHANGED <<disk, cancel, mode, todo, crashes, acked, cancelAsked>>

\* A replay of a committed key: answered from the record, after completing an
\* upload whose last checkpoint is committed.  It takes no lock.
StartReplay(r, c) ==
  LET known == row[c.item]
      complete == known.confirmed = Size[c.item] /\ known.state # "ready"
  IN
  /\ mode = "up"
  /\ pc[r] = "idle"
  /\ c \in commits
  /\ IF complete
       THEN /\ job' = [job EXCEPT ![r] = [NoJob EXCEPT !.item = c.item,
                                                       !.snap = known,
                                                       !.dest = known.final]]
            /\ Goto(r, "probe")
            /\ UNCHANGED acked
       ELSE /\ Answer(r, c.item, known.confirmed)
            /\ UNCHANGED <<pc, job>>
  /\ UNCHANGED <<disk, writeLock, cancel, mode, todo, crashes, cancelAsked>>

\* stat: a later checkpoint may only extend a file of the committed length.
StatPartial(r) ==
  LET f == part[job[r].item] IN
  /\ pc[r] = "stat"
  /\ IF f.exists /\ f.len = job[r].start
       THEN Goto(r, "open") /\ UNCHANGED <<job, writeLock>>
       ELSE Finish(r)
  /\ UNCHANGED <<disk, cancel, mode, todo, crashes, acked, cancelAsked>>

\* createWriteStream: flag "w" empties or creates, flag "a" keeps or creates.
OpenPartial(r) ==
  LET i == job[r].item IN
  /\ pc[r] = "open"
  /\ part' = [part EXCEPT ![i] = IF job[r].start = 0 \/ ~ @.exists THEN Empty ELSE @]
  /\ job' = [job EXCEPT ![r].linked = TRUE]
  /\ Goto(r, "body")
  /\ UNCHANGED <<row, commits, final, writeLock, cancel, mode, todo, crashes,
                 acked, cancelAsked>>

\* Variant: the digest of the body is not compared.
RightLength(r, k, genuine) == k = job[r].len

\* The body has the announced length and the announced digest.
BodyAccepted(r, k, genuine) == k = job[r].len /\ genuine

\* pipeline: k bytes arrive before the body ends, breaks off or is aborted; an
\* unlinked file receives them unseen.  A body that is not accepted is undone, and
\* so is one whose connection breaks after the last byte.
ReceiveBody(r) ==
  LET i == job[r].item IN
  /\ pc[r] = "body"
  /\ \E k \in 0 .. job[r].len, genuine \in BOOLEAN :
       /\ part' = IF job[r].linked
                    THEN [part EXCEPT ![i] = Appended(@, job[r].start, k, genuine)]
                    ELSE part
       /\ \/ BodyAccepted(r, k, genuine) /\ Goto(r, "sync")
          \/ Goto(r, "undo")
  /\ UNCHANGED <<row, commits, final, writeLock, job, cancel, mode, todo,
                 crashes, acked, cancelAsked>>

\* A rejected body, and a failed transaction, are cut off again by path.
UndoWrite(r) ==
  LET i == job[r].item IN
  /\ pc[r] = "undo"
  /\ part' = [part EXCEPT ![i] = Truncated(@, job[r].start)]
  /\ Finish(r)
  /\ UNCHANGED <<row, commits, final, cancel, mode, todo, crashes, acked,
                 cancelAsked>>

\* open(path, "r+") and fsync.
SyncPartial(r) ==
  LET i == job[r].item IN
  /\ pc[r] = "sync"
  /\ IF part[i].exists
       THEN /\ part' = [part EXCEPT ![i] = Synced(@)]
            /\ Goto(r, "commit")
            /\ UNCHANGED <<job, writeLock>>
       ELSE Finish(r) /\ UNCHANGED part
  /\ UNCHANGED <<row, commits, final, cancel, mode, todo, crashes, acked,
                 cancelAsked>>

\* commitUploadCheckpoint writes the whole record and the idempotency record in
\* one transaction, whatever the record in the database says by now.
CommitCheckpoint(r) ==
  LET i == job[r].item
      end == job[r].start + job[r].len
      done == [job[r].snap EXCEPT !.confirmed = end, !.state = "transferring"]
  IN
  /\ pc[r] = "commit"
  /\ row' = [row EXCEPT ![i] = done]
  /\ commits' = Trimmed(commits \union {CommitOf(i, job[r].start, end)}, i)
  /\ job' = [job EXCEPT ![r].snap = done]
  /\ Goto(r, "publish")
  /\ UNCHANGED <<part, final, writeLock, cancel, mode, todo, crashes, acked,
                 cancelAsked>>

\* The transaction fails and is rolled back; the file is truncated next.
FailCommit(r) ==
  /\ pc[r] = "commit"
  /\ Goto(r, "undo")
  /\ UNCHANGED <<disk, writeLock, job, cancel, mode, todo, crashes, acked,
                 cancelAsked>>

\* touch and publish("item-progress"): the answer, or on to finalizeUpload.
PublishProgress(r) ==
  LET i == job[r].item IN
  /\ pc[r] = "publish"
  /\ IF job[r].snap.confirmed = Size[i]
       THEN Goto(r, "hash") /\ UNCHANGED <<writeLock, job, acked>>
       ELSE Finish(r) /\ Answer(r, i, job[r].snap.confirmed)
  /\ UNCHANGED <<disk, cancel, mode, todo, crashes, cancelAsked>>

\* publish throws when the event identifier of the request's room snapshot is
\* taken already: the checkpoint stays committed, nothing after it happens.
FailPublish(r) ==
  /\ pc[r] = "publish"
  /\ Finish(r)
  /\ UNCHANGED <<disk, cancel, mode, todo, crashes, acked, cancelAsked>>

\* stat, open, truncate, fsync, read or rename fails: the error leaves the handler with
\* whatever is in the partial file.
FailIO(r) ==
  /\ r \in Requests
  /\ pc[r] \in {"stat", "open", "undo", "sync", "hash", "rename"}
  /\ Finish(r)
  /\ UNCHANGED <<disk, cancel, mode, todo, crashes, acked, cancelAsked>>

-----------------------------------------------------------------------------
(* recoverCommittedCompletion and finalizeUpload, run by a replay, by the    *)
(* last checkpoint (from "hash") and by startup reconciliation.              *)

\* Variant: startup waits for the file to appear.
ProbeAgain(w) ==
  Goto(w, "probe") /\ UNCHANGED <<writeLock, job, acked>>

\* A worker that found nothing to complete: a replay answers, startup goes on
\* to compare the partial file with the offset.
NothingRecovered(w) ==
  IF w = Boot
    THEN Goto(w, "settle") /\ UNCHANGED <<writeLock, job, acked>>
    ELSE Finish(w) /\ Answer(w, job[w].item, job[w].snap.confirmed)

\* A file of the right size at the final path counts as the finished upload...
ProbeFinal(w) ==
  LET found == final[job[w].snap.final] IN
  /\ pc[w] = "probe"
  /\ Goto(w, IF found.owner # Nobody /\ found.len = Size[job[w].item]
               THEN "adopt" ELSE "probePart")
  /\ UNCHANGED <<disk, writeLock, job, cancel, mode, todo, crashes, acked,
                 cancelAsked>>

\* ... otherwise a full partial file is finalized.
ProbePartial(w) ==
  LET i == job[w].item IN
  /\ pc[w] = "probePart"
  /\ IF job[w].snap.partial /\ part[i].exists /\ part[i].len = Size[i]
       THEN Goto(w, "hash") /\ UNCHANGED <<writeLock, job, acked>>
       ELSE NothingRecovered(w)
  /\ UNCHANGED <<disk, cancel, mode, todo, crashes, cancelAsked>>

\* hashFile of the partial file; the digest is recorded, not compared.
HashPartial(w) ==
  /\ pc[w] = "hash"
  /\ IF part[job[w].item].exists
       THEN Goto(w, "choose") /\ UNCHANGED <<writeLock, job>>
       ELSE Finish(w)
  /\ UNCHANGED <<disk, cancel, mode, todo, crashes, acked, cancelAsked>>

\* pathExists(finalPath), and another path if the registered one is taken: its own
\* base name is suffixed once more.  An error when every candidate is taken.
ChooseFinalPath(w) ==
  LET wanted == job[w].snap.final IN
  /\ pc[w] = "choose"
  /\ \/ \E p \in Paths :
          /\ IF Occupied(wanted) THEN Available(wanted, p) ELSE p = wanted
          /\ job' = [job EXCEPT ![w].dest = p]
          /\ Goto(w, "rename")
          /\ UNCHANGED writeLock
     \/ /\ w \in Requests
        /\ \A k \in 0 .. MaxSuffix : Occupied(Suffixed(wanted, k))
        /\ Finish(w)
  /\ UNCHANGED <<disk, cancel, mode, todo, crashes, acked, cancelAsked>>

\* rename replaces whatever is at the destination by now.
RenamePartial(w) ==
  LET i == job[w].item IN
  /\ pc[w] = "rename"
  /\ IF part[i].exists
       THEN /\ final' = [final EXCEPT ![job[w].dest] =
                           [owner |-> i, len |-> part[i].len, good |-> part[i].good]]
            /\ part' = [part EXCEPT ![i] = Gone]
            /\ Goto(w, "record")
            /\ UNCHANGED <<writeLock, job>>
       ELSE Finish(w) /\ UNCHANGED <<part, final>>
  /\ UNCHANGED <<row, commits, cancel, mode, todo, crashes, acked, cancelAsked>>

\* The record becomes ready.  If the event cannot be published, because its
\* identifier is taken, a request fails all the same and a start is given up:
\* initialize rejects, and the service ends with its files as they are.
RecordReady(w) ==
  LET i == job[w].item IN
  /\ pc[w] \in {"record", "adopt"}
  /\ row' = [row EXCEPT ![i] =
               [state |-> "ready", confirmed |-> Size[i], partial |-> FALSE,
                final |-> IF pc[w] = "adopt" THEN job[w].snap.final ELSE job[w].dest]]
  /\ Finish(w)
  /\ Answer(w, i, Size[i]) \/ UNCHANGED acked
  /\ \/ UNCHANGED <<mode, todo>>
     \/ w = Boot /\ mode' = "down" /\ todo' = {}
  /\ UNCHANGED <<commits, part, final, cancel, crashes, cancelAsked>>

-----------------------------------------------------------------------------
(* cancelItem: no lock is taken and the record read first is written last.   *)

StartCancel(i) ==
  /\ mode = "up"
  /\ i \in Cancellable
  /\ row[i].state # "absent"
  /\ cancel[i].step = "none"
  /\ cancel' = [cancel EXCEPT ![i] = [step |-> IF row[i].partial THEN "remove"
                                                                 ELSE "record",
                                      snap |-> row[i]]]
  /\ cancelAsked' = [cancelAsked EXCEPT ![i] = TRUE]
  /\ UNCHANGED <<disk, writeLock, pc, job, mode, todo, crashes, acked>>

\* rm(partialPath, { force: true }): an open stream goes on writing unseen.
RemoveCancelled(i) ==
  /\ cancel[i].step = "remove"
  /\ part' = [part EXCEPT ![i] = Gone]
  /\ job' = [w \in Workers |-> IF job[w].item = i
                                 THEN [job[w] EXCEPT !.linked = FALSE]
                                 ELSE job[w]]
  /\ cancel' = [cancel EXCEPT ![i].step = "record"]
  /\ UNCHANGED <<row, commits, final, writeLock, pc, mode, todo, crashes, acked,
                 cancelAsked>>

\* Variant: the record is marked with a state no reader knows.
RecordFailed(i) ==
  /\ cancel[i].step = "record"
  /\ row' = [row EXCEPT ![i] = [cancel[i].snap EXCEPT !.state = "failed"]]
  /\ cancel' = [cancel EXCEPT ![i] = NoCancel]
  /\ UNCHANGED <<commits, part, final, writeLock, pc, job, mode, todo, crashes,
                 acked, cancelAsked>>

RecordCancelled(i) ==
  /\ cancel[i].step = "record"
  /\ row' = [row EXCEPT ![i] = [cancel[i].snap EXCEPT !.state = "cancelled"]]
  /\ cancel' = [cancel EXCEPT ![i] = NoCancel]
  /\ UNCHANGED <<commits, part, final, writeLock, pc, job, mode, todo, crashes,
                 acked, cancelAsked>>

-----------------------------------------------------------------------------
(* Crash, restart, recoverActiveRooms.                                       *)

\* The process dies; of each partial file at least the synced bytes remain.
Crash ==
  /\ mode # "down"
  /\ crashes < MaxCrashes
  /\ crashes' = crashes + 1
  /\ mode' = "down"
  /\ \E kept \in [Items -> UNION {0 .. part[i].len : i \in Items}] :
       /\ \A i \in Items : part[i].synced <= kept[i] /\ kept[i] <= part[i].len
       /\ part' = [i \in Items |-> Survivor(part[i], kept[i])]
  /\ pc' = [w \in Workers |-> "idle"]
  /\ job' = [w \in Workers |-> NoJob]
  /\ writeLock' = [i \in Items |-> NoOne]
  /\ cancel' = [i \in Items |-> NoCancel]
  /\ todo' = {}
  /\ UNCHANGED <<row, commits, final, acked, cancelAsked>>

Restart ==
  /\ mode = "down"
  /\ mode' = "booting"
  /\ todo' = {i \in Items : row[i].state \in Live}
  /\ UNCHANGED <<disk, writeLock, pc, job, cancel, crashes, acked, cancelAsked>>

\* The next unfinished upload; a fully committed one is completed first.
VisitItem(i) ==
  /\ mode = "booting"
  /\ pc[Boot] = "idle"
  /\ i \in todo
  /\ todo' = todo \ {i}
  /\ job' = [job EXCEPT ![Boot] = [NoJob EXCEPT !.item = i, !.snap = row[i],
                                                !.dest = row[i].final]]
  /\ Goto(Boot, IF row[i].confirmed = Size[i] THEN "probe" ELSE "settle")
  /\ UNCHANGED <<disk, writeLock, cancel, mode, crashes, acked, cancelAsked>>

\* A longer file is truncated to the offset; for a shorter or missing one the
\* offset is rewound and the records beyond it are deleted.
SettlePartial ==
  LET i == job[Boot].item
      f == part[i]
      offset == job[Boot].snap.confirmed
  IN
  /\ pc[Boot] = "settle"
  /\ IF f.len > offset
       THEN /\ part' = [part EXCEPT ![i] = Truncated(@, offset)]
            /\ UNCHANGED <<commits, job>>
       ELSE /\ commits' = IF f.exists /\ f.len = offset THEN commits
                                                       ELSE CommitsUpTo(i, f.len)
            /\ job' = [job EXCEPT ![Boot].snap.confirmed = f.len]
            /\ UNCHANGED part
  /\ Goto(Boot, "reset")
  /\ UNCHANGED <<row, final, writeLock, cancel, mode, todo, crashes, acked,
                 cancelAsked>>

\* updateItem, and completion again if the settled file is full.
ResetRow ==
  LET i == job[Boot].item
      offset == job[Boot].snap.confirmed
      settled == [job[Boot].snap EXCEPT
                    !.state = IF offset > 0 THEN "transferring" ELSE "pending"]
  IN
  /\ pc[Boot] = "reset"
  /\ row' = [row EXCEPT ![i] = settled]
  /\ IF offset = Size[i]
       THEN /\ job' = [job EXCEPT ![Boot].snap = settled]
            /\ Goto(Boot, "probe")
            /\ UNCHANGED writeLock
       ELSE Finish(Boot)
  /\ UNCHANGED <<commits, part, final, cancel, mode, todo, crashes, acked,
                 cancelAsked>>

\* Every room is reconciled: the server listens.
FinishBoot ==
  /\ mode = "booting"
  /\ todo = {}
  /\ pc[Boot] = "idle"
  /\ mode' = "up"
  /\ UNCHANGED <<disk, writeLock, pc, job, cancel, todo, crashes, acked, cancelAsked>>

-----------------------------------------------------------------------------

CheckpointStep(r) ==
  \/ StatPartial(r) \/ OpenPartial(r) \/ ReceiveBody(r) \/ UndoWrite(r)
  \/ SyncPartial(r) \/ CommitCheckpoint(r) \/ FailCommit(r)
  \/ PublishProgress(r) \/ FailPublish(r) \/ FailIO(r)

CompletionStep(w) ==
  \/ ProbeFinal(w) \/ ProbePartial(w) \/ HashPartial(w)
  \/ ChooseFinalPath(w) \/ RenamePartial(w) \/ RecordReady(w)

BootStep ==
  \/ \E i \in Items : VisitItem(i)
  \/ SettlePartial \/ ResetRow \/ FinishBoot

Next ==
  \/ \E i \in Items :
       \/ Register(i) \/ ReportStatus(i)
       \/ StartCancel(i) \/ RemoveCancelled(i) \/ RecordCancelled(i)
       \/ \E cut \in 1 .. Size[i] : ForgetCommits(i, cut)
  \/ \E p \in Paths, i \in Items : \E n \in {0, Size[i]} : DropForeignFile(p, n)
  \/ \E r \in Requests :
       \/ \E i \in Items, n \in 1 .. MaxChunk : StartCheckpoint(r, i, n)
       \/ \E c \in commits : StartReplay(r, c)
       \/ CheckpointStep(r)
  \/ \E w \in Workers : CompletionStep(w)
  \/ Crash \/ Restart \/ BootStep

Spec == Init /\ [][Next]_vars

\* What the event loop guarantees: a pending file-system call settles (a body
\* ends or is cut off by server.requestTimeout), and its continuation runs.  A
\* service that went down is started again.
FairSpec ==
  /\ Spec
  /\ \A r \in Requests : WF_vars(CheckpointStep(r) \/ CompletionStep(r))
  /\ \A i \in Items : WF_vars(RemoveCancelled(i) \/ RecordCancelled(i))
  /\ WF_vars(Restart \/ BootStep \/ CompletionStep(Boot))

-----------------------------------------------------------------------------
(* The inductive invariant behind OneWriterPerItem, CommittedBytesOnDisk and *)
(* OnlyWholeFilesPublished.  What it says of an item's data it says only     *)
(* until somebody asks to cancel the item.                                   *)

FilesSound ==
  \A i \in Items :
    /\ part[i].good <= part[i].len
    /\ part[i].synced <= part[i].len

\* A request keeps the lock from the offset check to the answer.
LocksHeld ==
  \A r \in Requests : pc[r] \in Writing \union {"publish"} => writeLock[job[r].item] = r

\* Startup reconciliation and requests never run at the same time.
BootAlone ==
  /\ pc[Boot] \in {"idle", "settle", "reset"} \union Completing
  /\ pc[Boot] # "idle" => mode = "booting"
  /\ \A r \in Requests : pc[r] # "idle" => mode = "up" /\ pc[r] \notin {"settle", "reset"}

CancelKnown == \A i \in Items : cancel[i].step # "none" => cancelAsked[i]

\* The record and the partial file of an item agree.
ItemSound(i) ==
  /\ row[i].confirmed <= Size[i]
  /\ ~ part[i].exists => part[i].len = 0
  /\ row[i].state = "absent" => row[i].confirmed = 0 /\ ~ part[i].exists
  /\ \/ /\ part[i].good >= row[i].confirmed
        /\ part[i].synced >= row[i].confirmed
     \/ row[i].confirmed = Size[i] /\ ~ part[i].exists
  /\ row[i].confirmed = Size[i] /\ part[i].exists =>
       part[i].good = Size[i] /\ part[i].len = Size[i] /\ part[i].synced = Size[i]

\* What a writer read is still true, and how far its bytes have come.
WriterSound(r) ==
  LET i == job[r].item
      f == part[i]
      end == job[r].start + job[r].len
  IN
  /\ row[i] = job[r].snap
  /\ row[i].state \in Live
  /\ row[i].confirmed = job[r].start
  /\ job[r].len >= 1
  /\ end <= Size[i]
  /\ pc[r] = "open" /\ job[r].start > 0 => f.exists /\ f.len = job[r].start
  /\ pc[r] = "body" => job[r].linked /\ f.exists /\ f.len = job[r].start
  /\ pc[r] \in {"sync", "commit"} => f.len = end /\ f.good = end
  /\ pc[r] = "commit" => f.synced = end

\* Only a fully committed item is completed.
FinisherSound(w) == row[job[w].item].confirmed = Size[job[w].item]

\* Startup works on the offset that is recorded, then on the length it left.
BootSound ==
  LET i == job[Boot].item
      offset == job[Boot].snap.confirmed
  IN
  /\ pc[Boot] \in {"settle"} \union Completing => offset = row[i].confirmed
  /\ pc[Boot] = "reset" =>
       /\ offset <= Size[i]
       /\ part[i].len = offset /\ part[i].good >= offset /\ part[i].synced >= offset

Finishes(w) ==
  \/ pc[w] \in Completing
  \/ pc[w] = "publish" /\ job[w].snap.confirmed = Size[job[w].item]

StoreInvariant ==
  /\ FilesSound
  /\ LocksHeld
  /\ BootAlone
  /\ CancelKnown
  /\ \A i \in Items : cancelAsked[i] \/ ItemSound(i)
  /\ \A r \in Requests :
       pc[r] \in Writing => cancelAsked[job[r].item] \/ WriterSound(r)
  /\ \A w \in Workers : Finishes(w) => cancelAsked[job[w].item] \/ FinisherSound(w)
  /\ cancelAsked[job[Boot].item] \/ BootSound

-----------------------------------------------------------------------------
(* Properties.                                                              *)

\* No two requests are ever between the offset check and the commit of the same
\* item: acquireWriteLock and the finally block that releases it keep checkpoints
\* of one file from interleaving, also across failures and crashes.
OneWriterPerItem ==
  \A r, s \in Requests :
    pc[r] \in Writing /\ pc[s] \in Writing /\ job[r].item = job[s].item => r = s

\* Whatever the database says was received of an item nobody cancelled is in its
\* partial file, is the sender's data and would survive a power failure; the file
\* is missing only before the first byte, or after the rename of a complete one
\* (write, digest check, fsync, commit in that order; truncation; recovery).
CommittedBytesOnDisk ==
  \A i \in Items : row[i].state \in Live /\ ~ cancelAsked[i] =>
    \/ /\ part[i].good >= row[i].confirmed
       /\ part[i].synced >= row[i].confirmed
    \/ row[i].confirmed = Size[i] /\ ~ part[i].exists

\* The idempotency records of an item describe disjoint ranges below its offset:
\* no byte range is committed twice, whatever was retried, rewound, forgotten or
\* trimmed in between.
CommitsPartitionPrefix ==
  \A c \in commits :
    /\ row[c.item].state \in Live => c.end <= row[c.item].confirmed
    /\ c.start < c.end
    /\ \A d \in commits : d.item = c.item => d = c \/ d.end <= c.start \/ c.end <= d.start

\* An offset returned to a sender, by PATCH or HEAD, is never taken back while the
\* item is not cancelled: not by a failure, a crash, the startup rewind or a stale
\* record written by another request.
AckedOffsetKept ==
  \A i \in Items : cancelAsked[i] \/ acked[i] <= row[i].confirmed

\* finalizeUpload moves a partial file to its destination only when that file is
\* the sender's file from the first byte to the last (item not cancelled).
OnlyWholeFilesPublished ==
  [][\A p \in Paths : \A i \in Items :
       final'[p] # final[p] /\ final'[p].owner = i /\ ~ cancelAsked[i] =>
         final'[p].len = Size[i] /\ final'[p].good = Size[i]]_final

Delivered(i) ==
  final[row[i].final] = [owner |-> i, len |-> Size[i], good |-> Size[i]]

\* An item listed as ready, and never cancelled, has its own complete file at its
\* final path: after concurrent completion by a checkpoint and its replay, and
\* after completion was resumed by startup reconciliation.
ReadyIsDelivered ==
  \A i \in Items : row[i].state = "ready" /\ ~ cancelAsked[i] => Delivered(i)

\* A ready item never goes back to accepting bytes, although every writer stores
\* the whole record it read before its awaits.
ReadyNeverReopened ==
  [][\A i \in Items : row[i].state = "ready" => row'[i].state \in {"ready", "cancelled"}]_row

\* rename never destroys a file another item has delivered: the destination was
\* found free (pathExists, availableFilePath) before it.
DeliveredNeverReplaced ==
  [][\A p \in Paths : final[p].owner \in Items => final'[p] = final[p]]_final

\* A cancelled item stays cancelled.
CancelSticks ==
  [][\A i \in Items : row[i].state = "cancelled" => row'[i].state = "cancelled"]_row

\* For items with names of their own the store implements the abstract upload:
\* durable is the committed offset, complete means ready with the sender's file at
\* the final path, and once a participant cancels nothing more is promised.
AbstractPhase(i) ==
  IF cancelAsked[i] THEN "released"
  ELSE CASE row[i].state = "absent" -> "none"
         [] row[i].state \in Live -> "open"
         [] row[i].state = "ready" /\ Delivered(i) -> "complete"
         [] OTHER -> "broken"

Promise == INSTANCE DurableUpload WITH
  phase <- [i \in Items |-> AbstractPhase(i)],
  durable <- [i \in Items |-> IF cancelAsked[i] THEN 0 ELSE row[i].confirmed],
  told <- [i \in Items |-> IF cancelAsked[i] THEN 0 ELSE acked[i]]

\* Every behaviour of the store is one of the abstract upload.
ImplementsDurableUpload == Promise!Spec

\* Every write lock is given back: no error path of a checkpoint leaks it.
WriteLocksReturned ==
  \A i \in Items : writeLock[i] # NoOne ~> writeLock[i] = NoOne

\* Startup reconciliation comes to an end, whatever state the crash left: a start
\* that is given up leaves one upload fewer to the next one, so only finitely many
\* are before the server listens.
StartupCompletes == mode = "booting" ~> mode = "up"

=============================================================================
