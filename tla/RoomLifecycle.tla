--------------------------- MODULE RoomLifecycle ---------------------------
(***************************************************************************)
(* The life of one room: sliding and hard expiry, reset, the sweep, and    *)
(* what requests that read the room before it ended do to it afterwards    *)
(* (roomStore.ts: requireAuthorized, requireByToken, registerUpload,       *)
(* addSourceFiles, writeUploadCheckpoint, cancelItem, resumeRoom,          *)
(* deleteRoom, sweepExpired, publish).                                     *)
(*                                                                         *)
(* A step is the code between two awaits.  A request copies the room       *)
(* record when it is authorized and writes that copy back, whole, when it  *)
(* publishes.  Of an item we keep its state and whether its partial file   *)
(* exists, of an event its identifier; UploadStore has the bytes,          *)
(* RoomEvents the events.  Left out: completion of uploads, downloads and  *)
(* tickets.                                                                *)
(***************************************************************************)
EXTENDS Integers, FiniteSets

CONSTANTS
  Handlers,     \* requests that may be in flight
  Items,        \* items that may be added to the room
  Enders,       \* calls that end the room: a deleteRoom and a sweep
  Reset,        \* the one of Enders that is deleteRoom
  TTL,          \* ttlMs
  HardTTL,      \* hardTtlMs; the room is created at time 0
  Patience,     \* server.requestTimeout, the longest life of a request
  HashPatience, \* longest time the hashing of added files takes
  MaxFiles,     \* limits.maxFiles
  Keep,         \* eventHistoryLimit
  MaxTime,      \* bound on the clock
  MaxRequests,  \* bound on the requests of a behaviour
  MaxCrashes    \* bound on the crashes of a behaviour

ASSUME LifecycleBounds ==
  /\ Handlers # {} /\ IsFiniteSet(Handlers)
  /\ Items # {} /\ IsFiniteSet(Items)
  /\ Reset \in Enders
  /\ TTL \in Nat /\ HardTTL \in Nat /\ MaxTime \in Nat
  /\ Patience \in Nat /\ HashPatience \in Nat
  /\ MaxFiles \in Nat \ {0} /\ Keep \in Nat \ {0}
  /\ MaxRequests \in Nat /\ MaxCrashes \in Nat

VARIABLES
  now,
  room,        \* the row of table rooms
  log,         \* identifiers in room_events
  rows,        \* state of each item in room_items
  files,       \* items whose partial file exists
  pc, job,     \* where each request waits, and what it carries
  ender,       \* the deleteRoom and sweepExpired calls in progress
  budget,      \* requests and crashes that may still come
  lastActive,  \* ghost: time of the last authorized request
  overlapped,  \* ghost: a request was in flight while the room was being ended
  stuck        \* ghost: ending the room failed or was cut off by a crash

request == <<pc, job>>
ghosts == <<lastActive, overlapped, stuck>>
vars == <<now, room, log, rows, files, pc, job, ender, budget, ghosts>>

-----------------------------------------------------------------------------

Room == [status : {"active", "closed", "expired", "gone"}, expires : Nat, event : Nat]

ItemState == {"none", "source", "pending", "transferring", "cancelled"}

Uploads == {"stat", "create", "body", "sync", "commit", "progress"}
PCs == {"idle", "register", "hash", "remove", "record"} \union Uploads

\* item: the upload or source a request is about; batch: the files it will add.
Job == [copy : Room, item : Items, batch : SUBSET Items, begun : Nat,
        bound : BOOLEAN, aborted : BOOLEAN]

Lesser(a, b) == IF a < b THEN a ELSE b

FirstRoom == [status |-> "active", expires |-> Lesser(TTL, HardTTL), event |-> 1]
AnyItem == CHOOSE i \in Items : TRUE
NoJob == [copy |-> FirstRoom, item |-> AnyItem, batch |-> {}, begun |-> 0,
          bound |-> FALSE, aborted |-> FALSE]
NoEnder == [working |-> FALSE, left |-> {}]

TypeOK ==
  /\ now \in 0 .. MaxTime
  /\ room \in Room
  /\ log \subseteq Nat
  /\ rows \in [Items -> ItemState]
  /\ files \subseteq Items
  /\ pc \in [Handlers -> PCs]
  /\ job \in [Handlers -> Job]
  /\ ender \in [Enders -> [working : BOOLEAN, left : SUBSET Items]]
  /\ budget \in [requests : 0 .. MaxRequests, crashes : 0 .. MaxCrashes]
  /\ lastActive \in 0 .. MaxTime
  /\ overlapped \in BOOLEAN
  /\ stuck \in BOOLEAN

\* createRoom published its snapshot as event 1.
Init ==
  /\ now = 0
  /\ room = FirstRoom
  /\ log = {1}
  /\ rows = [i \in Items |-> "none"]
  /\ files = {}
  /\ pc = [h \in Handlers |-> "idle"]
  /\ job = [h \in Handlers |-> NoJob]
  /\ ender = [e \in Enders |-> NoEnder]
  /\ budget = [requests |-> MaxRequests, crashes |-> MaxCrashes]
  /\ lastActive = 0
  /\ overlapped = FALSE
  /\ stuck = FALSE

-----------------------------------------------------------------------------
(* The room record.                                                         *)

\* Variant: activity does not extend the room.
NotTouched(copy) == copy

\* touch
Touched(copy) == [copy EXCEPT !.expires = Lesser(now + TTL, HardTTL)]

\* requireActive
Active == room.status = "active" /\ now < room.expires /\ now < HardTTL

\* Variant: the record is inserted when it is missing.
Upserted(copy) == copy

\* updateRoom: UPDATE ... WHERE room_id; nothing happens to a deleted room.
Updated(copy) == IF room.status = "gone" THEN room ELSE copy

Numbered(copy) == [copy EXCEPT !.event = @ + 1]

\* The insert into room_events needs the room and a free identifier.
Appendable(id) == room.status # "gone" /\ id \notin log

\* trimEvents: what is Keep or more below the highest identifier goes.
Trimmed(ids) == {n \in ids : \A m \in ids : m - Keep < n}

\* publish: the copy is written back with the next identifier, then the event is
\* inserted; if that fails the call throws.
Publish(copy) ==
  /\ room' = Updated(Numbered(copy))
  /\ log' = IF Appendable(copy.event + 1) THEN Trimmed(log \union {copy.event + 1})
            ELSE log

Return(h) ==
  /\ pc' = [pc EXCEPT ![h] = "idle"]
  /\ job' = [job EXCEPT ![h] = NoJob]

Goto(h, label) == pc' = [pc EXCEPT ![h] = label] /\ UNCHANGED job

Ending == \E e \in Enders : ender[e].working
Busy == \E h \in Handlers : pc[h] # "idle"

Live == {i \in Items : rows[i] \notin {"none", "cancelled"}}

\* Variant: a room that is full takes one more.
AlmostWithinLimits(n) == Cardinality(Live) + n <= MaxFiles + 1

\* assertWithinLimits, for n more items.
WithinLimits(n) == Cardinality(Live) + n <= MaxFiles

-----------------------------------------------------------------------------
(* Requests.                                                                *)

\* A request is authorized, which touches the room, and goes on to its first
\* await with a copy of the record.
Authorize(h, label, i, batch, bound) ==
  /\ pc[h] = "idle"
  /\ Active
  /\ budget.requests > 0
  /\ budget' = [budget EXCEPT !.requests = @ - 1]
  /\ room' = Touched(room)
  /\ lastActive' = now
  /\ job' = [job EXCEPT ![h] = [copy |-> Touched(room), item |-> i, batch |-> batch,
                                begun |-> now, bound |-> bound, aborted |-> FALSE]]
  /\ pc' = [pc EXCEPT ![h] = label]
  /\ overlapped' = (overlapped \/ Ending)
  /\ UNCHANGED <<now, log, rows, files, ender, stuck>>

\* A request without awaits: the room, the status of an item, the note.
Read ==
  /\ Active
  /\ budget.requests > 0
  /\ budget' = [budget EXCEPT !.requests = @ - 1]
  /\ room' = Touched(room)
  /\ lastActive' = now
  /\ UNCHANGED <<now, log, rows, files, request, ender, overlapped, stuck>>

\* Items no request has named yet: randomId.
Unused ==
  {i \in Items : /\ rows[i] = "none"
                 /\ \A h \in Handlers : pc[h] \in {"register", "hash"} => i \notin job[h].batch}

\* One set of each size: items nobody knows yet differ in nothing.
OneOfEachSize(S) ==
  {b \in SUBSET S : b # {} /\ b = CHOOSE c \in SUBSET S : Cardinality(c) = Cardinality(b)}

\* registerUpload counts the items for one more file, addSourceFiles for a whole list;
\* they wait for the disk, or for the hashes, and insert afterwards.
BeginAdd(h) ==
  \E batch \in OneOfEachSize(Unused) :
    /\ WithinLimits(Cardinality(batch))
    /\ \/ Authorize(h, "hash", AnyItem, batch, FALSE)
       \/ Cardinality(batch) = 1 /\ Authorize(h, "register", AnyItem, batch, FALSE)

\* The disk is too small, or a source cannot be read; or the room is gone, and the
\* first insert fails.
AddNothing(h) ==
  /\ pc[h] \in {"register", "hash"}
  /\ Return(h)
  /\ UNCHANGED <<now, room, log, rows, files, ender, budget, ghosts>>

\* Each item of the list is inserted and published with the same copy of the room.
\* An identifier that is taken throws: the items up to that one stay, the others
\* are not added.
InsertItems(h) ==
  /\ pc[h] \in {"register", "hash"}
  /\ room.status # "gone"
  /\ \E added \in OneOfEachSize(job[h].batch) :
       LET before == job[h].copy.event
           last == before + Cardinality(added)
       IN  /\ (before + 1 .. last - 1) \intersect log = {}
           /\ added = job[h].batch \/ last \in log
           /\ rows' = [i \in Items |-> IF i \notin added THEN rows[i]
                                      ELSE IF pc[h] = "hash" THEN "source" ELSE "pending"]
           /\ room' = [job[h].copy EXCEPT !.event = last]
           /\ log' = Trimmed(log \union (before + 1 .. last))
  /\ Return(h)
  /\ UNCHANGED <<now, files, ender, budget, ghosts>>

\* writeUploadCheckpoint up to its first await.  The first checkpoint opens the
\* file, a later one looks at its length; the abort signal is the one the room has
\* when the file is opened.  (In a room that was written back as active while it is
\* being ended that signal is aborted already; here such an upload may also go on.)
BeginUpload(h, i) ==
  /\ \A g \in Handlers : pc[g] \in Uploads => job[g].item # i
  /\ \/ rows[i] = "pending" /\ Authorize(h, "create", i, {}, TRUE)
     \/ rows[i] = "transferring" /\ Authorize(h, "stat", i, {}, FALSE)

StatPartial(h) ==
  /\ pc[h] = "stat"
  /\ IF job[h].item \in files
       THEN /\ pc' = [pc EXCEPT ![h] = "create"]
            /\ job' = [job EXCEPT ![h].bound = TRUE]
       ELSE Return(h)
  /\ UNCHANGED <<now, room, log, rows, files, ender, budget, ghosts>>

CreatePartial(h) ==
  /\ pc[h] = "create"
  /\ files' = files \union {job[h].item}
  /\ Goto(h, "body")
  /\ UNCHANGED <<now, room, log, rows, ender, budget, ghosts>>

\* The body arrives, or breaks off and is truncated away.
ReceiveBody(h) ==
  /\ pc[h] = "body"
  /\ Return(h) \/ (~ job[h].aborted /\ Goto(h, "sync"))
  /\ UNCHANGED <<now, room, log, rows, files, ender, budget, ghosts>>

SyncPartial(h) ==
  /\ pc[h] = "sync"
  /\ IF job[h].item \in files THEN Goto(h, "commit") ELSE Return(h)
  /\ UNCHANGED <<now, room, log, rows, files, ender, budget, ghosts>>

\* The transaction fails when the item was deleted with its room.
Committed(i) == rows[i] # "none"

CommitCheckpoint(h) ==
  /\ pc[h] = "commit"
  /\ IF Committed(job[h].item)
       THEN /\ rows' = [rows EXCEPT ![job[h].item] = "transferring"]
            /\ Goto(h, "progress")
       ELSE Return(h) /\ UNCHANGED rows
  /\ UNCHANGED <<now, room, log, files, ender, budget, ghosts>>

PublishProgress(h) ==
  /\ pc[h] = "progress"
  /\ Publish(Touched(job[h].copy))
  /\ Return(h)
  /\ UNCHANGED <<now, rows, files, ender, budget, ghosts>>

\* cancelItem; a source has no partial file to wait for.
BeginCancel(h, i) ==
  \/ rows[i] \in {"pending", "transferring", "cancelled"}
       /\ Authorize(h, "remove", i, {}, FALSE)
  \/ rows[i] = "source" /\ Authorize(h, "record", i, {}, FALSE)

RemovePartial(h) ==
  /\ pc[h] = "remove"
  /\ files' = files \ {job[h].item}
  /\ Goto(h, "record")
  /\ UNCHANGED <<now, room, log, rows, ender, budget, ghosts>>

\* Variant: the item is marked with a state the page does not know.
RecordFailed(h) ==
  /\ pc[h] = "record"
  /\ rows' = [rows EXCEPT ![job[h].item] = "failed"]
  /\ Publish(job[h].copy)
  /\ Return(h)
  /\ UNCHANGED <<now, files, ender, budget, ghosts>>

RecordCancelled(h) ==
  LET i == job[h].item IN
  /\ pc[h] = "record"
  /\ rows' = [rows EXCEPT ![i] = IF @ = "none" THEN @ ELSE "cancelled"]
  /\ Publish(job[h].copy)
  /\ Return(h)
  /\ UNCHANGED <<now, files, ender, budget, ghosts>>

\* resumeRoom installs a new abort controller; the old one is forgotten.
Resume ==
  /\ Active
  /\ budget.requests > 0
  /\ budget' = [budget EXCEPT !.requests = @ - 1]
  /\ room' = Touched(room)
  /\ lastActive' = now
  /\ job' = [h \in Handlers |-> [job[h] EXCEPT !.bound = FALSE]]
  /\ UNCHANGED <<now, log, rows, files, pc, ender, overlapped, stuck>>

-----------------------------------------------------------------------------
(* The end of a room: deleteRoom and sweepExpired.                          *)

\* Variant: only items that have received something are looked at.
PartialsStarted == {i \in Items : rows[i] = "transferring"}

\* Items whose record has a partial path; a cancelled one keeps it.
Partials == {i \in Items : rows[i] \in {"pending", "transferring", "cancelled"}}

\* The marked record is stored and the event published; the uploads that use the
\* room's abort controller are aborted.  When publish throws, nothing more happens.
End(e, marked) ==
  LET published == Appendable(marked.event + 1) IN
  /\ ~ ender[e].working
  /\ Publish(marked)
  /\ IF published
       THEN /\ ender' = [ender EXCEPT ![e] = [working |-> TRUE, left |-> Partials]]
            /\ job' = [h \in Handlers |-> [job[h] EXCEPT !.aborted = @ \/ job[h].bound,
                                                         !.bound = FALSE]]
            /\ overlapped' = (overlapped \/ Busy)
            /\ UNCHANGED stuck
       ELSE /\ stuck' = TRUE
            /\ UNCHANGED <<ender, job, overlapped>>
  /\ UNCHANGED <<now, rows, files, pc, budget>>

\* listExpiredRoomIds
Expired == room.status = "active" /\ (room.expires <= now \/ HardTTL <= now)

DeleteRoom ==
  /\ Active
  /\ End(Reset, [Touched(room) EXCEPT !.status = "closed"])
  /\ lastActive' = now

\* This room is the first that the sweep lists.
SweepExpired(e) ==
  /\ e # Reset
  /\ Expired
  /\ End(e, [room EXCEPT !.status = "expired"])
  /\ UNCHANGED lastActive

\* Variant: rm without { force: true } throws for a file that is missing.
RemoveExisting(e, i) ==
  /\ i \in ender[e].left
  /\ files' = files \ {i}
  /\ ender' = [ender EXCEPT ![e] = IF i \in files THEN [@ EXCEPT !.left = @ \ {i}]
                                                  ELSE NoEnder]
  /\ UNCHANGED <<now, room, log, rows, request, budget, ghosts>>

RemoveFile(e, i) ==
  /\ i \in ender[e].left
  /\ files' = files \ {i}
  /\ ender' = [ender EXCEPT ![e].left = @ \ {i}]
  /\ UNCHANGED <<now, room, log, rows, request, budget, ghosts>>

\* rm rejects (a file that another program holds open): the call throws, and the room
\* stays closed or expired.
RemoveFails(e) ==
  /\ ender[e].left # {}
  /\ ender' = [ender EXCEPT ![e] = NoEnder]
  /\ stuck' = TRUE
  /\ UNCHANGED <<now, room, log, rows, files, request, budget, lastActive, overlapped>>

\* repository.deleteRoom cascades to items and events; the controller is dropped
\* from the map without an abort.
DropRoom(e) ==
  /\ ender[e].working
  /\ ender[e].left = {}
  /\ room' = [room EXCEPT !.status = "gone"]
  /\ rows' = [i \in Items |-> "none"]
  /\ log' = {}
  /\ job' = [h \in Handlers |-> [job[h] EXCEPT !.bound = FALSE]]
  /\ ender' = [ender EXCEPT ![e] = NoEnder]
  /\ UNCHANGED <<now, files, pc, budget, ghosts>>

-----------------------------------------------------------------------------

\* The process dies and is started again.
Crash ==
  /\ budget.crashes > 0
  /\ budget' = [budget EXCEPT !.crashes = @ - 1]
  /\ pc' = [h \in Handlers |-> "idle"]
  /\ job' = [h \in Handlers |-> NoJob]
  /\ ender' = [e \in Enders |-> NoEnder]
  /\ stuck' = (stuck \/ Ending)
  /\ UNCHANGED <<now, room, log, rows, files, lastActive, overlapped>>

LongestLife(h) == IF pc[h] = "hash" THEN HashPatience ELSE Patience

\* Time passes.  A request is answered or cut off before its time is up; removing
\* files takes no time on this scale.
Tick ==
  /\ now < MaxTime
  /\ ~ Ending
  /\ \A h \in Handlers : pc[h] # "idle" => now < job[h].begun + LongestLife(h)
  /\ now' = now + 1
  /\ UNCHANGED <<room, log, rows, files, request, ender, budget, ghosts>>

HandlerStep(h) ==
  \/ AddNothing(h) \/ InsertItems(h) \/ StatPartial(h) \/ CreatePartial(h)
  \/ ReceiveBody(h) \/ SyncPartial(h) \/ CommitCheckpoint(h) \/ PublishProgress(h)
  \/ RemovePartial(h) \/ RecordCancelled(h)

Finishing(e) == DropRoom(e) \/ \E i \in Items : RemoveFile(e, i)

Next ==
  \/ \E h \in Handlers :
       \/ BeginAdd(h)
       \/ \E i \in Items : BeginUpload(h, i) \/ BeginCancel(h, i)
       \/ HandlerStep(h)
  \/ Read \/ Resume \/ DeleteRoom
  \/ \E e \in Enders : SweepExpired(e) \/ Finishing(e) \/ RemoveFails(e)
  \/ Tick \/ Crash

Spec == Init /\ [][Next]_vars

\* The file-system calls of an ending settle, and requests, of whatever kind, keep
\* reaching the server, whose hook sweeps; the clock does not stop before MaxTime.
FairSpec ==
  /\ Spec
  /\ \A e \in Enders : WF_vars(SweepExpired(e)) /\ WF_vars(Finishing(e))

-----------------------------------------------------------------------------
(* The inductive invariant behind ActivityKeepsRoom, FilesNearLimit and      *)
(* GoneForGood.                                                              *)

\* The checkpoint of an item that is being received.
Receiving(h) == pc[h] \in Uploads

OneUploader ==
  \A g, h \in Handlers :
    Receiving(g) /\ Receiving(h) /\ job[g].item = job[h].item => g = h

\* Items that a request will still make live: those it is about to insert, or the one
\* it is about to commit a checkpoint to although it was cancelled meanwhile.
Claims(h) ==
  IF pc[h] \in {"register", "hash"} THEN job[h].batch
  ELSE IF Receiving(h) /\ pc[h] # "progress" /\ rows[job[h].item] = "cancelled"
  THEN {job[h].item} ELSE {}

Claimed == UNION {Claims(h) : h \in Handlers}

LimitShared ==
  /\ \A h \in Handlers : Cardinality(Claims(h)) <= MaxFiles
  /\ Cardinality(Live \union Claimed) <= MaxFiles * Cardinality(Handlers)

\* No request outlives its time, and its copy has the expiry it was given then.
CopiesYoung ==
  /\ lastActive <= now
  /\ \A h \in Handlers : pc[h] # "idle" =>
       /\ job[h].begun <= now
       /\ now <= job[h].begun + LongestLife(h)
       /\ job[h].copy.expires = Lesser(job[h].begun + TTL, HardTTL)

ExpiryKept == room.expires >= Lesser(lastActive + TTL - Patience, HardTTL)

GoneIsEmpty == room.status = "gone" => log = {} /\ \A i \in Items : rows[i] = "none"

\* No request holds a copy of a room that had ended.
CopiesActive == \A h \in Handlers : job[h].copy.status = "active"

LifecycleInvariant ==
  /\ CopiesActive /\ CopiesYoung
  /\ ExpiryKept
  /\ OneUploader /\ LimitShared
  /\ GoneIsEmpty

-----------------------------------------------------------------------------
(* Properties.                                                              *)

\* While every request ends before Patience, the room is kept for at least
\* TTL - Patience after the last authorized request, or until the hard limit:
\* copies read before that request and written back after it cannot make the
\* sweep, or requireActive, drop a room in use (touch, publish, sweepExpired).
ActivityKeepsRoom ==
  room.status = "active" =>
    room.expires >= Lesser(lastActive + TTL - Patience, HardTTL)

\* Each of the requests in flight counts the items before the others insert theirs, and
\* may add a whole list: together they can bring the room to the limit once for each of
\* them, and no further, however checkpoints revive items cancelled meanwhile.
FilesNearLimit == Cardinality(Live) <= MaxFiles * Cardinality(Handlers)

\* Once its row is deleted a room stays deleted with its items and events,
\* although requests still hold, and write back, copies of it that say "active".
GoneForGood ==
  [][room.status = "gone" => room' = room /\ rows' = rows /\ log' = log]_vars

\* When nobody was using the room while it was being ended, no partial file is
\* left behind once it is gone.
NothingLeftBehind == room.status = "gone" /\ ~ overlapped => files = {}

\* A room that was reset, or has reached its hard limit, is deleted, whatever
\* copies of it were written back meanwhile, unless the call that ends it throws
\* or the process dies in the middle of it.
EndedRoomGoes ==
  room.status \in {"closed", "expired"} \/ now >= HardTTL ~> room.status = "gone" \/ stuck

\* A room that was reset or has expired is deleted.
EndedRoomIsDeleted ==
  room.status \in {"closed", "expired"} ~> room.status = "gone"

=============================================================================
