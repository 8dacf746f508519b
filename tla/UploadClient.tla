---------------------------- MODULE UploadClient ----------------------------
(***************************************************************************)
(* Browsers that upload one file (roomClient.ts: uploadRoomFile;           *)
(* uploadRequest.ts; resumeStore.ts; TransferRoomPage.tsx: uploadSelected, *)
(* pauseUpload) and the requests they make.                                *)
(*                                                                         *)
(* The tabs of a browser share its resume record.  A request may be lost,  *)
(* answered to nobody because its tab gave up, or be at work long after.   *)
(* The server is kept to what routes.ts and roomStore.ts let a client see: *)
(* the state and the committed offset of each item, counted in chunks;     *)
(* UploadStore has its files.                                              *)
(***************************************************************************)
EXTENDS Integers, FiniteSets

CONSTANTS
  Clients,      \* tabs that upload the file
  Ids,          \* item identifiers the server may give out
  Slots,        \* requests that may be under way
  None,         \* no item, no client
  Size,         \* chunks of the file
  MaxAttempts,  \* attempts at a chunk: 3
  MaxCalls,     \* bound on the calls of uploadRoomFile
  MaxIncidents  \* bound on failures, pauses, reloads, cancellations and crashes

ASSUME ClientBounds ==
  /\ None \notin Clients /\ None \notin Ids
  /\ IsFiniteSet(Ids) /\ IsFiniteSet(Slots)
  /\ Size \in Nat \ {0} /\ MaxAttempts \in Nat \ {0}
  /\ MaxCalls \in Nat /\ MaxIncidents \in Nat

VARIABLES
  state, offset,  \* of each item, on the server
  up,             \* the server answers requests
  req,            \* requests under way
  saved,          \* item of the resume record
  pc, call,       \* where each tab is in uploadRoomFile, and its variables
  budget,         \* calls that may still be made, incidents that may still happen
  shown,          \* ghost: highest offset a tab has shown for an item
  released,       \* ghost: the item was cancelled once
  raced           \* ghost: two registrations were under way together

server == <<state, offset, up>>
client == <<saved, pc, call>>
vars == <<server, req, client, budget, shown, released, raced>>

-----------------------------------------------------------------------------

ItemState == {"none", "pending", "transferring", "ready", "cancelled"}

Stages == {"free", "sent", "inserting", "writing", "completing", "answered"}

Req == [stage : Stages, kind : {"register", "patch"}, owner : Clients \union {None},
        item : Ids \union {None}, chunk : 0 .. Size, locked : BOOLEAN,
        ok : BOOLEAN, result : 0 .. Size]

NoReq == [stage |-> "free", kind |-> "patch", owner |-> None, item |-> None, chunk |-> 0,
          locked |-> FALSE, ok |-> FALSE, result |-> 0]

Ended == {"idle", "done", "failed", "stopped"}
PCs == Ended \union {"look", "list", "register", "status", "loop", "wait", "ask", "final"}

Call == [item : Ids \union {None}, offset : 0 .. Size, attempt : 0 .. MaxAttempts]

NoCall == [item |-> None, offset |-> 0, attempt |-> 0]

TypeOK ==
  /\ state \in [Ids -> ItemState]
  /\ offset \in [Ids -> 0 .. Size]
  /\ up \in BOOLEAN
  /\ req \in [Slots -> Req]
  /\ saved \in Ids \union {None}
  /\ pc \in [Clients -> PCs]
  /\ call \in [Clients -> Call]
  /\ budget \in [calls : 0 .. MaxCalls, incidents : 0 .. MaxIncidents]
  /\ shown \in [Ids -> 0 .. Size]
  /\ released \in [Ids -> BOOLEAN]
  /\ raced \in BOOLEAN

Init ==
  /\ state = [i \in Ids |-> "none"]
  /\ offset = [i \in Ids |-> 0]
  /\ up = TRUE
  /\ req = [r \in Slots |-> NoReq]
  /\ saved = None
  /\ pc = [c \in Clients |-> "idle"]
  /\ call = [c \in Clients |-> NoCall]
  /\ budget = [calls |-> MaxCalls, incidents |-> MaxIncidents]
  /\ shown = [i \in Ids |-> 0]
  /\ released = [i \in Ids |-> FALSE]
  /\ raced = FALSE

-----------------------------------------------------------------------------
(* The server.                                                              *)

Open == {i \in Ids : state[i] \in {"pending", "transferring"}}
Unused == {i \in Ids : state[i] = "none"}
Inserting == {r \in Slots : req[r].stage = "inserting"}

\* Variant: only an item that has received nothing yet is found again.
Untouched == {i \in Ids : state[i] = "pending"}

\* The incomplete item of the same fingerprint.
IncompleteMatch == Open

\* Variant: an item at work is not locked.
Unlocked(i) == FALSE

\* acquireWriteLock
Locked(i) == \E r \in Slots : req[r].item = i /\ req[r].locked

Incident == budget.incidents > 0 /\ budget' = [budget EXCEPT !.incidents = @ - 1]

\* The answer goes to the tab that waits for it, if one still does.
Answer(r, ok, item, result) ==
  req' = [req EXCEPT ![r] =
            IF @.owner = None THEN NoReq
            ELSE [NoReq EXCEPT !.stage = "answered", !.owner = req[r].owner,
                               !.ok = ok, !.item = item, !.result = result]]

Fail(r) == Answer(r, FALSE, None, 0)

\* The request is refused, by a limit or by a network that does not carry it.
Refuse(r) ==
  /\ req[r].stage = "sent"
  /\ \/ up /\ Incident
     \/ ~ up /\ UNCHANGED budget
  /\ Fail(r)
  /\ UNCHANGED <<server, client, shown, released, raced>>

\* registerUpload up to its first await: an incomplete item is returned as it is.
AcceptRegister(r) ==
  /\ req[r].stage = "sent" /\ req[r].kind = "register"
  /\ up
  /\ IF IncompleteMatch # {}
       THEN \E i \in IncompleteMatch : Answer(r, TRUE, i, 0) /\ UNCHANGED raced
       ELSE IF Cardinality(Unused) <= Cardinality(Inserting)
       THEN Fail(r) /\ UNCHANGED raced
       ELSE /\ req' = [req EXCEPT ![r].stage = "inserting"]
            /\ raced' = (raced \/ Inserting # {})
  /\ UNCHANGED <<server, client, budget, shown, released>>

InsertItem(r) ==
  /\ req[r].stage = "inserting"
  /\ LET i == CHOOSE j \in Unused : TRUE
     IN  /\ state' = [state EXCEPT ![i] = "pending"]
         /\ Answer(r, TRUE, i, 0)
  /\ UNCHANGED <<offset, up, client, budget, shown, released, raced>>

\* writeUploadCheckpoint up to its first await.  A committed chunk is answered with
\* the offset, and its item completed if it has not been; when its record was
\* trimmed, it is refused (Refuse).
AcceptPatch(r) ==
  LET i == req[r].item
      replayed == req[r].chunk < offset[i]
  IN
  /\ req[r].stage = "sent" /\ req[r].kind = "patch"
  /\ up
  /\ \/ /\ replayed
        /\ IF offset[i] = Size /\ state[i] # "ready"
             THEN req' = [req EXCEPT ![r].stage = "completing", ![r].result = offset[i]]
             ELSE Answer(r, TRUE, i, offset[i])
     \/ /\ ~ replayed
        /\ IF state[i] \in {"ready", "cancelled"} \/ req[r].chunk # offset[i] \/ Locked(i)
             THEN Fail(r)
             ELSE req' = [req EXCEPT ![r].stage = "writing", ![r].locked = TRUE]
  /\ UNCHANGED <<server, client, budget, shown, released, raced>>

\* Bytes synced, then committed with the record read at the start, and published;
\* when publish throws, the chunk is committed all the same.
CommitCheckpoint(r) ==
  LET i == req[r].item
      next == req[r].chunk + 1
  IN
  /\ req[r].stage = "writing"
  /\ state' = [state EXCEPT ![i] = "transferring"]
  /\ offset' = [offset EXCEPT ![i] = next]
  /\ \/ Incident /\ Fail(r)
     \/ /\ UNCHANGED budget
        /\ IF next = Size
             THEN req' = [req EXCEPT ![r].stage = "completing", ![r].result = next]
             ELSE Answer(r, TRUE, i, next)
  /\ UNCHANGED <<up, client, shown, released, raced>>

\* Another request completed or cancelled the item, or is about to.
Overtaken(r) ==
  \/ state[req[r].item] \in {"ready", "cancelled"}
  \/ \E q \in Slots \ {r} : req[q].stage = "completing" /\ req[q].item = req[r].item

\* finalizeUpload, or recoverCommittedCompletion of a replay.  When the request was
\* overtaken, the file may be gone: finalizeUpload throws, a replay may find nothing
\* to recover and answers all the same.
CompleteUpload(r) ==
  LET i == req[r].item IN
  /\ req[r].stage = "completing"
  /\ \/ state' = [state EXCEPT ![i] = "ready"] /\ Answer(r, TRUE, i, req[r].result)
     \/ /\ Overtaken(r)
        /\ Fail(r) \/ (~ req[r].locked /\ Answer(r, TRUE, i, req[r].result))
        /\ UNCHANGED state
  /\ UNCHANGED <<offset, up, client, budget, shown, released, raced>>

\* Inserting, writing or completing throws; the lock is given back.
ServerFails(r) ==
  /\ req[r].stage \in {"inserting", "writing", "completing"}
  /\ Incident
  /\ Fail(r)
  /\ UNCHANGED <<server, client, shown, released, raced>>

\* cancelItem, by any participant of the room.
Cancel(i) ==
  /\ up
  /\ state[i] \notin {"none", "cancelled"}
  /\ Incident
  /\ state' = [state EXCEPT ![i] = "cancelled"]
  /\ released' = [released EXCEPT ![i] = TRUE]
  /\ UNCHANGED <<offset, up, req, client, shown, raced>>

Crash ==
  /\ up
  /\ Incident
  /\ up' = FALSE
  /\ req' = [r \in Slots |-> IF req[r].owner = None THEN NoReq
                             ELSE [NoReq EXCEPT !.stage = "answered",
                                                !.owner = req[r].owner]]
  /\ UNCHANGED <<state, offset, client, shown, released, raced>>

Unfinished == {i \in Ids : state[i] = "transferring" /\ offset[i] = Size}

\* recoverActiveRooms
Recover(i) ==
  /\ ~ up
  /\ i \in Unfinished
  /\ state' = [state EXCEPT ![i] = "ready"]
  /\ UNCHANGED <<offset, up, req, client, budget, shown, released, raced>>

Restart ==
  /\ ~ up
  /\ Unfinished = {}
  /\ up' = TRUE
  /\ UNCHANGED <<state, offset, req, client, budget, shown, released, raced>>

-----------------------------------------------------------------------------
(* The client: one call of uploadRoomFile.                                  *)

Goto(c, label) == pc' = [pc EXCEPT ![c] = label]

\* HEAD and GET change nothing; they fail with the network or with the server.
Reachable == up /\ UNCHANGED budget
Unreachable == IF up THEN Incident ELSE UNCHANGED budget

\* The progress that the page shows.
Reported(i, n) == shown' = [shown EXCEPT ![i] = IF n > @ THEN n ELSE @]

Waiting(c) == \E r \in Slots : req[r].owner = c

\* The call throws; its variables are gone.
Throw(c) == Goto(c, "failed") /\ call' = [call EXCEPT ![c] = NoCall]

\* The tab no longer listens; the request goes on.
Abandoned(c) ==
  [r \in Slots |-> IF req[r].owner # c THEN req[r]
                   ELSE IF req[r].stage = "answered" THEN NoReq
                   ELSE [req[r] EXCEPT !.owner = None]]

\* uploadSelected, for a file not uploaded yet: a call reads the resume record.
Begin(c) ==
  /\ pc[c] \in Ended \ {"done"}
  /\ budget.calls > 0
  /\ budget' = [budget EXCEPT !.calls = @ - 1]
  /\ call' = [call EXCEPT ![c] = [NoCall EXCEPT !.item = saved]]
  /\ Goto(c, IF saved = None THEN "register" ELSE "look")
  /\ UNCHANGED <<server, req, saved, shown, released, raced>>

\* Whatever goes wrong with the saved upload, its record is dropped.
Forget(c) ==
  /\ saved' = None
  /\ call' = [call EXCEPT ![c] = NoCall]
  /\ Goto(c, "register")

\* HEAD of the saved item.
Look(c) ==
  /\ pc[c] = "look"
  /\ LET i == call[c].item IN
     \/ /\ Reachable
        /\ IF state[i] # "cancelled"
             THEN /\ call' = [call EXCEPT ![c].offset = offset[i]]
                  /\ Goto(c, "list")
                  /\ UNCHANGED saved
             ELSE Forget(c)
     \/ Unreachable /\ Forget(c)
  /\ UNCHANGED <<server, req, shown, released, raced>>

\* The offset is shown and recorded, and the loop goes on from there.
Continue(c, n) ==
  /\ call' = [call EXCEPT ![c].offset = n, ![c].attempt = 0]
  /\ saved' = call[c].item
  /\ Reported(call[c].item, n)
  /\ Goto(c, "loop")

\* GET of the room, where the saved item is looked for.
List(c) ==
  /\ pc[c] = "list"
  /\ \/ Reachable /\ Continue(c, call[c].offset)
     \/ Unreachable /\ Forget(c) /\ UNCHANGED shown
  /\ UNCHANGED <<server, req, released, raced>>

Free == {r \in Slots : req[r].stage = "free"}

Request(c, label, kind) ==
  LET r == CHOOSE q \in Free : TRUE IN
    /\ Free # {}
    /\ req' = [req EXCEPT ![r] = [NoReq EXCEPT !.stage = "sent", !.kind = kind, !.owner = c,
                                               !.item = call[c].item,
                                               !.chunk = call[c].offset]]
    /\ Goto(c, label)

Register(c) ==
  /\ pc[c] = "register"
  /\ ~ Waiting(c)
  /\ Request(c, "register", "register")
  /\ UNCHANGED <<server, saved, call, budget, shown, released, raced>>

\* Any error of the registration ends the call.
Registered(c) ==
  /\ pc[c] = "register"
  /\ \E r \in Slots :
       /\ req[r].owner = c /\ req[r].stage = "answered"
       /\ IF req[r].ok
            THEN call' = [call EXCEPT ![c].item = req[r].item] /\ Goto(c, "status")
            ELSE Throw(c)
       /\ req' = [req EXCEPT ![r] = NoReq]
  /\ UNCHANGED <<server, saved, budget, shown, released, raced>>

\* HEAD of the registered item; its state is not looked at.
Status(c) ==
  /\ pc[c] = "status"
  /\ \/ Reachable /\ Continue(c, offset[call[c].item])
     \/ Unreachable /\ Throw(c) /\ UNCHANGED <<saved, shown>>
  /\ UNCHANGED <<server, req, released, raced>>

Send(c) ==
  /\ pc[c] = "loop"
  /\ call[c].offset < Size
  /\ Request(c, "wait", "patch")
  /\ UNCHANGED <<server, saved, call, budget, shown, released, raced>>

Acknowledged(c) ==
  /\ pc[c] = "wait"
  /\ \E r \in Slots :
       /\ req[r].owner = c /\ req[r].stage = "answered" /\ req[r].ok
       /\ Continue(c, req[r].result)
       /\ req' = [req EXCEPT ![r] = NoReq]
  /\ UNCHANGED <<server, budget, released, raced>>

\* Variant: an attempt is not counted.
SameAttempt(n) == n

NextAttempt(n) == n + 1

\* Variant: one attempt more.
OneMore(n) == n > MaxAttempts

Exhausted(n) == n >= MaxAttempts

\* The checkpoint is answered with an error, or the connection breaks while the
\* request goes on.
CheckpointFailed(c) ==
  /\ pc[c] = "wait"
  /\ \/ /\ \E r \in Slots : req[r].owner = c /\ req[r].stage = "answered" /\ ~ req[r].ok
        /\ UNCHANGED budget
     \/ Incident
  /\ req' = Abandoned(c)
  /\ call' = [call EXCEPT ![c].attempt = NextAttempt(@)]
  /\ Goto(c, "ask")
  /\ UNCHANGED <<server, saved, shown, released, raced>>

\* HEAD after an error: the upload stops, goes on from where the server is, or tries
\* the chunk again.
Ask(c) ==
  LET i == call[c].item IN
  /\ pc[c] = "ask"
  /\ \/ /\ Reachable
        /\ state[i] = "cancelled"
        /\ Throw(c)
        /\ UNCHANGED <<saved, shown>>
     \/ /\ Reachable
        /\ state[i] # "cancelled"
        /\ offset[i] # call[c].offset
        /\ Continue(c, offset[i])
     \/ /\ \/ Reachable /\ state[i] # "cancelled" /\ offset[i] = call[c].offset
           \/ Unreachable
        /\ IF Exhausted(call[c].attempt)
             THEN Throw(c)
             ELSE Goto(c, "loop") /\ UNCHANGED call
        /\ UNCHANGED <<saved, shown>>
  /\ UNCHANGED <<server, req, released, raced>>

\* Variant: the last chunk is taken for granted.
AlmostAll(n) == n >= Size - 1

AllConfirmed(n) == n = Size

\* The loop ends and the record is dropped.
Finish(c) ==
  /\ pc[c] = "loop"
  /\ AllConfirmed(call[c].offset)
  /\ saved' = None
  /\ Goto(c, "final")
  /\ UNCHANGED <<server, req, call, budget, shown, released, raced>>

\* GET of the room; when it fails, so does the call.
Final(c) ==
  /\ pc[c] = "final"
  /\ \/ Reachable /\ Goto(c, "done") /\ UNCHANGED call
     \/ Unreachable /\ Throw(c)
  /\ UNCHANGED <<server, req, saved, shown, released, raced>>

\* The user pauses the upload, or reloads the page and selects the file again later.
Stop(c) ==
  /\ pc[c] \notin Ended
  /\ Incident
  /\ req' = Abandoned(c)
  /\ call' = [call EXCEPT ![c] = NoCall]
  /\ Goto(c, "stopped")
  /\ UNCHANGED <<server, saved, shown, released, raced>>

-----------------------------------------------------------------------------

\* What the event loops of browser and server will get to.
ClientStep(c) ==
  \/ Look(c) \/ List(c) \/ Register(c) \/ Registered(c) \/ Status(c) \/ Send(c)
  \/ Acknowledged(c) \/ CheckpointFailed(c) \/ Ask(c) \/ Finish(c) \/ Final(c)

ServerStep(r) ==
  \/ AcceptRegister(r) \/ InsertItem(r) \/ AcceptPatch(r) \/ CommitCheckpoint(r)
  \/ CompleteUpload(r) \/ Refuse(r)

BootStep == Restart \/ \E i \in Ids : Recover(i)

Progress ==
  \/ \E c \in Clients : ClientStep(c)
  \/ \E r \in Slots : ServerStep(r)
  \/ BootStep

Next ==
  \/ Progress
  \/ \E c \in Clients : Begin(c) \/ Stop(c)
  \/ \E r \in Slots : ServerFails(r)
  \/ \E i \in Ids : Cancel(i)
  \/ Crash

Spec == Init /\ [][Next]_vars

\* While anything can be done, something is: by a browser, by the server, or by the
\* desktop that restarts it.
FairSpec == Spec /\ WF_vars(Progress)

-----------------------------------------------------------------------------
(* Properties.                                                              *)

Phase ==
  [i \in Ids |-> IF released[i] THEN "released"
                 ELSE IF state[i] \in {"pending", "transferring"} THEN "open"
                 ELSE IF state[i] = "ready" THEN "complete" ELSE state[i]]
Durable == [i \in Ids |-> IF released[i] THEN 0 ELSE offset[i]]
Told == [i \in Ids |-> IF released[i] THEN 0 ELSE shown[i]]

Upload == INSTANCE DurableUpload WITH
  Items <- Ids, Size <- [i \in Ids |-> Size],
  phase <- Phase, durable <- Durable, told <- Told

\* Seen from the pages, retries, pauses, reloads and a second tab included, the
\* upload is the durable upload: progress shown for an item is committed, and an
\* item is never reopened (uploadRoomFile, writeUploadCheckpoint).
ShownIsDurable == Upload!Spec

\* A call that ends well leaves every chunk of its item committed (the loop of
\* uploadRoomFile, whatever other requests did to the item).
DoneIsCommitted ==
  \A c \in Clients :
    pc[c] = "done" => LET i == call[c].item IN offset[i] = Size \/ released[i]

\* Lost answers, retries, pauses and reloads never leave the file with two
\* incomplete items, unless two registrations were under way together
\* (registerUpload finds the item by its fingerprint).
OneOpenItem == ~ raced => Cardinality({i \in Open : ~ released[i]}) <= 1

\* Registration is idempotent for the incomplete item of a file.
RegisteredOnce == Cardinality({i \in Open : ~ released[i]}) <= 1

\* Two tabs on one item cannot keep each other going: refused for the write lock or
\* the offset, interrupted and resumed, every call of uploadRoomFile ends.
CallsEnd ==
  (\E c \in Clients : pc[c] \notin Ended) ~> (\A c \in Clients : pc[c] \in Ended)

\* A file whose upload is reported complete is delivered, unless it is cancelled.
DoneIsDelivered ==
  \A c \in Clients, i \in Ids :
    pc[c] = "done" /\ call[c].item = i ~> state[i] = "ready" \/ released[i]

=============================================================================
