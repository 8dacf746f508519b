-------------------------- MODULE DesktopLifecycle --------------------------
(***************************************************************************)
(* The desktop's main process (main.ts) and the service process it runs    *)
(* (service.ts): start, supervision and recovery of the service, the queue *)
(* of room operations, and the room that the vault, the ticket cookie and  *)
(* the QR code name.                                                       *)
(*                                                                         *)
(* A room operation is one request after another; a request is answered,   *)
(* fails, times out (and may still be served) or dies with its process.    *)
(* Whether the cached expiry or the origin calls for ensure-room, and      *)
(* whether the port changed, is left open; the two requests that only read *)
(* the service's state, network-status and diagnostics, are one.  Left out: *)
(* geometry, power saving, logs, file dialogs and files, and "activate",    *)
(* which only macOS sends.                                                 *)
(***************************************************************************)
EXTENDS Integers, Sequences, FiniteSets

CONSTANTS
  MaxRooms,      \* bound on the rooms of a behaviour
  MaxLaunches    \* bound on the service processes of a behaviour

ASSUME DesktopBounds == MaxRooms \in Nat \ {0} /\ MaxLaunches \in Nat \ {0}

VARIABLES
  rooms,      \* the rooms in the database, by creation
  proc,       \* the service processes, by launch
  stray,      \* requests nobody waits for any more that may still be served
  client,     \* serviceClient, 0 when undefined
  app,        \* the application: starting, running, quitting, stopped
  boot,       \* createMainWindow
  restart,    \* restartPromise
  reported,   \* an error box was shown since the last recovery began
  queue, ops, \* the room operations enqueued, the first one running
  encryption, \* safeStorage.isEncryptionAvailable(): it does not change
  active, vault, cookies

service == <<rooms, proc, stray>>
supervision == <<client, app, boot, restart, reported>>
roomState == <<encryption, active, vault, cookies>>
vars == <<service, supervision, queue, ops, roomState>>

-----------------------------------------------------------------------------

None == 0
Rooms == 1 .. MaxRooms
Launches == 1 .. MaxLaunches

\* The operations that enter the queue: ensureActiveRoom for createMainWindow
\* and for a recovery, refreshNetworkRoom, which is coalesced, and
\* resetActiveRoom, of which we keep one waiting.
Kinds == {"boot", "recovery", "refresh", "reset"}

Requests == {"status", "ensure", "create", "reset", "ticket"}

\* The requests that may change the rooms.
Writing == {"ensure", "create", "reset"}

\* Where an operation is, the process its request went to, the room it works
\* on, the active room it started from, and the answer, if it is there.
Op == [step : Requests \union {"idle", "queued", "vault", "activate", "forget"},
       to : Launches \union {None}, room : Rooms \union {None},
       previous : Rooms \union {None}, reply : {"none", "ok", "error"}]

NoOp == [step |-> "idle", to |-> None, room |-> None, previous |-> None,
         reply |-> "none"]

TypeOK ==
  /\ rooms \in [Rooms -> {"none", "active", "gone"}]
  /\ proc \in [Launches -> {"none", "starting", "ready", "failed", "dead"}]
  /\ stray \subseteq [step : Writing, to : Launches, room : Rooms \union {None}]
  /\ client \in Launches \union {None}
  /\ app \in {"starting", "running", "quitting", "stopped"}
  /\ boot \in {"service", "room", "loading", "done"}
  /\ restart \in {"none", "delay", "service", "room", "loading"}
  /\ reported \in BOOLEAN
  /\ queue \in Seq(Kinds) /\ ops \in [Kinds -> Op]
  /\ encryption \in BOOLEAN
  /\ active \in Rooms \union {None} /\ vault \in Rooms \union {None}
  /\ cookies \subseteq Rooms

\* The first service process has been forked; the vault may hold a room of an
\* earlier run, alive or not.
Init ==
  /\ \E saved \in {None, 1}, state \in {"active", "gone"} :
       /\ vault = saved
       /\ rooms = [r \in Rooms |-> IF r = saved THEN state ELSE "none"]
       /\ saved = None => state = "gone"
  /\ proc = [c \in Launches |-> IF c = 1 THEN "starting" ELSE "none"]
  /\ stray = {} /\ client = None /\ app = "starting" /\ boot = "service"
  /\ restart = "none" /\ reported = FALSE
  /\ queue = <<>> /\ ops = [k \in Kinds |-> NoOp]
  /\ encryption \in BOOLEAN /\ active = None /\ cookies = {}

Launched == Cardinality({c \in Launches : proc[c] # "none"})
Live(c) == c # None /\ proc[c] \notin {"none", "dead"}

-----------------------------------------------------------------------------
(* Rooms and the service.                                                   *)

Made == Cardinality({r \in Rooms : rooms[r] # "none"})

Creates(request, room) ==
  \/ request \in {"create", "reset"}
  \/ request = "ensure" /\ rooms[room] # "active"

\* execute(): what a request makes of the rooms, and the room it answers with.
Executed(request, room) ==
  LET kept == IF request = "reset" THEN [rooms EXCEPT ![room] = "gone"] ELSE rooms
  IN  IF Creates(request, room) THEN <<[kept EXCEPT ![Made + 1] = "active"], Made + 1>>
      ELSE <<kept, room>>

\* A room beyond the bound is not created: its request is not served.
Servable(request, room, c) ==
  /\ c # None /\ proc[c] = "ready"
  /\ request = "ticket" => rooms[room] = "active"
  /\ Creates(request, room) => Made < MaxRooms

Waiting(k) == ops[k].step \in Requests /\ ops[k].reply = "none"

\* The answer to a request that creates or ensures a room names that room.
Serve(k) ==
  LET op == ops[k]
      done == Executed(op.step, op.room)
  IN  /\ Waiting(k) /\ Servable(op.step, op.room, op.to)
      /\ rooms' = done[1]
      /\ ops' = [ops EXCEPT ![k].reply = "ok",
                            ![k].room = done[2]]
      /\ UNCHANGED <<proc, stray, supervision, queue, roomState>>

ServeStray(request) ==
  /\ Servable(request.step, request.room, request.to)
  /\ rooms' = Executed(request.step, request.room)[1]
  /\ stray' = stray \ {request}
  /\ UNCHANGED <<proc, supervision, queue, ops, roomState>>

\* The service answers with an error: the room is gone, or a read or write of
\* its database fails.
Refuse(k) ==
  /\ Waiting(k) /\ ops[k].to # None /\ proc[ops[k].to] = "ready"
  /\ ops' = [ops EXCEPT ![k].reply = "error"]
  /\ UNCHANGED <<service, supervision, queue, roomState>>

Expire(r) ==
  /\ rooms[r] = "active"
  /\ rooms' = [rooms EXCEPT ![r] = "gone"]
  /\ UNCHANGED <<proc, stray, supervision, queue, ops, roomState>>

-----------------------------------------------------------------------------
(* The supervisor's promises.                                               *)

\* app.quit(): with a service to stop, before-quit defers the exit.
QuitNow ==
  /\ app' = IF client = None THEN "stopped" ELSE "quitting"
  /\ client' = None

Failed(k) ==
  CASE k = "boot" -> QuitNow /\ reported' = TRUE /\ UNCHANGED <<boot, restart>>
    [] k = "recovery" -> restart' = "none" /\ reported' = TRUE /\ UNCHANGED <<client, app, boot>>
    [] OTHER -> UNCHANGED supervision

\* Only a recovery that finds another port loads the page again.
Succeeded(k) ==
  CASE k = "boot" -> boot' = "loading" /\ UNCHANGED <<client, app, restart, reported>>
    [] k = "recovery" ->
         /\ restart' \in {"none", "loading"}
         /\ UNCHANGED <<client, app, boot, reported>>
    [] OTHER -> UNCHANGED supervision

Enqueued(k) ==
  /\ queue' = Append(queue, k)
  /\ ops' = [ops EXCEPT ![k] = [NoOp EXCEPT !.step = "queued"]]

\* Which promise waits for the initialization of process c: the recovery forks
\* the latest process, createMainWindow the first.
Awaited(c) == IF restart = "service" /\ c = Launched THEN "recovery"
              ELSE IF boot = "service" /\ c = 1 THEN "boot" ELSE "nobody"

\* initializeService found a port; ensureService keeps the client and goes on
\* to the room, when it still waits.
Initialized(c) ==
  /\ proc[c] = "starting"
  /\ proc' = [proc EXCEPT ![c] = "ready"]
  /\ IF Awaited(c) = "nobody"
     THEN UNCHANGED <<client, boot, restart, queue, ops>>
     ELSE /\ client' = c
          /\ boot' = IF Awaited(c) = "boot" THEN "room" ELSE boot
          /\ restart' = IF Awaited(c) = "recovery" THEN "room" ELSE restart
          /\ Enqueued(Awaited(c))
  /\ UNCHANGED <<rooms, stray, app, reported, roomState>>

\* Variant: a failed recovery is begun again.
RecoversAgain(c) ==
  /\ restart' = "delay" /\ UNCHANGED <<client, app, boot, reported>>

InitializeLost(c) == Failed(Awaited(c))

\* No port was free, or 30 seconds have passed: the process stays, without a
\* client.
NotInitialized(c) ==
  /\ proc[c] = "starting" /\ Awaited(c) # "nobody"
  /\ proc' \in {proc, [proc EXCEPT ![c] = "failed"]}
  /\ InitializeLost(c)
  /\ UNCHANGED <<rooms, stray, queue, ops, roomState>>

\* The exit of any process: its requests are rejected, and a recovery is
\* scheduled unless one is under way.
Exit(c) ==
  LET broken == {k \in Kinds : Waiting(k) /\ ops[k].to = c}
  IN  /\ Live(c)
      /\ proc' = [proc EXCEPT ![c] = "dead"]
      /\ stray' = {request \in stray : request.to # c}
      /\ ops' = [k \in Kinds |-> IF k \in broken
                                 THEN [ops[k] EXCEPT !.reply = "error"] ELSE ops[k]]
      /\ IF proc[c] = "starting" /\ Awaited(c) = "recovery" THEN Failed("recovery")
         ELSE IF proc[c] = "starting" /\ Awaited(c) = "boot" THEN Failed("boot")
         ELSE IF restart = "none" /\ app # "quitting"
         THEN /\ client' = None /\ restart' = "delay" /\ reported' = FALSE
              /\ UNCHANGED <<app, boot>>
         ELSE UNCHANGED supervision
      /\ UNCHANGED <<rooms, queue, roomState>>

\* Half a second later the recovery forks a new process.  A client that is
\* there would be used again; none is, since only a recovery brings one back.
Relaunch ==
  /\ restart = "delay" /\ client = None
  /\ Launched < MaxLaunches
  /\ proc' = [proc EXCEPT ![Launched + 1] = "starting"]
  /\ restart' = "service"
  /\ UNCHANGED <<rooms, stray, client, app, boot, reported, queue, ops, roomState>>

\* The window has been made.
Shown == boot \in {"loading", "done"}

\* loadURL: the page is there before its promise is settled.
PageLoaded ==
  /\ \/ /\ boot = "loading" /\ boot' = "done"
        /\ app' = IF app = "starting" THEN "running" ELSE app
        /\ UNCHANGED restart
     \/ restart = "loading" /\ restart' = "none" /\ UNCHANGED <<app, boot>>
  /\ UNCHANGED <<service, client, reported, queue, ops, roomState>>

\* loadURL rejects: the start, or the recovery, fails.
PageNotLoaded ==
  /\ \/ /\ boot = "loading" /\ boot' = "done" /\ QuitNow /\ reported' = TRUE
        /\ UNCHANGED restart
     \/ restart = "loading" /\ Failed("recovery")
  /\ UNCHANGED <<service, queue, ops, roomState>>

\* The window is closed.
Quit ==
  /\ Shown /\ app \in {"starting", "running"} /\ QuitNow
  /\ UNCHANGED <<service, boot, restart, reported, queue, ops, roomState>>

\* The shutdown request is answered, or its three seconds are over: the child
\* is killed and the application exits.
Quitted ==
  /\ app = "quitting" /\ app' = "stopped"
  /\ UNCHANGED <<service, client, boot, restart, reported, queue, ops, roomState>>

-----------------------------------------------------------------------------
(* The queue of room operations.                                            *)

Ask(k, step, c, room) ==
  /\ ops' = [ops EXCEPT ![k] = [step |-> step, to |-> c, room |-> room,
                                previous |-> active, reply |-> "none"]]
  /\ UNCHANGED <<supervision, queue>>

\* The operation that ends is the first one of the queue.
Finish(k, outcome) ==
  /\ ops' = [ops EXCEPT ![k] = NoOp]
  /\ queue' = Tail(queue)
  /\ outcome

\* requireService() throws without a client.
AskCurrent(k, step, room) ==
  IF client = None THEN Finish(k, Failed(k)) ELSE Ask(k, step, client, room)

\* The window asks for a room or for a new one; the system resumes or is
\* unlocked, perhaps before there is a window.
Enter(k) ==
  /\ app \in {"starting", "running"} /\ ops[k].step = "idle"
  /\ k = "refresh" \/ (k = "reset" /\ Shown)
  /\ Enqueued(k)
  /\ UNCHANGED <<service, supervision, roomState>>

\* Variant: an operation does not wait for the ones before it.
NoTurns(k) == TRUE

Turn(k) == queue[1] = k

\* readVault(): a vault that cannot be read or decrypted is as good as none.
Saved == IF encryption THEN {vault, None} ELSE {None}

Start(k) ==
  /\ ops[k].step = "queued" /\ Turn(k)
  /\ CASE k = "refresh" -> AskCurrent(k, "status", active)
       [] k = "reset" /\ active = None -> Finish(k, Failed(k))
       [] k = "reset" /\ active # None -> AskCurrent(k, "reset", active)
       [] OTHER -> \E saved \in Saved :
            AskCurrent(k, IF saved = None THEN "create" ELSE "ensure", saved)
  /\ UNCHANGED <<service, roomState>>

\* The next request of an operation; a refresh ends here unless the origin has
\* changed or the cached expiry has passed.
Proceed(k) ==
  LET op == ops[k]
  IN  /\ op.reply = "ok"
      /\ \/ op.step = "status" /\ op.room = None /\ AskCurrent(k, "create", None)
         \/ op.step = "status" /\ op.room # None /\ AskCurrent(k, "ensure", op.room)
         \/ op.step = "status" /\ op.room # None /\ Finish(k, Succeeded(k))
         \/ op.step \in Writing /\ AskCurrent(k, "ticket", op.room)
      /\ UNCHANGED <<service, roomState>>

\* An error of ensure-room, whatever it is, is taken for a missing room when
\* the service has just been started; the same process is asked to create one.
GiveUp(k) ==
  /\ ops[k].reply = "error"
  /\ IF ops[k].step = "ensure" /\ k # "refresh"
     THEN Ask(k, "create", ops[k].to, None)
     ELSE Finish(k, Failed(k))
  /\ UNCHANGED <<service, roomState>>

\* Variant: a request has no time limit.
NeverLate(k) == FALSE

Late(k) == Waiting(k)

TimeOut(k) ==
  /\ Late(k)
  /\ ops' = [ops EXCEPT ![k].reply = "error"]
  /\ stray' = IF ops[k].step \in Writing /\ proc[ops[k].to] = "ready"
              THEN stray \union {[step |-> ops[k].step, to |-> ops[k].to,
                                  room |-> ops[k].room]}
              ELSE stray
  /\ UNCHANGED <<rooms, proc, supervision, queue, roomState>>

TicketInstalled(k) ==
  /\ ops[k].step = "ticket" /\ ops[k].reply = "ok"
  /\ cookies' = cookies \union {ops[k].room}
  /\ ops' = [ops EXCEPT ![k].step = "vault", ![k].reply = "none"]
  /\ UNCHANGED <<service, supervision, queue, encryption, active, vault>>

\* cookies.set rejects.
TicketNotInstalled(k) ==
  /\ ops[k].step = "ticket" /\ ops[k].reply = "ok"
  /\ Finish(k, Failed(k))
  /\ UNCHANGED <<service, roomState>>

\* writeVault: without encryption nothing is written, and the room is used all
\* the same.
VaultWritten(k) ==
  /\ ops[k].step = "vault"
  /\ vault' = IF encryption THEN ops[k].room ELSE vault
  /\ ops' = [ops EXCEPT ![k].step = "activate"]
  /\ UNCHANGED <<service, supervision, queue, encryption, active, cookies>>

VaultNotWritten(k) ==
  /\ ops[k].step = "vault" /\ encryption
  /\ Finish(k, Failed(k))
  /\ UNCHANGED <<service, roomState>>

\* The room whose cookie is dropped, if another one was active.
Superseded(op) == {op.previous} \ {op.room, None}

Activate(k) ==
  /\ ops[k].step = "activate"
  /\ active' = ops[k].room
  /\ IF Superseded(ops[k]) = {}
     THEN Finish(k, Succeeded(k))
     ELSE /\ ops' = [ops EXCEPT ![k].step = "forget"]
          /\ UNCHANGED <<supervision, queue>>
  /\ UNCHANGED <<service, encryption, vault, cookies>>

\* A cookie that cannot be removed is only reported in the log.
ForgetTicket(k) ==
  /\ ops[k].step = "forget"
  /\ cookies' \in {cookies, cookies \ Superseded(ops[k])}
  /\ Finish(k, Succeeded(k))
  /\ UNCHANGED <<service, encryption, active, vault>>

-----------------------------------------------------------------------------

MainStep(k) ==
  \/ Start(k) \/ Proceed(k) \/ GiveUp(k) \/ TimeOut(k)
  \/ TicketInstalled(k) \/ TicketNotInstalled(k)
  \/ VaultWritten(k) \/ VaultNotWritten(k) \/ Activate(k) \/ ForgetTicket(k)

ServiceStep ==
  \/ \E k \in Kinds : Serve(k) \/ Refuse(k)
  \/ \E request \in stray : ServeStray(request)
  \/ \E r \in Rooms : Expire(r)

SupervisorStep ==
  \/ \E c \in Launches : Initialized(c) \/ NotInitialized(c) \/ Exit(c)
  \/ Relaunch \/ PageLoaded \/ PageNotLoaded \/ Quit \/ Quitted

Next ==
  /\ app # "stopped"
  /\ \/ \E k \in Kinds : Enter(k) \/ MainStep(k)
     \/ ServiceStep
     \/ SupervisorStep

Spec == Init /\ [][Next]_vars

\* The event loop runs on, and a timer is due some day: the operation whose turn it
\* is goes on.
FairSpec == Spec /\ WF_vars(app # "stopped" /\ queue # <<>> /\ MainStep(queue[1]))

-----------------------------------------------------------------------------
(* Properties.                                                              *)

\* The QR code, the vault and the ticket cookie do not name different rooms: the
\* browser window has the ticket of the active room, and the vault, where it can be
\* written, holds that room, or the one that the operation whose turn it is has
\* written there and activates next (RELIABILITY.md on one lifecycle queue;
\* activateRoom).
RoomsNeverMixed ==
  active # None =>
    /\ active \in cookies
    /\ encryption =>
         \/ vault = active
         \/ \E k \in Kinds : ops[k].step = "activate" /\ ops[k].room = vault

\* A room that was left is never shown again: a late answer or an operation
\* that was begun earlier does not bring an old QR code back.
NeverBackToALeftRoom == [][active' >= active]_active

\* Two service processes never run on one database and one receive directory,
\* whatever fails, exits or answers late (scheduleServiceRecovery).
OneService == Cardinality({c \in Launches : Live(c)}) <= 1

\* A room operation that was begun ends, so that the queue never blocks the
\* ones behind it, even when its process has died (LocalServiceClient.request).
OperationsEnd ==
  \A k \in Kinds : ops[k].step # "idle" ~> ops[k].step = "idle" \/ app = "stopped"

\* The active room is replaced only when it is gone: only a missing or expired
\* room calls for a new one (AI_CONTEXT.md, room lifecycle).
RoomReplacedOnlyIfGone ==
  [][active # None /\ active' # active => rooms[active] = "gone"]_active

\* While the application runs and no recovery is under way, there is a living
\* service or an error was shown (RELIABILITY.md on the bounded restart).
ServiceUpOrReported ==
  app = "running" /\ restart = "none" => Live(client) \/ reported
=============================================================================
