----------------------- MODULE DesktopLifecycleProofs -----------------------
(***************************************************************************)
(* Proofs about the desktop's main process, for any bound on the rooms and *)
(* on the launches.                                                        *)
(*                                                                         *)
(* ProcInv follows the service processes on its own.  DesktopInv ties the  *)
(* queue to the operation that runs, and the rooms that operations, vault  *)
(* and left-over requests name to the rooms that were made, in order.      *)
(***************************************************************************)
EXTENDS DesktopLifecycle, FiniteSetTheorems, TLAPS

\* A second process is forked only when none is left.
ProcInv ==
  /\ proc \in [Launches -> {"none", "starting", "ready", "failed", "dead"}]
  /\ restart \in {"none", "delay", "service", "room", "loading"}
  /\ \A c, d \in Launches : Live(c) /\ Live(d) => c = d
  /\ restart = "delay" => \A c \in Launches : ~ Live(c)

Known(r) == r \in Rooms /\ rooms[r] # "none"

SupervisionType ==
  /\ client \in Launches \union {None}
  /\ app \in {"starting", "running", "quitting", "stopped"}
  /\ boot \in {"service", "room", "loading", "done"}
  /\ restart \in {"none", "delay", "service", "room", "loading"}
  /\ reported \in BOOLEAN

\* The rooms are made in order, and nothing names a room that was not made.
RoomsInv ==
  /\ rooms \in [Rooms -> {"none", "active", "gone"}]
  /\ \E n \in 0 .. MaxRooms : \A r \in Rooms : rooms[r] # "none" <=> r <= n
  /\ stray \subseteq [step : Writing, to : Launches, room : Rooms \union {None}]
  /\ \A request \in stray : request.room = None \/ Known(request.room)
  /\ encryption \in BOOLEAN
  /\ active = None \/ Known(active)
  /\ vault = None \/ Known(vault)
  /\ cookies \subseteq Rooms

Running(k) == ops[k].step \notin {"idle", "queued"}

\* The operations that have begun are in the queue, the one that runs first.
QueueInv ==
  /\ queue \in Seq(Kinds) /\ ops \in [Kinds -> Op]
  /\ \A k \in Kinds :
       /\ ops[k].step # "idle" => \E i \in 1 .. Len(queue) : queue[i] = k
       /\ Running(k) => queue[1] = k
       /\ ~ Running(k) => ops[k].reply = "none"

Activating == {"vault", "activate", "forget"}

\* What the operation that runs works on.
Holds(op) ==
  /\ op.to \in Launches
  /\ op.room = None \/ (Known(op.room) /\ op.room >= active)
  /\ op.step \in {"ensure", "reset", "ticket"} \union Activating => op.room # None
  /\ op.step \in Writing /\ op.reply = "ok" => op.room # None
  /\ op.step \in Activating => op.reply = "none"
  /\ op.step \in {"vault", "activate"} => op.room \in cookies
  /\ op.step = "activate" /\ encryption => vault = op.room
  /\ op.step = "forget" => active = op.room

\* A promise that waits for a process has not enqueued its operation yet.
PromisesInv ==
  /\ ops["recovery"].step # "idle" => restart = "room"
  /\ boot = "service" => ops["boot"].step = "idle"

ProcType == proc \in [Launches -> {"none", "starting", "ready", "failed", "dead"}]

DesktopInv ==
  /\ ProcType /\ SupervisionType /\ PromisesInv
  /\ RoomsInv /\ QueueInv /\ RoomsNeverMixed
  /\ \A k \in Kinds : Running(k) => Holds(ops[k])

-----------------------------------------------------------------------------
(* One service process.                                                     *)

\* A set without two different members has at most one.
LEMMA AtMostOne ==
  ASSUME NEW S, \A x, y \in S : x = y
  PROVE  Cardinality(S) <= 1
<1>1. CASE S = {}
  BY <1>1, FS_EmptySet
<1>2. ASSUME NEW x \in S PROVE Cardinality(S) <= 1
  <2>1. S = {x}
    OBVIOUS
  <2> QED
    BY <2>1, FS_Singleton
<1> QED
  BY <1>1, <1>2

\* The number of launches is a number, and one more is within the bound until
\* the bound is reached.
LEMMA LaunchedNat ==
  Launched \in Nat /\ (Launched < MaxLaunches => Launched + 1 \in Launches)
<1>1. IsFiniteSet(Launches)
  BY FS_Interval, DesktopBounds DEF Launches
<1>2. Launched \in Nat
  BY <1>1, FS_Subset, FS_CardinalityType DEF Launched
<1> QED
  BY <1>2, DesktopBounds DEF Launches

\* A step of the room operations leaves the processes alone and begins no
\* recovery: it may only end one, or go on to load the page.
LEMMA MainStepSupervision ==
  ASSUME NEW k \in Kinds, MainStep(k)
  PROVE  proc' = proc /\ restart' \in {restart, "none", "loading"}
<1>1. Failed(k) => restart' \in {restart, "none", "loading"}
  BY DEF Failed, supervision
<1>2. Succeeded(k) => restart' \in {restart, "none", "loading"}
  BY DEF Succeeded, supervision
<1>3. ASSUME NEW s, NEW c, NEW r, Ask(k, s, c, r)
      PROVE  restart' = restart
  BY <1>3 DEF Ask, supervision
<1>4. ASSUME NEW s, NEW r, AskCurrent(k, s, r)
      PROVE  restart' \in {restart, "none", "loading"}
  BY <1>1, <1>3, <1>4 DEF AskCurrent, Finish
<1>5. CASE Start(k)
  BY <1>1, <1>4, <1>5 DEF Start, Finish, service, Kinds
<1>6. CASE Proceed(k)
  BY <1>2, <1>4, <1>6 DEF Proceed, Finish, service
<1>7. CASE GiveUp(k)
  BY <1>1, <1>3, <1>7 DEF GiveUp, Finish, service
<1>8. CASE TimeOut(k)
  BY <1>8 DEF TimeOut, supervision
<1>9. CASE TicketInstalled(k)
  BY <1>9 DEF TicketInstalled, supervision, service
<1>10. CASE VaultWritten(k)
  BY <1>10 DEF VaultWritten, supervision, service
<1>11. CASE VaultNotWritten(k) \/ TicketNotInstalled(k)
  BY <1>1, <1>11 DEF VaultNotWritten, TicketNotInstalled, Finish, service
<1>12. CASE Activate(k) \/ ForgetTicket(k)
  BY <1>2, <1>12 DEF Activate, ForgetTicket, Finish, service, supervision
<1> QED
  BY <1>5, <1>6, <1>7, <1>8, <1>9, <1>10, <1>11, <1>12 DEF MainStep

\* A process that is ready, has failed or has died where one was alive leaves
\* at most one alive.
LEMMA ProcMoves ==
  ASSUME ProcInv, NEW c \in Launches, NEW s \in {"ready", "failed", "dead"},
         Live(c), proc' \in {proc, [proc EXCEPT ![c] = s]},
         restart' \in {restart, "none", "service", "room", "loading"}
  PROVE  ProcInv'
<1>1. proc' \in [Launches -> {"none", "starting", "ready", "failed", "dead"}]
  BY DEF ProcInv
<1>2. \A d \in Launches : Live(d)' => Live(d)
  BY DEF ProcInv, Live
<1> QED
  BY <1>1, <1>2 DEF ProcInv

\* Every step keeps ProcInv.
LEMMA ProcInvStep == ProcInv /\ [Next]_vars => ProcInv'
<1> SUFFICES ASSUME ProcInv, [Next]_vars PROVE ProcInv'
  OBVIOUS
<1> DEFINE Later == {restart, "none", "service", "room", "loading"}
<1>1. ASSUME proc' = proc, restart' \in Later
      PROVE  ProcInv'
  BY <1>1 DEF ProcInv, Live
<1>2. CASE UNCHANGED vars
  BY <1>1, <1>2 DEF vars, service, supervision
<1>3. ASSUME NEW k \in Kinds, MainStep(k)
      PROVE  ProcInv'
  BY <1>1, <1>3, MainStepSupervision
<1>4. ASSUME NEW k \in Kinds, Enter(k)
      PROVE  ProcInv'
  BY <1>1, <1>4 DEF Enter, service, supervision
<1>5. CASE ServiceStep
  BY <1>1, <1>5 DEF ServiceStep, Serve, Refuse, ServeStray, Expire, supervision, service
<1>6. ASSUME NEW c \in Launches, Initialized(c)
      PROVE  ProcInv'
  <2>1. Live(c)
    BY <1>6 DEF Initialized, Live, Launches, None
  <2>2. restart' \in Later
    BY <1>6 DEF Initialized
  <2> QED
    BY <1>6, <2>1, <2>2, ProcMoves DEF Initialized
<1>7. ASSUME NEW c \in Launches, NotInitialized(c)
      PROVE  ProcInv'
  <2>1. Live(c)
    BY <1>7 DEF NotInitialized, Live, Launches, None
  <2>2. restart' \in Later
    BY <1>7 DEF NotInitialized, InitializeLost, Failed, supervision
  <2> QED
    BY <1>7, <2>1, <2>2, ProcMoves DEF NotInitialized
<1>8. ASSUME NEW c \in Launches, Exit(c)
      PROVE  ProcInv'
  <2>1. Live(c) /\ proc' = [proc EXCEPT ![c] = "dead"]
    BY <1>8 DEF Exit
  <2>2. \A d \in Launches : ~ Live(d)'
    BY <2>1 DEF ProcInv, Live
  <2>3. restart' \in {"none", "delay", "service", "room", "loading"}
    BY <1>8 DEF Exit, Failed, supervision, ProcInv
  <2> QED
    BY <2>1, <2>2, <2>3 DEF ProcInv
<1>9. CASE Relaunch
  <2>1. Launched + 1 \in Launches
    BY <1>9, LaunchedNat DEF Relaunch
  <2>2. \A d \in Launches : Live(d)' => d = Launched + 1
    BY <1>9, <2>1 DEF Relaunch, ProcInv, Live
  <2> QED
    BY <1>9, <2>1, <2>2 DEF Relaunch, ProcInv
<1>10. CASE PageLoaded \/ PageNotLoaded \/ Quit \/ Quitted
  BY <1>1, <1>10 DEF PageLoaded, PageNotLoaded, Failed, Quit, Quitted, service
<1> QED
  BY <1>2, <1>3, <1>4, <1>5, <1>6, <1>7, <1>8, <1>9, <1>10 DEF Next, SupervisorStep

\* ProcInv holds in every reachable state.
LEMMA ProcInvHolds == Spec => []ProcInv
<1>1. Init => ProcInv
  BY DEF Init, ProcInv, Live
<1> QED
  BY <1>1, ProcInvStep, PTL DEF Spec

\* Whatever fails, exits or answers late, two service processes never run at
\* the same time: a recovery begins with the exit of the only one, and forks
\* once (scheduleServiceRecovery).
THEOREM AtMostOneService == Spec => []OneService
<1>1. ProcInv => OneService
  BY AtMostOne DEF ProcInv, OneService
<1> QED
  BY <1>1, ProcInvHolds, PTL

-----------------------------------------------------------------------------
(* The rooms and the operations that name them.                             *)

\* The number of rooms that were made is the last of them.
LEMMA MadeIsLast ==
  ASSUME RoomsInv
  PROVE  /\ Made \in 0 .. MaxRooms
         /\ \A r \in Rooms : rooms[r] # "none" <=> r <= Made
<1>1. PICK n \in 0 .. MaxRooms : \A r \in Rooms : rooms[r] # "none" <=> r <= n
  BY DEF RoomsInv
<1>2. {r \in Rooms : rooms[r] # "none"} = 1 .. n
  BY <1>1, DesktopBounds DEF Rooms
<1>3. Cardinality(1 .. n) = n
  BY FS_Interval, DesktopBounds
<1>4. Made = n
  BY <1>2, <1>3 DEF Made
<1> QED
  BY <1>1, <1>4

\* What a request makes of the rooms: a new room is the next one, nothing is
\* unmade, and the room of the answer is the one asked for or the new one.
LEMMA ExecutedFacts ==
  ASSUME RoomsInv, NEW request \in Requests, NEW room \in Rooms \union {None},
         NEW c, Servable(request, room, c), room = None \/ Known(room),
         rooms' = Executed(request, room)[1]
  PROVE  /\ rooms' \in [Rooms -> {"none", "active", "gone"}]
         /\ \E n \in 0 .. MaxRooms : \A r \in Rooms : rooms'[r] # "none" <=> r <= n
         /\ \A r : Known(r) => Known(r)'
         /\ LET made == Executed(request, room)[2]
            IN  \/ made = room /\ request \notin {"create", "reset"}
                \/ /\ made \in Rooms /\ rooms'[made] # "none"
                   /\ \A r : Known(r) => r <= made
<1> DEFINE kept == IF request = "reset" THEN [rooms EXCEPT ![room] = "gone"] ELSE rooms
<1>1. kept \in [Rooms -> {"none", "active", "gone"}]
  BY DEF RoomsInv
<1>2. \A r \in Rooms : kept[r] # "none" <=> rooms[r] # "none"
  BY DEF RoomsInv, Known, Rooms, None
<1>3. /\ Made \in 0 .. MaxRooms
      /\ \A r \in Rooms : rooms[r] # "none" <=> r <= Made
  BY MadeIsLast
<1>4. CASE Creates(request, room)
  <2>1. Made + 1 \in Rooms
    BY <1>3, <1>4, DesktopBounds DEF Servable, Rooms
  <2>2. rooms' = [kept EXCEPT ![Made + 1] = "active"]
        /\ Executed(request, room)[2] = Made + 1
    BY <1>4 DEF Executed
  <2> HIDE DEF kept
  <2>3. rooms' \in [Rooms -> {"none", "active", "gone"}]
    BY <1>1, <2>1, <2>2
  <2>4. \A r \in Rooms : rooms'[r] # "none" <=> r <= Made + 1
    BY <1>1, <1>2, <1>3, <2>1, <2>2 DEF Rooms
  <2>5. Made + 1 \in 0 .. MaxRooms
    BY <2>1 DEF Rooms
  <2>6. \A r : Known(r) => Known(r)' /\ r <= Made + 1
    BY <1>3, <2>4 DEF Known, Rooms
  <2>7. rooms'[Made + 1] # "none"
    BY <2>1, <2>4 DEF Rooms
  <2> QED
    BY <2>1, <2>2, <2>3, <2>4, <2>5, <2>6, <2>7
<1>5. CASE ~ Creates(request, room)
  <2>1. rooms' = rooms /\ Executed(request, room)[2] = room
        /\ request \notin {"create", "reset"}
    BY <1>5 DEF Executed, Creates
  <2> QED
    BY <1>3, <2>1 DEF RoomsInv, Known
<1> QED
  BY <1>4, <1>5

\* What DesktopInv says of the operation that runs: it is the first one, and
\* the only one.
LEMMA OneRuns ==
  ASSUME DesktopInv, NEW k \in Kinds, Running(k)
  PROVE  /\ Holds(ops[k]) /\ ops[k] \in Op /\ queue[1] = k /\ queue # <<>>
         /\ \A j \in Kinds \ {k} : ~ Running(j)
<1>1. ops[k].step # "idle"
  BY DEF Running
<1>2. PICK i \in 1 .. Len(queue) : queue[i] = k
  BY <1>1 DEF DesktopInv, QueueInv
<1>3. queue # <<>>
  BY <1>2 DEF DesktopInv, QueueInv
<1> QED
  BY <1>3 DEF DesktopInv, QueueInv

\* An operation that ends leaves the ones behind it in the queue.
LEMMA EndKeepsQueue ==
  ASSUME QueueInv, NEW k \in Kinds, queue[1] = k, ops[k].step # "idle",
         \A j \in Kinds \ {k} : ~ Running(j),
         ops' = [ops EXCEPT ![k] = NoOp], queue' = Tail(queue)
  PROVE  QueueInv' /\ \A j \in Kinds : ~ Running(j)'
<1>1. PICK i \in 1 .. Len(queue) : queue[i] = k
  BY DEF QueueInv
<1>2. queue \in Seq(Kinds) /\ queue # <<>> /\ ops \in [Kinds -> Op]
  BY <1>1 DEF QueueInv
<1>3. /\ queue' \in Seq(Kinds) /\ Len(queue') = Len(queue) - 1
      /\ \A j \in 1 .. Len(queue') : queue'[j] = queue[j + 1]
  BY <1>2
<1>4. NoOp \in Op
  BY DEF NoOp, Op
<1>5. ops' \in [Kinds -> Op] /\ ops'[k] = NoOp
      /\ \A j \in Kinds \ {k} : ops'[j] = ops[j]
  BY <1>2, <1>4
<1>6. \A j \in Kinds : ~ Running(j)' /\ ops'[j].reply = "none"
  BY <1>5 DEF QueueInv, Running, NoOp
<1>7. ASSUME NEW j \in Kinds, ops'[j].step # "idle"
      PROVE  \E m \in 1 .. Len(queue') : queue'[m] = j
  <2>1. j # k /\ ops[j].step # "idle"
    BY <1>5, <1>7 DEF NoOp
  <2>2. PICK m \in 1 .. Len(queue) : queue[m] = j
    BY <2>1 DEF QueueInv
  <2>3. m # 1 /\ m - 1 \in 1 .. Len(queue') /\ queue'[m - 1] = queue[m]
    BY <1>2, <1>3, <2>1, <2>2
  <2> QED
    BY <2>2, <2>3
<1> QED
  BY <1>3, <1>5, <1>6, <1>7 DEF QueueInv

\* An operation that is enqueued waits, behind those that are there.
LEMMA EnqueueKeepsQueue ==
  ASSUME QueueInv, NEW k \in Kinds, ~ Running(k), Enqueued(k)
  PROVE  /\ QueueInv'
         /\ \A j \in Kinds : Running(j)' => Running(j) /\ ops'[j] = ops[j]
<1>1. queue \in Seq(Kinds) /\ ops \in [Kinds -> Op]
  BY DEF QueueInv
<1>2. /\ queue' \in Seq(Kinds) /\ Len(queue') = Len(queue) + 1
      /\ \A i \in 1 .. Len(queue) : queue'[i] = queue[i] /\ i \in 1 .. Len(queue')
      /\ queue'[Len(queue) + 1] = k /\ Len(queue) + 1 \in 1 .. Len(queue')
  BY <1>1 DEF Enqueued
<1>3. [NoOp EXCEPT !.step = "queued"] \in Op
  BY DEF NoOp, Op
<1>4. /\ ops' \in [Kinds -> Op]
      /\ ops'[k].step = "queued" /\ ops'[k].reply = "none"
      /\ \A j \in Kinds \ {k} : ops'[j] = ops[j]
  BY <1>1, <1>3 DEF Enqueued, NoOp
<1>5. \A j \in Kinds : Running(j)' => j # k /\ Running(j) /\ ops'[j] = ops[j]
  BY <1>4 DEF Running
<1>6. ASSUME NEW j \in Kinds, ops'[j].step # "idle"
      PROVE  \E i \in 1 .. Len(queue') : queue'[i] = j
  BY <1>2, <1>4, <1>6 DEF QueueInv
<1>7. ASSUME NEW j \in Kinds, Running(j)'
      PROVE  queue'[1] = j
  <2>1. ops[j].step # "idle" /\ queue[1] = j
    BY <1>5, <1>7 DEF QueueInv, Running
  <2>2. \E i \in 1 .. Len(queue) : queue[i] = j
    BY <2>1 DEF QueueInv
  <2>3. 1 \in 1 .. Len(queue)
    BY <1>1, <2>2
  <2> QED
    BY <1>2, <2>1, <2>3
<1>8. \A j \in Kinds : ~ Running(j)' => ops'[j].reply = "none"
  BY <1>4 DEF QueueInv, Running
<1> QED
  BY <1>2, <1>4, <1>5, <1>6, <1>7, <1>8 DEF QueueInv

-----------------------------------------------------------------------------
(* Steps that leave the rooms alone.                                        *)

StrayOK(requests) ==
  /\ requests \subseteq [step : Writing, to : Launches, room : Rooms \union {None}]
  /\ \A request \in requests : request.room = None \/ Known(request.room)

\* A step that leaves the rooms alone keeps DesktopInv when the rest is kept.
LEMMA SameRoomsKeepInv ==
  ASSUME DesktopInv, UNCHANGED <<rooms, roomState>>,
         ProcType', SupervisionType', PromisesInv', QueueInv', StrayOK(stray'),
         \A j \in Kinds : Running(j)' => Holds(ops'[j]),
         \A j \in Kinds : ops[j].step = "activate" =>
           ops'[j].step = "activate" /\ ops'[j].room = ops[j].room
  PROVE  DesktopInv'
<1>1. RoomsInv'
  BY DEF DesktopInv, RoomsInv, StrayOK, Known, roomState
<1>2. RoomsNeverMixed'
  BY DEF DesktopInv, RoomsNeverMixed, roomState
<1>3. \A j \in Kinds : Running(j)' => Holds(ops[j])'
  BY DEF Holds, Known, roomState
<1> QED
  BY <1>1, <1>2, <1>3 DEF DesktopInv

\* The requests left over are unchanged.
LEMMA StraySame ==
  ASSUME DesktopInv
  PROVE  \A requests : requests \subseteq stray => StrayOK(requests)
BY DEF DesktopInv, RoomsInv, StrayOK

\* How operations end keeps the supervision well typed, and the promises: the
\* recovery's promise is settled with its operation.
LEMMA OutcomeKept ==
  ASSUME DesktopInv, NEW k \in Kinds, Failed(k) \/ Succeeded(k),
         ops' = [ops EXCEPT ![k] = NoOp]
  PROVE  SupervisionType' /\ PromisesInv'
<1>1. ops \in [Kinds -> Op] /\ {"recovery", "boot"} \subseteq Kinds
  BY DEF DesktopInv, QueueInv, Kinds
<1>2. /\ ops'[k].step = "idle"
      /\ \A j \in Kinds \ {k} : ops'[j] = ops[j]
  BY <1>1 DEF NoOp
<1>3. CASE k = "boot"
  BY <1>1, <1>2, <1>3
     DEF DesktopInv, SupervisionType, PromisesInv, Failed, Succeeded, QuitNow, supervision
<1>4. CASE k = "recovery"
  BY <1>1, <1>2, <1>4
     DEF DesktopInv, SupervisionType, PromisesInv, Failed, Succeeded, supervision
<1>5. CASE k \notin {"boot", "recovery"}
  BY <1>1, <1>2, <1>5
     DEF DesktopInv, SupervisionType, PromisesInv, Failed, Succeeded, supervision
<1> QED
  BY <1>3, <1>4, <1>5

\* The first operation, when it has begun or may begin, is alone.
LEMMA FirstIsAlone ==
  ASSUME DesktopInv, NEW k \in Kinds, queue[1] = k
  PROVE  \A j \in Kinds \ {k} : ~ Running(j)
BY DEF DesktopInv, QueueInv

\* The end of an operation that changed no room keeps DesktopInv.
LEMMA FinishKeepsInv ==
  ASSUME DesktopInv, NEW k \in Kinds, queue[1] = k,
         ops[k].step \notin {"idle", "activate"},
         Finish(k, Failed(k)) \/ Finish(k, Succeeded(k)),
         UNCHANGED <<service, roomState>>
  PROVE  DesktopInv'
<1>1. /\ ops' = [ops EXCEPT ![k] = NoOp] /\ queue' = Tail(queue)
      /\ Failed(k) \/ Succeeded(k)
  BY DEF Finish
<1>2. QueueInv' /\ \A j \in Kinds : ~ Running(j)'
  BY <1>1, FirstIsAlone, EndKeepsQueue DEF DesktopInv
<1>3. SupervisionType' /\ PromisesInv'
  BY <1>1, OutcomeKept
<1>4. ProcType' /\ StrayOK(stray')
  BY StraySame DEF service, DesktopInv, ProcType
<1>5. \A j \in Kinds : ops[j].step # "activate"
  BY FirstIsAlone DEF Running
<1> QED
  BY <1>2, <1>3, <1>4, <1>5, SameRoomsKeepInv DEF service

\* A request that is sent for a room at least as new as the active one keeps
\* DesktopInv.
LEMMA AskKeepsInv ==
  ASSUME DesktopInv, NEW k \in Kinds, queue[1] = k,
         ops[k].step \notin {"idle", "activate"},
         NEW step \in Requests, NEW c \in Launches, NEW room,
         room = None \/ (Known(room) /\ room >= active),
         step \in {"ensure", "reset", "ticket"} => room # None,
         Ask(k, step, c, room), UNCHANGED <<service, roomState>>
  PROVE  DesktopInv'
<1> DEFINE op == [step |-> step, to |-> c, room |-> room, previous |-> active,
                  reply |-> "none"]
<1>1. op \in Op
  BY DEF Op, Known, DesktopInv, RoomsInv
<1>2. ops \in [Kinds -> Op]
  BY DEF DesktopInv, QueueInv
<1>3. /\ ops' = [ops EXCEPT ![k] = op] /\ UNCHANGED <<supervision, queue>>
      /\ ops'[k] = op /\ \A j \in Kinds \ {k} : ops'[j] = ops[j]
  BY <1>2 DEF Ask
<1>4. Holds(op)
  BY DEF Holds, Requests, Writing, Activating
<1>5. \A j \in Kinds : Running(j)' => j = k
  BY <1>3, FirstIsAlone DEF Running
<1>6. step \notin {"idle", "queued"} /\ op.step = step /\ op.reply = "none"
  BY DEF Requests
<1>7. QueueInv'
  <2>1. ops' \in [Kinds -> Op]
    BY <1>1, <1>2, <1>3
  <2>2. \A j \in Kinds : ops'[j].step # "idle" => ops[j].step # "idle"
    BY <1>3
  <2>3. \A j \in Kinds : ~ Running(j)' => ops'[j].reply = "none"
    BY <1>3, <1>6 DEF DesktopInv, QueueInv, Running
  <2> QED
    BY <1>3, <1>5, <2>1, <2>2, <2>3 DEF DesktopInv, QueueInv
<1>8. SupervisionType' /\ PromisesInv'
  BY <1>3 DEF DesktopInv, SupervisionType, PromisesInv, supervision, Kinds
<1>9. ProcType' /\ StrayOK(stray')
  BY StraySame DEF service, DesktopInv, ProcType
<1>10. \A j \in Kinds : ops[j].step # "activate"
  BY FirstIsAlone DEF Running
<1> QED
  BY <1>3, <1>4, <1>5, <1>7, <1>8, <1>9, <1>10, SameRoomsKeepInv DEF service

\* So does a request to the current client, or the failure for lack of one.
LEMMA AskCurrentKeepsInv ==
  ASSUME DesktopInv, NEW k \in Kinds, queue[1] = k,
         ops[k].step \notin {"idle", "activate"},
         NEW step \in Requests, NEW room,
         room = None \/ (Known(room) /\ room >= active),
         step \in {"ensure", "reset", "ticket"} => room # None,
         AskCurrent(k, step, room), UNCHANGED <<service, roomState>>
  PROVE  DesktopInv'
<1>1. CASE client = None
  BY <1>1, FinishKeepsInv DEF AskCurrent
<1>2. CASE client # None
  BY <1>2, AskKeepsInv DEF AskCurrent, DesktopInv, SupervisionType
<1> QED
  BY <1>1, <1>2

\* Requests that fail leave the operations where they are.
LEMMA ErrorsKept ==
  ASSUME DesktopInv, queue' = queue, ops' = [j \in Kinds |-> ops'[j]],
         \A j \in Kinds :
           \/ ops'[j] = ops[j]
           \/ ops[j].step \in Requests /\ ops'[j] = [ops[j] EXCEPT !.reply = "error"]
  PROVE  /\ QueueInv'
         /\ \A j \in Kinds : ops'[j].step = ops[j].step /\ ops'[j].room = ops[j].room
         /\ \A j \in Kinds : Running(j)' => Holds(ops'[j])
<1>1. ops \in [Kinds -> Op]
  BY DEF DesktopInv, QueueInv
<1>2. ASSUME NEW j \in Kinds
      PROVE  /\ ops'[j] \in Op /\ ops'[j].step = ops[j].step
             /\ ops'[j].to = ops[j].to /\ ops'[j].room = ops[j].room
             /\ ops[j].step \notin Requests => ops'[j] = ops[j]
             /\ ops'[j].reply # "error" => ops'[j] = ops[j]
             /\ ~ Running(j) => ops'[j] = ops[j]
  BY <1>1 DEF Op, Running, Requests
<1>3. QueueInv'
  BY <1>2 DEF DesktopInv, QueueInv, Running
<1>4. \A j \in Kinds : Running(j)' => Holds(ops'[j])
  BY <1>2 DEF DesktopInv, Running, Holds, Activating, Requests
<1> QED
  BY <1>2, <1>3, <1>4

\* Starting an operation keeps DesktopInv: the vault, when it names a room,
\* names none that is older than the active one.
LEMMA StartKeepsInv ==
  ASSUME DesktopInv, NEW k \in Kinds, Start(k)
  PROVE  DesktopInv'
<1>1. /\ queue[1] = k /\ ops[k].step \notin {"idle", "activate"} /\ ~ Running(k)
      /\ UNCHANGED <<service, roomState>>
  BY DEF Start, Turn, Running
<1>2. active \in Rooms \union {None} /\ vault \in Rooms \union {None}
      /\ (active = None \/ Known(active)) /\ (vault = None \/ Known(vault))
  BY DEF DesktopInv, RoomsInv, Known
<1>3. encryption /\ vault # None => vault >= active
  <2>1. \A j \in Kinds : ops[j].step # "activate"
    BY <1>1, FirstIsAlone DEF Running
  <2> QED
    BY <1>2, <2>1 DEF DesktopInv, RoomsNeverMixed, Rooms, None
<1>4. CASE k = "refresh"
  <2>1. AskCurrent(k, "status", active)
    BY <1>4 DEF Start
  <2> QED
    BY <1>1, <1>2, <2>1, AskCurrentKeepsInv DEF Requests, Rooms, None
<1>5. CASE k = "reset" /\ active = None
  <2>1. Finish(k, Failed(k))
    BY <1>5 DEF Start
  <2> QED
    BY <1>1, <2>1, FinishKeepsInv
<1>6. CASE k = "reset" /\ active # None
  <2>1. AskCurrent(k, "reset", active)
    BY <1>6 DEF Start
  <2> QED
    BY <1>1, <1>2, <1>6, <2>1, AskCurrentKeepsInv DEF Requests, Rooms, None
<1>7. CASE k \notin {"refresh", "reset"}
  <2>1. PICK saved \in Saved :
          AskCurrent(k, IF saved = None THEN "create" ELSE "ensure", saved)
    BY <1>7 DEF Start
  <2>2. saved = None \/ (Known(saved) /\ saved >= active)
    BY <1>2, <1>3 DEF Saved
  <2>3. CASE saved = None
    <3>1. AskCurrent(k, "create", saved)
      BY <2>1, <2>3
    <3> QED
      BY <1>1, <2>2, <3>1, AskCurrentKeepsInv DEF Requests
  <2>4. CASE saved # None
    <3>1. AskCurrent(k, "ensure", saved)
      BY <2>1, <2>4
    <3> QED
      BY <1>1, <2>2, <2>4, <3>1, AskCurrentKeepsInv DEF Requests
  <2> QED
    BY <2>3, <2>4
<1> QED
  BY <1>4, <1>5, <1>6, <1>7

\* The next request, or the end of a refresh, keeps DesktopInv.
LEMMA ProceedKeepsInv ==
  ASSUME DesktopInv, NEW k \in Kinds, Proceed(k)
  PROVE  DesktopInv'
<1>1. Running(k) /\ ops[k].reply = "ok" /\ UNCHANGED <<service, roomState>>
  BY DEF Proceed, DesktopInv, QueueInv
<1>2. Holds(ops[k]) /\ queue[1] = k /\ ops[k].step \notin {"idle", "activate"}
  BY <1>1, OneRuns DEF Running, Holds, Activating
<1>3. ops[k].room = None \/ (Known(ops[k].room) /\ ops[k].room >= active)
  BY <1>2 DEF Holds
<1>4. CASE AskCurrent(k, "create", None)
  BY <1>1, <1>2, <1>4, AskCurrentKeepsInv DEF Requests
<1>5. CASE ops[k].room # None /\ AskCurrent(k, "ensure", ops[k].room)
  BY <1>1, <1>2, <1>3, <1>5, AskCurrentKeepsInv DEF Requests
<1>6. CASE Finish(k, Succeeded(k))
  BY <1>1, <1>2, <1>6, FinishKeepsInv
<1>7. CASE ops[k].step \in Writing /\ AskCurrent(k, "ticket", ops[k].room)
  <2>1. ops[k].room # None
    BY <1>1, <1>2, <1>7 DEF Holds
  <2> QED
    BY <1>1, <1>2, <1>3, <1>7, <2>1, AskCurrentKeepsInv DEF Requests
<1> QED
  BY <1>4, <1>5, <1>6, <1>7 DEF Proceed

\* Giving up, or asking the same process for a new room, keeps DesktopInv.
LEMMA GiveUpKeepsInv ==
  ASSUME DesktopInv, NEW k \in Kinds, GiveUp(k)
  PROVE  DesktopInv'
<1>1. Running(k) /\ UNCHANGED <<service, roomState>>
  BY DEF GiveUp, DesktopInv, QueueInv
<1>2. Holds(ops[k]) /\ queue[1] = k /\ ops[k].step \notin {"idle", "activate"}
  BY <1>1, OneRuns DEF GiveUp, Running, Holds, Activating
<1>3. CASE Ask(k, "create", ops[k].to, None)
  BY <1>1, <1>2, <1>3, AskKeepsInv DEF Holds, Requests
<1>4. CASE Finish(k, Failed(k))
  BY <1>1, <1>2, <1>4, FinishKeepsInv
<1> QED
  BY <1>3, <1>4 DEF GiveUp

\* A request that times out and may still be served keeps DesktopInv.
LEMMA TimeOutKeepsInv ==
  ASSUME DesktopInv, NEW k \in Kinds, TimeOut(k)
  PROVE  DesktopInv'
<1>1. Running(k)
  BY DEF TimeOut, Late, Waiting, Running, Requests
<1>2. Holds(ops[k]) /\ ops \in [Kinds -> Op]
  BY <1>1, OneRuns DEF DesktopInv, QueueInv
<1>3. /\ ops' = [ops EXCEPT ![k].reply = "error"]
      /\ UNCHANGED <<rooms, proc, supervision, queue, roomState>>
  BY DEF TimeOut
<1>4. /\ QueueInv'
      /\ \A j \in Kinds : ops'[j].step = ops[j].step /\ ops'[j].room = ops[j].room
      /\ \A j \in Kinds : Running(j)' => Holds(ops'[j])
  <2>1. ops' = [j \in Kinds |-> ops'[j]]
    BY <1>2, <1>3
  <2>2. \A j \in Kinds :
          \/ ops'[j] = ops[j]
          \/ ops[j].step \in Requests /\ ops'[j] = [ops[j] EXCEPT !.reply = "error"]
    BY <1>2, <1>3 DEF TimeOut, Late, Waiting
  <2> QED
    BY <1>3, <2>1, <2>2, ErrorsKept
<1>5. StrayOK(stray')
  <2>1. CASE UNCHANGED stray
    BY <2>1, StraySame
  <2>2. CASE /\ ops[k].step \in Writing
             /\ stray' = stray \union {[step |-> ops[k].step, to |-> ops[k].to,
                                        room |-> ops[k].room]}
    <3>1. StrayOK(stray)
      BY StraySame
    <3>2. StrayOK({[step |-> ops[k].step, to |-> ops[k].to, room |-> ops[k].room]})
      BY <1>2, <2>2 DEF StrayOK, Holds, Known, Op
    <3> QED
      BY <2>2, <3>1, <3>2 DEF StrayOK
  <2> QED
    BY <2>1, <2>2 DEF TimeOut
<1>6. SupervisionType' /\ PromisesInv' /\ ProcType'
  BY <1>3, <1>4 DEF DesktopInv, SupervisionType, PromisesInv, ProcType, supervision, Kinds
<1> QED
  BY <1>3, <1>4, <1>5, <1>6, SameRoomsKeepInv

-----------------------------------------------------------------------------
(* Steps that change the rooms, or what names them.                         *)

\* Installing a ticket keeps DesktopInv.
LEMMA TicketKeepsInv ==
  ASSUME DesktopInv, NEW k \in Kinds, TicketInstalled(k)
  PROVE  DesktopInv'
<1>1. Running(k)
  BY DEF TicketInstalled, Running
<1>2. /\ Holds(ops[k]) /\ queue[1] = k /\ ops[k] \in Op
      /\ \A j \in Kinds \ {k} : ~ Running(j)
  BY <1>1, OneRuns
<1>3. /\ ops' = [ops EXCEPT ![k].step = "vault", ![k].reply = "none"]
      /\ cookies' = cookies \union {ops[k].room}
      /\ UNCHANGED <<service, supervision, queue, encryption, active, vault>>
  BY DEF TicketInstalled
<1>4. ops \in [Kinds -> Op] /\ ops[k].step = "ticket"
  BY DEF DesktopInv, QueueInv, TicketInstalled
<1>5. /\ ops' \in [Kinds -> Op] /\ ops'[k].step = "vault" /\ ops'[k].reply = "none"
      /\ ops'[k].room = ops[k].room /\ ops'[k].to = ops[k].to
      /\ \A j \in Kinds \ {k} : ops'[j] = ops[j]
  BY <1>2, <1>3, <1>4 DEF Op
<1>6. ops[k].room # None /\ Known(ops[k].room) /\ ops[k].room >= active
  BY <1>2, <1>4 DEF Holds
<1>7. Holds(ops[k])'
  BY <1>2, <1>3, <1>5, <1>6 DEF Holds, Activating, Writing, Known, service
<1>8. QueueInv'
  BY <1>2, <1>3, <1>4, <1>5 DEF DesktopInv, QueueInv, Running
<1>9. SupervisionType' /\ PromisesInv' /\ ProcType'
  BY <1>3, <1>4, <1>5
     DEF DesktopInv, SupervisionType, PromisesInv, ProcType, supervision, service, Kinds
<1>10. RoomsInv'
  BY <1>3, <1>6 DEF DesktopInv, RoomsInv, Known, service
<1>11. RoomsNeverMixed'
  <2>1. \A j \in Kinds : ops[j].step # "activate"
    BY <1>2, <1>4 DEF Running
  <2> QED
    BY <1>3, <2>1 DEF DesktopInv, RoomsNeverMixed
<1>12. \A j \in Kinds : Running(j)' => j = k
  BY <1>2, <1>5 DEF Running
<1> QED
  BY <1>7, <1>8, <1>9, <1>10, <1>11, <1>12 DEF DesktopInv

\* Writing the vault, or passing over it, keeps DesktopInv.
LEMMA VaultKeepsInv ==
  ASSUME DesktopInv, NEW k \in Kinds, VaultWritten(k)
  PROVE  DesktopInv'
<1>1. Running(k)
  BY DEF VaultWritten, Running
<1>2. /\ Holds(ops[k]) /\ queue[1] = k /\ ops[k].step = "vault" /\ ops[k] \in Op
      /\ \A j \in Kinds \ {k} : ~ Running(j)
  BY <1>1, OneRuns DEF VaultWritten
<1>3. /\ ops' = [ops EXCEPT ![k].step = "activate"]
      /\ vault' = IF encryption THEN ops[k].room ELSE vault
      /\ UNCHANGED <<service, supervision, queue, encryption, active, cookies>>
  BY DEF VaultWritten
<1>4. ops \in [Kinds -> Op]
  BY DEF DesktopInv, QueueInv
<1>5. /\ ops' \in [Kinds -> Op] /\ ops'[k].step = "activate"
      /\ ops'[k].reply = ops[k].reply /\ ops'[k].room = ops[k].room /\ ops'[k].to = ops[k].to
      /\ \A j \in Kinds \ {k} : ops'[j] = ops[j]
  BY <1>2, <1>3, <1>4 DEF Op
<1>6. /\ ops[k].room # None /\ Known(ops[k].room) /\ ops[k].room >= active
      /\ ops[k].room \in cookies /\ ops[k].reply = "none"
  BY <1>2 DEF Holds, Activating
<1>7. Holds(ops[k])'
  BY <1>2, <1>3, <1>5, <1>6 DEF Holds, Activating, Writing, Known, service
<1>8. QueueInv'
  BY <1>2, <1>3, <1>4, <1>5, <1>6 DEF DesktopInv, QueueInv, Running
<1>9. SupervisionType' /\ PromisesInv' /\ ProcType'
  BY <1>2, <1>3, <1>5
     DEF DesktopInv, SupervisionType, PromisesInv, ProcType, supervision, service, Kinds
<1>10. RoomsInv'
  BY <1>3, <1>6 DEF DesktopInv, RoomsInv, Known, service
<1>11. RoomsNeverMixed'
  BY <1>3, <1>5, <1>6 DEF DesktopInv, RoomsNeverMixed
<1>12. \A j \in Kinds : Running(j)' => j = k
  BY <1>2, <1>5 DEF Running
<1> QED
  BY <1>7, <1>8, <1>9, <1>10, <1>11, <1>12 DEF DesktopInv

\* Activating makes the operation's room, which the vault and a cookie name
\* already, the active one.
LEMMA ActivateKeepsInv ==
  ASSUME DesktopInv, NEW k \in Kinds, Activate(k)
  PROVE  DesktopInv' /\ active' >= active
<1>1. Running(k)
  BY DEF Activate, Running
<1>2. /\ Holds(ops[k]) /\ queue[1] = k /\ ops[k].step = "activate" /\ ops[k] \in Op
      /\ \A j \in Kinds \ {k} : ~ Running(j)
  BY <1>1, OneRuns DEF Activate
<1>3. active' = ops[k].room /\ UNCHANGED <<service, encryption, vault, cookies>>
  BY DEF Activate
<1>4. /\ ops[k].room # None /\ Known(ops[k].room) /\ ops[k].room >= active
      /\ ops[k].room \in cookies /\ ops[k].reply = "none" /\ ops[k].to \in Launches
      /\ encryption => vault = ops[k].room
  BY <1>2 DEF Holds, Activating
<1>5. RoomsInv' /\ ProcType'
  BY <1>3, <1>4 DEF DesktopInv, RoomsInv, Known, service, ProcType
<1>6. RoomsNeverMixed'
  BY <1>3, <1>4 DEF RoomsNeverMixed
<1>7. CASE Finish(k, Succeeded(k))
  <2>1. ops' = [ops EXCEPT ![k] = NoOp] /\ queue' = Tail(queue) /\ Succeeded(k)
    BY <1>7 DEF Finish
  <2>2. QueueInv' /\ \A j \in Kinds : ~ Running(j)'
    BY <1>2, <2>1, EndKeepsQueue DEF DesktopInv
  <2>3. SupervisionType' /\ PromisesInv'
    BY <2>1, OutcomeKept
  <2> QED
    BY <1>3, <1>4, <1>5, <1>6, <2>2, <2>3 DEF DesktopInv
<1>8. CASE ops' = [ops EXCEPT ![k].step = "forget"] /\ UNCHANGED <<supervision, queue>>
  <2>1. ops \in [Kinds -> Op]
    BY DEF DesktopInv, QueueInv
  <2>2. /\ ops' \in [Kinds -> Op] /\ ops'[k].step = "forget"
        /\ ops'[k].reply = ops[k].reply /\ ops'[k].room = ops[k].room
        /\ ops'[k].to = ops[k].to
        /\ \A j \in Kinds \ {k} : ops'[j] = ops[j]
    BY <1>2, <1>8, <2>1 DEF Op
  <2>3. Holds(ops[k])'
    BY <1>3, <1>4, <2>2 DEF Holds, Activating, Writing, Known, Rooms, service
  <2>4. QueueInv'
    BY <1>2, <1>4, <1>8, <2>2 DEF DesktopInv, QueueInv, Running
  <2>5. SupervisionType' /\ PromisesInv'
    BY <1>2, <1>8, <2>2 DEF DesktopInv, SupervisionType, PromisesInv, supervision, Kinds
  <2>6. \A j \in Kinds : Running(j)' => j = k
    BY <1>2, <2>2 DEF Running
  <2> QED
    BY <1>3, <1>4, <1>5, <1>6, <2>3, <2>4, <2>5, <2>6 DEF DesktopInv
<1> QED
  BY <1>7, <1>8 DEF Activate

\* Dropping the cookie of the room before keeps DesktopInv.
LEMMA ForgetKeepsInv ==
  ASSUME DesktopInv, NEW k \in Kinds, ForgetTicket(k)
  PROVE  DesktopInv'
<1>1. Running(k)
  BY DEF ForgetTicket, Running
<1>2. /\ Holds(ops[k]) /\ queue[1] = k /\ ops[k].step = "forget"
      /\ \A j \in Kinds \ {k} : ~ Running(j)
  BY <1>1, OneRuns DEF ForgetTicket
<1>3. /\ ops' = [ops EXCEPT ![k] = NoOp] /\ queue' = Tail(queue) /\ Succeeded(k)
      /\ cookies' \in {cookies, cookies \ Superseded(ops[k])}
      /\ UNCHANGED <<service, encryption, active, vault>>
  BY DEF ForgetTicket, Finish
<1>4. active = ops[k].room
  BY <1>2 DEF Holds
<1>5. QueueInv' /\ \A j \in Kinds : ~ Running(j)'
  BY <1>2, <1>3, EndKeepsQueue DEF DesktopInv
<1>6. SupervisionType' /\ PromisesInv'
  BY <1>3, OutcomeKept
<1>7. RoomsInv' /\ ProcType'
  BY <1>3 DEF DesktopInv, RoomsInv, Known, service, ProcType
<1>8. RoomsNeverMixed'
  <2>1. \A j \in Kinds : ops[j].step # "activate"
    BY <1>2 DEF Running
  <2> QED
    BY <1>3, <1>4, <2>1 DEF DesktopInv, RoomsNeverMixed, Superseded
<1> QED
  BY <1>3, <1>5, <1>6, <1>7, <1>8 DEF DesktopInv

\* A step of the room operations keeps DesktopInv, and the active room does
\* not go back.
LEMMA MainStepKeepsInv ==
  ASSUME DesktopInv, NEW k \in Kinds, MainStep(k)
  PROVE  DesktopInv' /\ (active' # active => active' >= active)
<1>1. CASE VaultNotWritten(k) \/ TicketNotInstalled(k)
  <2>1. /\ Running(k) /\ UNCHANGED <<service, roomState>> /\ Finish(k, Failed(k))
        /\ ops[k].step # "activate"
    BY <1>1 DEF VaultNotWritten, TicketNotInstalled, Running
  <2>2. queue[1] = k /\ ops[k].step \notin {"idle", "activate"}
    BY <2>1, OneRuns DEF Running
  <2> QED
    BY <2>1, <2>2, FinishKeepsInv DEF roomState
<1>2. CASE VaultWritten(k) \/ Activate(k) \/ ForgetTicket(k)
  BY <1>2, VaultKeepsInv, ActivateKeepsInv, ForgetKeepsInv DEF VaultWritten, ForgetTicket
<1>3. CASE TicketInstalled(k)
  BY <1>3, TicketKeepsInv DEF TicketInstalled
<1>4. CASE Start(k) \/ Proceed(k) \/ GiveUp(k) \/ TimeOut(k)
  BY <1>4, StartKeepsInv, ProceedKeepsInv, GiveUpKeepsInv, TimeOutKeepsInv
     DEF Start, Proceed, GiveUp, TimeOut, roomState
<1> QED
  BY <1>1, <1>2, <1>3, <1>4 DEF MainStep

\* A served request keeps DesktopInv: the room it answers with is no older
\* than the active one.
LEMMA ServeKeepsInv ==
  ASSUME DesktopInv, NEW k \in Kinds, Serve(k)
  PROVE  DesktopInv'
<1> DEFINE made == Executed(ops[k].step, ops[k].room)[2]
<1>1. /\ Running(k) /\ ops[k].step \in Requests
      /\ Servable(ops[k].step, ops[k].room, ops[k].to)
      /\ rooms' = Executed(ops[k].step, ops[k].room)[1]
      /\ ops' = [ops EXCEPT ![k].reply = "ok", ![k].room = made]
      /\ UNCHANGED <<proc, stray, supervision, queue, roomState>>
  BY DEF Serve, Running, Waiting, Requests
<1>2. /\ Holds(ops[k]) /\ ops[k] \in Op /\ queue[1] = k
      /\ \A j \in Kinds \ {k} : ~ Running(j)
  BY <1>1, OneRuns
<1>3. RoomsInv /\ ops[k].room \in Rooms \union {None}
      /\ (ops[k].room = None \/ Known(ops[k].room))
  BY <1>2 DEF DesktopInv, Op, Holds
<1>4. /\ rooms' \in [Rooms -> {"none", "active", "gone"}]
      /\ \E n \in 0 .. MaxRooms : \A r \in Rooms : rooms'[r] # "none" <=> r <= n
      /\ \A r : Known(r) => Known(r)'
      /\ \/ made = ops[k].room /\ ops[k].step \notin {"create", "reset"}
         \/ /\ made \in Rooms /\ rooms'[made] # "none"
            /\ \A r : Known(r) => r <= made
  BY <1>1, <1>3, ExecutedFacts
<1> HIDE DEF made
<1>5. ops \in [Kinds -> Op] /\ made \in Rooms \union {None}
  BY <1>2, <1>4 DEF DesktopInv, QueueInv, Op
<1>6. /\ ops' \in [Kinds -> Op]
      /\ ops'[k].step = ops[k].step /\ ops'[k].reply = "ok"
      /\ ops'[k].room = made /\ ops'[k].to = ops[k].to
      /\ \A j \in Kinds \ {k} : ops'[j] = ops[j]
  BY <1>1, <1>2, <1>5 DEF Op
<1>7. active' = active /\ (active = None \/ Known(active)) /\ cookies' = cookies
  BY <1>1 DEF DesktopInv, RoomsInv, roomState
<1>8. Holds(ops[k])'
  <2>1. made = None \/ (made \in Rooms /\ rooms'[made] # "none" /\ made >= active)
    <3>1. CASE made = ops[k].room
      BY <1>2, <1>4, <3>1 DEF Holds, Known
    <3>2. CASE made \in Rooms /\ rooms'[made] # "none" /\ \A r : Known(r) => r <= made
      BY <1>7, <3>2 DEF Known, Rooms, None
    <3> QED
      BY <1>4, <3>1, <3>2
  <2>2. ops[k].step \in {"ensure", "reset", "ticket"} \union Writing => made # None
    BY <1>2, <1>4 DEF Holds, Writing, Rooms, None
  <2>3. ops[k].step \notin Activating
    BY <1>1 DEF Requests, Activating
  <2> QED
    BY <1>2, <1>6, <1>7, <2>1, <2>2, <2>3 DEF Holds, Known, Activating
<1>9. QueueInv'
  BY <1>1, <1>2, <1>6 DEF DesktopInv, QueueInv, Running
<1>10. SupervisionType' /\ PromisesInv' /\ ProcType'
  BY <1>1, <1>6 DEF DesktopInv, SupervisionType, PromisesInv, ProcType, supervision, Kinds
<1>11. RoomsInv'
  BY <1>1, <1>4 DEF DesktopInv, RoomsInv, roomState
<1>12. RoomsNeverMixed'
  <2>1. \A j \in Kinds : ops[j].step = "activate" => ops'[j] = ops[j]
    BY <1>1, <1>6 DEF Requests
  <2> QED
    BY <1>1, <2>1 DEF DesktopInv, RoomsNeverMixed, roomState
<1>13. \A j \in Kinds : Running(j)' => j = k
  BY <1>2, <1>6 DEF Running
<1> QED
  BY <1>8, <1>9, <1>10, <1>11, <1>12, <1>13 DEF DesktopInv

\* Rooms that change without an operation keep DesktopInv.
LEMMA RoomsMoveKeepsInv ==
  ASSUME DesktopInv, UNCHANGED <<proc, supervision, queue, ops, roomState>>,
         stray' \subseteq stray,
         rooms' \in [Rooms -> {"none", "active", "gone"}],
         \E n \in 0 .. MaxRooms : \A r \in Rooms : rooms'[r] # "none" <=> r <= n,
         \A r : Known(r) => Known(r)'
  PROVE  DesktopInv'
<1>1. RoomsInv'
  BY DEF DesktopInv, RoomsInv, roomState
<1>2. \A j \in Kinds : Running(j)' => Holds(ops[j])'
  BY DEF DesktopInv, Running, Holds, roomState
<1>3. ProcType' /\ SupervisionType' /\ PromisesInv' /\ QueueInv' /\ RoomsNeverMixed'
  BY DEF DesktopInv, ProcType, SupervisionType, PromisesInv, QueueInv, Running,
         RoomsNeverMixed, supervision, roomState
<1> QED
  BY <1>1, <1>2, <1>3 DEF DesktopInv

\* A step of the service keeps DesktopInv.
LEMMA ServiceKeepsInv ==
  ASSUME DesktopInv, ServiceStep
  PROVE  DesktopInv'
<1>1. ASSUME NEW k \in Kinds, Refuse(k)
      PROVE  DesktopInv'
  <2>1. /\ ops[k].step \in Requests /\ ops' = [ops EXCEPT ![k].reply = "error"]
        /\ UNCHANGED <<service, supervision, queue, roomState>>
        /\ ops \in [Kinds -> Op]
    BY <1>1 DEF Refuse, Waiting, DesktopInv, QueueInv
  <2>2. /\ ops' = [j \in Kinds |-> ops'[j]]
        /\ \A j \in Kinds :
             \/ ops'[j] = ops[j]
             \/ ops[j].step \in Requests /\ ops'[j] = [ops[j] EXCEPT !.reply = "error"]
    BY <2>1
  <2>3. /\ QueueInv'
        /\ \A j \in Kinds : ops'[j].step = ops[j].step /\ ops'[j].room = ops[j].room
        /\ \A j \in Kinds : Running(j)' => Holds(ops'[j])
    BY <2>1, <2>2, ErrorsKept
  <2>4. SupervisionType' /\ PromisesInv' /\ ProcType'
    BY <2>1, <2>3
       DEF DesktopInv, SupervisionType, PromisesInv, ProcType, supervision, service, Kinds
  <2> QED
    BY <2>1, <2>3, <2>4, StraySame, SameRoomsKeepInv DEF service
<1>2. ASSUME NEW request \in stray, ServeStray(request)
      PROVE  DesktopInv'
  <2>1. /\ request.step \in Requests /\ request.room \in Rooms \union {None}
        /\ (request.room = None \/ Known(request.room)) /\ RoomsInv
    BY DEF DesktopInv, RoomsInv, Writing, Requests
  <2>2. /\ rooms' \in [Rooms -> {"none", "active", "gone"}]
        /\ \E n \in 0 .. MaxRooms : \A r \in Rooms : rooms'[r] # "none" <=> r <= n
        /\ \A r : Known(r) => Known(r)'
    BY <1>2, <2>1, ExecutedFacts DEF ServeStray
  <2> QED
    BY <1>2, <2>2, RoomsMoveKeepsInv DEF ServeStray
<1>3. ASSUME NEW r \in Rooms, Expire(r)
      PROVE  DesktopInv'
  <2>1. /\ rooms' = [rooms EXCEPT ![r] = "gone"] /\ rooms[r] # "none"
        /\ rooms \in [Rooms -> {"none", "active", "gone"}]
        /\ \E n \in 0 .. MaxRooms : \A s \in Rooms : rooms[s] # "none" <=> s <= n
    BY <1>3 DEF Expire, DesktopInv, RoomsInv
  <2>2. \A s \in Rooms : rooms'[s] # "none" <=> rooms[s] # "none"
    BY <2>1
  <2>3. \A s : Known(s) => Known(s)'
    BY <2>2 DEF Known
  <2>4. \E n \in 0 .. MaxRooms : \A s \in Rooms : rooms'[s] # "none" <=> s <= n
    BY <2>1, <2>2
  <2> QED
    BY <1>3, <2>1, <2>3, <2>4, RoomsMoveKeepsInv DEF Expire
<1> QED
  BY <1>1, <1>2, <1>3, ServeKeepsInv DEF ServiceStep

-----------------------------------------------------------------------------
(* Steps of the supervisor.                                                 *)

\* A refresh or reset that is enqueued keeps DesktopInv.
LEMMA EnterKeepsInv ==
  ASSUME DesktopInv, NEW k \in Kinds, Enter(k)
  PROVE  DesktopInv'
<1>1. /\ Enqueued(k) /\ ~ Running(k) /\ k \in {"refresh", "reset"}
      /\ UNCHANGED <<service, supervision, roomState>>
  BY DEF Enter, Running, Kinds
<1>6. \A j \in Kinds : ops[j].step = "activate" => ops'[j] = ops[j]
  BY <1>1 DEF Enqueued, Running, DesktopInv, QueueInv
<1>2. /\ QueueInv'
      /\ \A j \in Kinds : Running(j)' => Running(j) /\ ops'[j] = ops[j]
  BY <1>1, EnqueueKeepsQueue DEF DesktopInv
<1>3. \A j \in Kinds : Running(j)' => Holds(ops'[j])
  BY <1>2 DEF DesktopInv
<1>4. ops'["recovery"] = ops["recovery"] /\ ops'["boot"] = ops["boot"]
  BY <1>1 DEF Enqueued, Kinds, DesktopInv, QueueInv
<1>5. SupervisionType' /\ PromisesInv' /\ ProcType'
  BY <1>1, <1>4
     DEF DesktopInv, SupervisionType, PromisesInv, ProcType, supervision, service
<1> QED
  BY <1>1, <1>2, <1>3, <1>5, <1>6, StraySame, SameRoomsKeepInv DEF service

\* A process that is ready keeps DesktopInv: the promise that waited for it
\* had no operation in the queue.
LEMMA InitializedKeepsInv ==
  ASSUME DesktopInv, NEW c \in Launches, Initialized(c)
  PROVE  DesktopInv'
<1> DEFINE k == Awaited(c)
<1>1. proc' = [proc EXCEPT ![c] = "ready"] /\ UNCHANGED <<rooms, stray, app, reported, roomState>>
  BY DEF Initialized
<1>2. ProcType' /\ StrayOK(stray')
  BY <1>1, StraySame DEF DesktopInv, ProcType
<1>3. CASE k = "nobody"
  <2>1. UNCHANGED <<client, boot, restart, queue, ops>>
    BY <1>3 DEF Initialized
  <2>2. QueueInv' /\ \A j \in Kinds : Running(j)' => Holds(ops'[j])
    BY <2>1 DEF DesktopInv, QueueInv, Running
  <2>3. SupervisionType' /\ PromisesInv'
    BY <1>1, <2>1 DEF DesktopInv, SupervisionType, PromisesInv
  <2> QED
    BY <1>1, <1>2, <2>1, <2>2, <2>3, SameRoomsKeepInv
<1>4. CASE k # "nobody"
  <2>1. /\ client' = c /\ Enqueued(k)
        /\ boot' = IF k = "boot" THEN "room" ELSE boot
        /\ restart' = IF k = "recovery" THEN "room" ELSE restart
    BY <1>4 DEF Initialized
  <2>2. \/ k = "recovery" /\ restart = "service"
        \/ k = "boot" /\ boot = "service"
    BY <1>4 DEF Awaited
  <2>3. k \in Kinds /\ ops[k].step = "idle"
    BY <2>2 DEF DesktopInv, PromisesInv, Kinds
  <2>4. /\ QueueInv'
        /\ \A j \in Kinds : Running(j)' => Running(j) /\ ops'[j] = ops[j]
    BY <2>1, <2>3, EnqueueKeepsQueue DEF DesktopInv, Running
  <2>5. \A j \in Kinds : Running(j)' => Holds(ops'[j])
    BY <2>4 DEF DesktopInv
  <2>6. \A j \in Kinds \ {k} : ops'[j] = ops[j]
    BY <2>1 DEF Enqueued, DesktopInv, QueueInv
  <2>7. SupervisionType'
    BY <1>1, <2>1 DEF DesktopInv, SupervisionType
  <2>8. PromisesInv'
    BY <2>1, <2>2, <2>6 DEF DesktopInv, PromisesInv, Kinds
  <2> QED
    BY <1>1, <1>2, <2>3, <2>4, <2>5, <2>6, <2>7, <2>8, SameRoomsKeepInv
<1> QED
  BY <1>3, <1>4

\* A supervisor's step that leaves queue, operations and rooms alone keeps
\* DesktopInv.
LEMMA SupervisorMovesKeepInv ==
  ASSUME DesktopInv, UNCHANGED <<rooms, stray, queue, ops, roomState>>,
         ProcType', SupervisionType',
         restart = "room" => restart' = "room", boot' = "service" => boot = "service"
  PROVE  DesktopInv'
<1>1. QueueInv' /\ \A j \in Kinds : Running(j)' => Holds(ops'[j])
  BY DEF DesktopInv, QueueInv, Running
<1>2. PromisesInv'
  BY DEF DesktopInv, PromisesInv
<1> QED
  BY <1>1, <1>2, StraySame, SameRoomsKeepInv

\* A promise that fails because its process is lost keeps the supervision well
\* typed.
LEMMA LostKept ==
  ASSUME DesktopInv, NEW c \in Launches, Failed(Awaited(c)), Awaited(c) # "nobody"
  PROVE  /\ SupervisionType' /\ (restart = "room" => restart' = "room")
         /\ (boot' = "service" => boot = "service")
<1>1. CASE Awaited(c) = "boot"
  BY <1>1 DEF Failed, QuitNow, DesktopInv, SupervisionType
<1>2. CASE Awaited(c) = "recovery"
  BY <1>2 DEF Awaited, Failed, DesktopInv, SupervisionType
<1> QED
  BY <1>1, <1>2 DEF Awaited

\* The exit of a process keeps DesktopInv.
LEMMA ExitKeepsInv ==
  ASSUME DesktopInv, NEW c \in Launches, Exit(c)
  PROVE  DesktopInv'
<1> DEFINE broken == {k \in Kinds : Waiting(k) /\ ops[k].to = c}
<1>1. /\ proc' = [proc EXCEPT ![c] = "dead"]
      /\ stray' = {request \in stray : request.to # c}
      /\ ops' = [k \in Kinds |-> IF k \in broken
                                 THEN [ops[k] EXCEPT !.reply = "error"] ELSE ops[k]]
      /\ UNCHANGED <<rooms, queue, roomState>>
  BY DEF Exit
<1>2. /\ ops' = [j \in Kinds |-> ops'[j]]
      /\ \A j \in Kinds :
           \/ ops'[j] = ops[j]
           \/ ops[j].step \in Requests /\ ops'[j] = [ops[j] EXCEPT !.reply = "error"]
  BY <1>1 DEF Waiting
<1>3. /\ QueueInv'
      /\ \A j \in Kinds : ops'[j].step = ops[j].step /\ ops'[j].room = ops[j].room
      /\ \A j \in Kinds : Running(j)' => Holds(ops'[j])
  BY <1>1, <1>2, ErrorsKept
<1>4. /\ SupervisionType' /\ (restart = "room" => restart' = "room")
      /\ (boot' = "service" => boot = "service")
  <2>1. CASE proc[c] = "starting" /\ Awaited(c) = "recovery"
    BY <2>1, LostKept DEF Exit
  <2>2. CASE proc[c] = "starting" /\ Awaited(c) = "boot"
    BY <2>2, LostKept DEF Exit
  <2>3. CASE \/ UNCHANGED supervision
             \/ /\ restart = "none" /\ client' = None /\ restart' = "delay"
                /\ reported' = FALSE /\ UNCHANGED <<app, boot>>
    BY <2>3 DEF supervision, DesktopInv, SupervisionType
  <2> QED
    BY <2>1, <2>2, <2>3 DEF Exit
<1>5. PromisesInv'
  BY <1>3, <1>4 DEF DesktopInv, PromisesInv, Kinds
<1>6. ProcType' /\ StrayOK(stray')
  BY <1>1, StraySame DEF DesktopInv, ProcType
<1> QED
  BY <1>1, <1>3, <1>4, <1>5, <1>6, SameRoomsKeepInv

\* A step of the supervisor keeps DesktopInv.
LEMMA SupervisorKeepsInv ==
  ASSUME DesktopInv, SupervisorStep
  PROVE  DesktopInv'
<1>1. ASSUME NEW c \in Launches, NotInitialized(c)
      PROVE  DesktopInv'
  <2>1. /\ SupervisionType' /\ (restart = "room" => restart' = "room")
        /\ (boot' = "service" => boot = "service")
    BY <1>1, LostKept DEF NotInitialized, InitializeLost
  <2>2. ProcType'
    BY <1>1 DEF NotInitialized, DesktopInv, ProcType
  <2> QED
    BY <1>1, <2>1, <2>2, SupervisorMovesKeepInv DEF NotInitialized
<1>2. CASE Relaunch
  <2>1. Launched + 1 \in Launches
    BY <1>2, LaunchedNat DEF Relaunch
  <2>2. ProcType' /\ SupervisionType'
    BY <1>2, <2>1 DEF Relaunch, DesktopInv, ProcType, SupervisionType
  <2> QED
    BY <1>2, <2>2, SupervisorMovesKeepInv DEF Relaunch
<1>3. CASE PageLoaded \/ PageNotLoaded
  <2>1. ProcType' /\ SupervisionType'
    BY <1>3 DEF PageLoaded, PageNotLoaded, QuitNow, Failed, service, DesktopInv, ProcType,
                SupervisionType
  <2> QED
    BY <1>3, <2>1, SupervisorMovesKeepInv DEF PageLoaded, PageNotLoaded, Failed, service
<1>4. CASE Quit
  <2>1. ProcType' /\ SupervisionType'
    BY <1>4 DEF Quit, QuitNow, service, DesktopInv, ProcType, SupervisionType
  <2> QED
    BY <1>4, <2>1, SupervisorMovesKeepInv DEF Quit, service
<1>5. CASE Quitted
  <2>1. ProcType' /\ SupervisionType'
    BY <1>5 DEF Quitted, service, DesktopInv, ProcType, SupervisionType
  <2> QED
    BY <1>5, <2>1, SupervisorMovesKeepInv DEF Quitted, service
<1> QED
  BY <1>1, <1>2, <1>3, <1>4, <1>5, InitializedKeepsInv, ExitKeepsInv DEF SupervisorStep

-----------------------------------------------------------------------------
(* Theorems.                                                                *)

\* The initial states satisfy DesktopInv.
LEMMA DesktopInvInit == Init => DesktopInv
<1> SUFFICES ASSUME Init PROVE DesktopInv
  OBVIOUS
<1>1. PICK saved \in {None, 1} : \E state \in {"active", "gone"} :
        /\ vault = saved
        /\ rooms = [r \in Rooms |-> IF r = saved THEN state ELSE "none"]
  BY DEF Init
<1>2. PICK state \in {"active", "gone"} :
        /\ vault = saved
        /\ rooms = [r \in Rooms |-> IF r = saved THEN state ELSE "none"]
  BY <1>1
<1>3. \A r \in Rooms : rooms[r] # "none" <=> r <= saved
  BY <1>2 DEF Rooms, None
<1>4. 1 \in Rooms /\ 1 \in Launches /\ saved \in 0 .. MaxRooms
  BY DesktopBounds DEF Rooms, Launches, None
<1>5. rooms \in [Rooms -> {"none", "active", "gone"}]
  BY <1>2
<1>6. RoomsInv
  BY <1>2, <1>3, <1>4, <1>5 DEF Init, RoomsInv, Known, None
<1>7. NoOp \in Op /\ NoOp.step = "idle" /\ NoOp.reply = "none"
  BY DEF NoOp, Op
<1>8. QueueInv /\ \A k \in Kinds : ~ Running(k)
  BY <1>7 DEF Init, QueueInv, Running
<1>9. ProcType /\ SupervisionType /\ PromisesInv /\ RoomsNeverMixed
  BY <1>4, <1>7 DEF Init, ProcType, SupervisionType, PromisesInv, RoomsNeverMixed, Kinds
<1> QED
  BY <1>6, <1>8, <1>9 DEF DesktopInv

\* Every step keeps DesktopInv, and the active room never goes back.
LEMMA DesktopInvStep ==
  DesktopInv /\ [Next]_vars => DesktopInv' /\ (active' # active => active' >= active)
<1> SUFFICES ASSUME DesktopInv, [Next]_vars
             PROVE  DesktopInv' /\ (active' # active => active' >= active)
  OBVIOUS
<1>1. CASE UNCHANGED vars
  <2>1. UNCHANGED <<rooms, proc, stray, client, app, boot, restart, reported, queue,
                    ops, encryption, active, vault, cookies>>
    BY <1>1 DEF vars, service, supervision, roomState
  <2> QED
    BY <2>1, RoomsMoveKeepsInv DEF DesktopInv, RoomsInv, Known, supervision, roomState
<1>2. CASE ServiceStep
  <2>1. active' = active
    BY <1>2 DEF ServiceStep, Serve, Refuse, ServeStray, Expire, roomState
  <2> QED
    BY <1>2, <2>1, ServiceKeepsInv
<1>3. CASE SupervisorStep
  <2>1. active' = active
    BY <1>3 DEF SupervisorStep, Initialized, NotInitialized, Exit, Relaunch, PageLoaded,
                PageNotLoaded, Quit, Quitted, roomState
  <2> QED
    BY <1>3, <2>1, SupervisorKeepsInv
<1>4. ASSUME NEW k \in Kinds, Enter(k)
      PROVE  DesktopInv' /\ active' = active
  BY <1>4, EnterKeepsInv DEF Enter, roomState
<1> QED
  BY <1>1, <1>2, <1>3, <1>4, MainStepKeepsInv DEF Next

\* DesktopInv holds in every reachable state.
THEOREM DesktopInvHolds == Spec => []DesktopInv
<1>1. DesktopInv /\ [Next]_vars => DesktopInv'
  BY DesktopInvStep
<1> QED
  BY <1>1, DesktopInvInit, PTL DEF Spec

\* Every variable keeps its type, in particular the bounded rooms and launches.
THEOREM TypeCorrect == Spec => []TypeOK
<1>1. DesktopInv => TypeOK
  BY DEF DesktopInv, ProcType, SupervisionType, RoomsInv, QueueInv, TypeOK, Known
<1> QED
  BY <1>1, DesktopInvHolds, PTL

\* The vault, where it can be written, the ticket cookie and the QR code name one
\* room, or the next one between two steps of its activation, whichever request
\* fails, times out or is served late (activateRoom).
THEOREM OneRoomIsNamed == Spec => []RoomsNeverMixed
<1>1. DesktopInv => RoomsNeverMixed
  BY DEF DesktopInv
<1> QED
  BY <1>1, DesktopInvHolds, PTL

\* The active room is only replaced by one made later (enqueueRoomLifecycle).
THEOREM NoWayBack == Spec => NeverBackToALeftRoom
<1>1. DesktopInv /\ [Next]_vars => [active' >= active]_active
  BY DesktopInvStep
<1> QED
  BY <1>1, DesktopInvHolds, PTL DEF Spec, NeverBackToALeftRoom

=============================================================================
