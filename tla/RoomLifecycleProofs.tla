------------------------ MODULE RoomLifecycleProofs ------------------------
(* Proofs about the life of a room, for every value of its constants.       *)
EXTENDS RoomLifecycle, FiniteSetTheorems, FunctionTheorems, TLAPS

-----------------------------------------------------------------------------
(* Records.                                                                 *)

\* Copies of the room stay room records whatever is done to them.
LEMMA RoomUpdates ==
  ASSUME NEW c \in Room, now \in Nat
  PROVE  /\ Touched(c) \in Room
         /\ Numbered(c) \in Room
         /\ \A st \in {"closed", "expired", "gone"} : [c EXCEPT !.status = st] \in Room
BY LifecycleBounds DEF Room, Touched, Numbered, Lesser

\* The initial records are well typed.
LEMMA InitialRecords == FirstRoom \in Room /\ NoJob \in Job /\ AnyItem \in Items
BY LifecycleBounds DEF FirstRoom, NoJob, AnyItem, Room, Job, Lesser

\* Publishing a copy of the room keeps the table and the log well typed.
LEMMA PublishType ==
  ASSUME TypeOK, NEW c \in Room, Publish(c)
  PROVE  room' \in Room /\ log' \subseteq Nat
<1>0. now \in Nat
  BY LifecycleBounds DEF TypeOK
<1>1. Numbered(c) \in Room
  BY <1>0, RoomUpdates
<1>2. c.event + 1 \in Nat
  BY DEF Room
<1>3. room' \in Room
  BY <1>1 DEF TypeOK, Publish, Updated
<1>4. log' \subseteq Nat
  BY <1>2 DEF TypeOK, Publish, Trimmed
<1> QED
  BY <1>3, <1>4

\* A request that returns leaves well typed control state.
LEMMA ReturnType ==
  ASSUME TypeOK, NEW h \in Handlers, Return(h)
  PROVE  pc' \in [Handlers -> PCs] /\ job' \in [Handlers -> Job]
BY InitialRecords DEF TypeOK, Return, PCs

\* A request that goes on to a known place keeps the control state well typed.
LEMMA GotoType ==
  ASSUME TypeOK, NEW h \in Handlers, NEW label \in PCs, Goto(h, label)
  PROVE  pc' \in [Handlers -> PCs] /\ job' \in [Handlers -> Job]
BY DEF TypeOK, Goto

\* A request that adds files names files nobody has named, and has counted them.
LEMMA AddBegins ==
  ASSUME NEW h \in Handlers, BeginAdd(h)
  PROVE  \E batch \in SUBSET Unused, label \in {"register", "hash"} :
           WithinLimits(Cardinality(batch)) /\ Authorize(h, label, AnyItem, batch, FALSE)
BY DEF BeginAdd, OneOfEachSize

\* What a list that is inserted does to the rows, the log and the room: as far as it
\* gets, its files get rows, and the room is written back with a later event.
LEMMA InsertEffect ==
  ASSUME TypeOK, NEW h \in Handlers, InsertItems(h)
  PROVE  /\ room.status # "gone"
         /\ room' \in Room /\ log' \subseteq Nat /\ rows' \in [Items -> ItemState]
         /\ room'.status = job[h].copy.status /\ room'.expires = job[h].copy.expires
         /\ \A i \in Items : \/ rows'[i] = rows[i]
                             \/ i \in job[h].batch /\ rows'[i] \in {"source", "pending"}
<1>1. PICK added \in OneOfEachSize(job[h].batch) :
        LET last == job[h].copy.event + Cardinality(added) IN
        /\ rows' = [i \in Items |-> IF i \notin added THEN rows[i]
                                   ELSE IF pc[h] = "hash" THEN "source" ELSE "pending"]
        /\ room' = [job[h].copy EXCEPT !.event = last]
        /\ log' = Trimmed(log \union (job[h].copy.event + 1 .. last))
  BY DEF InsertItems
<1>2. added \subseteq job[h].batch
  BY DEF OneOfEachSize
<1>3. job[h].batch \subseteq Items /\ job[h].copy \in Room /\ log \subseteq Nat
  BY DEF TypeOK, Job
<1>4. Cardinality(added) \in Nat
  BY <1>2, <1>3, FS_Subset, FS_CardinalityType, LifecycleBounds
<1>5. /\ room' \in Room
      /\ room'.status = job[h].copy.status /\ room'.expires = job[h].copy.expires
  BY <1>1, <1>3, <1>4 DEF Room
<1>6. log' \subseteq Nat
  BY <1>1, <1>3, <1>4 DEF Room, Trimmed
<1>7. rows' \in [Items -> ItemState]
  BY <1>1 DEF TypeOK, ItemState
<1>8. \A i \in Items : \/ rows'[i] = rows[i]
                       \/ i \in job[h].batch /\ rows'[i] \in {"source", "pending"}
  <2>1. \A i \in Items : rows'[i] = IF i \notin added THEN rows[i]
                                    ELSE IF pc[h] = "hash" THEN "source" ELSE "pending"
    BY <1>1
  <2> QED
    BY <1>2, <2>1
<1> QED
  BY <1>5, <1>6, <1>7, <1>8 DEF InsertItems

-----------------------------------------------------------------------------
(* Type correctness.                                                        *)

\* The new room is well typed.
LEMMA TypeInit == Init => TypeOK
<1> SUFFICES ASSUME Init
             PROVE  TypeOK
  OBVIOUS
<1>1. now \in 0 .. MaxTime /\ lastActive \in 0 .. MaxTime
  BY LifecycleBounds DEF Init
<1>2. budget \in [requests : 0 .. MaxRequests, crashes : 0 .. MaxCrashes]
  BY LifecycleBounds DEF Init
<1>3. ender \in [Enders -> [working : BOOLEAN, left : SUBSET Items]]
  BY DEF Init, NoEnder
<1>4. pc \in [Handlers -> PCs] /\ rows \in [Items -> ItemState]
  BY DEF Init, PCs, ItemState
<1>5. room \in Room /\ job \in [Handlers -> Job]
  BY InitialRecords DEF Init
<1>6. log \subseteq Nat /\ files \subseteq Items
  BY DEF Init
<1>7. overlapped \in BOOLEAN /\ stuck \in BOOLEAN
  BY DEF Init
<1> QED
  BY <1>1, <1>2, <1>3, <1>4, <1>5, <1>6, <1>7 DEF TypeOK

\* An authorized request stores a well typed copy.
LEMMA TypeAuthorize ==
  ASSUME TypeOK, NEW h \in Handlers, NEW label \in PCs, NEW i \in Items,
         NEW batch \in SUBSET Items, NEW b \in BOOLEAN, Authorize(h, label, i, batch, b)
  PROVE  TypeOK'
<1>1. now \in Nat /\ room \in Room
  BY LifecycleBounds DEF TypeOK
<1>2. Touched(room) \in Room
  BY <1>1, RoomUpdates
<1>3. [copy |-> Touched(room), item |-> i, batch |-> batch, begun |-> now, bound |-> b,
       aborted |-> FALSE] \in Job
  BY <1>1, <1>2 DEF Job
<1>4. job' \in [Handlers -> Job] /\ pc' \in [Handlers -> PCs]
  BY <1>3 DEF Authorize, TypeOK
<1>5. budget' \in [requests : 0 .. MaxRequests, crashes : 0 .. MaxCrashes]
  BY LifecycleBounds DEF Authorize, TypeOK
<1> QED
  BY <1>2, <1>4, <1>5 DEF Authorize, TypeOK

\* The first steps of all requests.
LEMMA TypeBegin ==
  ASSUME TypeOK, NEW h \in Handlers,
         \/ BeginAdd(h)
         \/ \E i \in Items : BeginUpload(h, i) \/ BeginCancel(h, i)
  PROVE  TypeOK'
<1>0. {"register", "hash", "create", "stat", "remove", "record"} \subseteq PCs
  BY DEF PCs, Uploads
<1>1. CASE BeginAdd(h)
  <2>1. PICK batch \in SUBSET Unused, label \in {"register", "hash"} :
          Authorize(h, label, AnyItem, batch, FALSE)
    BY <1>1, AddBegins
  <2>2. batch \in SUBSET Items /\ AnyItem \in Items
    BY InitialRecords DEF Unused
  <2> QED
    BY <1>0, <2>1, <2>2, TypeAuthorize
<1>2. ASSUME NEW i \in Items, BeginUpload(h, i)
      PROVE  TypeOK'
  BY <1>0, <1>2, TypeAuthorize DEF BeginUpload
<1>3. ASSUME NEW i \in Items, BeginCancel(h, i)
      PROVE  TypeOK'
  BY <1>0, <1>3, TypeAuthorize DEF BeginCancel
<1> QED
  BY <1>1, <1>2, <1>3

\* The later steps of all requests.
LEMMA TypeHandler ==
  ASSUME TypeOK, NEW h \in Handlers, HandlerStep(h)
  PROVE  TypeOK'
<1> DEFINE copy == job[h].copy
<1>. now \in Nat /\ copy \in Room
  BY LifecycleBounds DEF TypeOK, Job
<1>. Touched(copy) \in Room
  BY RoomUpdates
<1>0. /\ job[h] \in Job /\ job[h].item \in Items /\ copy \in Room
      /\ now \in Nat /\ Touched(copy) \in Room
      /\ {"body", "create", "sync", "commit", "progress", "record"} \subseteq PCs
  BY DEF TypeOK, Job, PCs, Uploads
<1>1. CASE AddNothing(h) \/ InsertItems(h)
  <2>1. pc' \in [Handlers -> PCs] /\ job' \in [Handlers -> Job]
    BY <1>1, ReturnType DEF AddNothing, InsertItems
  <2>2. room' \in Room /\ log' \subseteq Nat /\ rows' \in [Items -> ItemState]
    BY <1>1, InsertEffect DEF AddNothing, TypeOK
  <2> QED
    BY <1>1, <2>1, <2>2 DEF AddNothing, InsertItems, TypeOK, ghosts
<1>2. CASE StatPartial(h)
  <2>1. pc' \in [Handlers -> PCs] /\ job' \in [Handlers -> Job]
    <3>1. CASE job[h].item \in files
      <4>1. [job[h] EXCEPT !.bound = TRUE] \in Job
        BY <1>0 DEF Job
      <4>2. pc' = [pc EXCEPT ![h] = "create"] /\ job' = [job EXCEPT ![h].bound = TRUE]
        BY <1>2, <3>1 DEF StatPartial
      <4> QED
        BY <1>0, <4>1, <4>2 DEF TypeOK
    <3>2. CASE job[h].item \notin files
      BY <1>2, <3>2, ReturnType DEF StatPartial
    <3> QED
      BY <3>1, <3>2
  <2> QED
    BY <1>2, <2>1 DEF StatPartial, TypeOK, ghosts
<1>3. CASE CreatePartial(h)
  <2>1. pc' \in [Handlers -> PCs] /\ job' \in [Handlers -> Job]
    BY <1>0, <1>3, GotoType DEF CreatePartial
  <2> QED
    BY <1>0, <1>3, <2>1 DEF CreatePartial, TypeOK, ghosts
<1>4. CASE ReceiveBody(h)
  <2>1. pc' \in [Handlers -> PCs] /\ job' \in [Handlers -> Job]
    BY <1>0, <1>4, GotoType, ReturnType DEF ReceiveBody
  <2> QED
    BY <1>4, <2>1 DEF ReceiveBody, TypeOK, ghosts
<1>5. CASE SyncPartial(h)
  <2>1. pc' \in [Handlers -> PCs] /\ job' \in [Handlers -> Job]
    BY <1>0, <1>5, GotoType, ReturnType DEF SyncPartial
  <2> QED
    BY <1>5, <2>1 DEF SyncPartial, TypeOK, ghosts
<1>6. CASE CommitCheckpoint(h)
  <2>1. pc' \in [Handlers -> PCs] /\ job' \in [Handlers -> Job]
    BY <1>0, <1>6, GotoType, ReturnType DEF CommitCheckpoint
  <2>2. rows' \in [Items -> ItemState]
    BY <1>0, <1>6 DEF CommitCheckpoint, TypeOK, ItemState
  <2> QED
    BY <1>6, <2>1, <2>2 DEF CommitCheckpoint, TypeOK, ghosts
<1>7. CASE PublishProgress(h)
  <2>1. room' \in Room /\ log' \subseteq Nat
    BY <1>0, <1>7, PublishType DEF PublishProgress
  <2>2. pc' \in [Handlers -> PCs] /\ job' \in [Handlers -> Job]
    BY <1>7, ReturnType DEF PublishProgress
  <2> QED
    BY <1>7, <2>1, <2>2 DEF PublishProgress, TypeOK, ghosts
<1>8. CASE RemovePartial(h)
  <2>1. pc' \in [Handlers -> PCs] /\ job' \in [Handlers -> Job]
    BY <1>0, <1>8, GotoType DEF RemovePartial
  <2> QED
    BY <1>8, <2>1 DEF RemovePartial, TypeOK, ghosts
<1>9. CASE RecordCancelled(h)
  <2>1. room' \in Room /\ log' \subseteq Nat
    BY <1>0, <1>9, PublishType DEF RecordCancelled
  <2>2. pc' \in [Handlers -> PCs] /\ job' \in [Handlers -> Job]
    BY <1>9, ReturnType DEF RecordCancelled
  <2>3. rows' \in [Items -> ItemState]
    BY <1>0, <1>9 DEF RecordCancelled, TypeOK, ItemState
  <2> QED
    BY <1>9, <2>1, <2>2, <2>3 DEF RecordCancelled, TypeOK, ghosts
<1> QED
  BY <1>1, <1>2, <1>3, <1>4, <1>5, <1>6, <1>7, <1>8, <1>9 DEF HandlerStep

\* Reset, sweep and their removals.
LEMMA TypeEnd ==
  ASSUME TypeOK, NEW e \in Enders, NEW marked \in Room, End(e, marked),
         lastActive' \in {lastActive, now}
  PROVE  TypeOK'
<1>1. lastActive' \in 0 .. MaxTime
  BY DEF TypeOK
<1>2. room' \in Room /\ log' \subseteq Nat
  BY PublishType DEF End
<1>3. Partials \subseteq Items
  BY DEF Partials
<1>4. CASE Appendable(marked.event + 1)
  <2>1. ender' = [ender EXCEPT ![e] = [working |-> TRUE, left |-> Partials]]
    BY <1>4 DEF End
  <2>2. ender' \in [Enders -> [working : BOOLEAN, left : SUBSET Items]]
    BY <1>3, <2>1 DEF TypeOK
  <2>3. job' = [h \in Handlers |-> [job[h] EXCEPT !.aborted = @ \/ job[h].bound,
                                                  !.bound = FALSE]]
    BY <1>4 DEF End
  <2>4. \A h \in Handlers :
          [job[h] EXCEPT !.aborted = @ \/ job[h].bound, !.bound = FALSE] \in Job
    BY DEF TypeOK, Job
  <2>5. job' \in [Handlers -> Job]
    BY <2>3, <2>4
  <2>6. overlapped' \in BOOLEAN /\ stuck' \in BOOLEAN
    BY <1>4 DEF End, TypeOK
  <2> QED
    BY <1>1, <1>2, <2>2, <2>5, <2>6 DEF End, TypeOK
<1>5. CASE ~ Appendable(marked.event + 1)
  BY <1>1, <1>2, <1>5 DEF End, TypeOK
<1> QED
  BY <1>4, <1>5

\* The remaining steps.
LEMMA TypeRest ==
  ASSUME TypeOK,
         \/ Read \/ Resume \/ Tick \/ Crash
         \/ \E e \in Enders : Finishing(e) \/ RemoveFails(e)
  PROVE  TypeOK'
<1>. now \in Nat /\ room \in Room
  BY LifecycleBounds DEF TypeOK
<1>0. Touched(room) \in Room
  BY RoomUpdates
<1>1. CASE Read
  <2>1. budget' \in [requests : 0 .. MaxRequests, crashes : 0 .. MaxCrashes]
    BY <1>1, LifecycleBounds DEF Read, TypeOK
  <2> QED
    BY <1>0, <1>1, <2>1 DEF Read, TypeOK, request
<1>2. CASE Resume
  <2>1. budget' \in [requests : 0 .. MaxRequests, crashes : 0 .. MaxCrashes]
    BY <1>2, LifecycleBounds DEF Resume, TypeOK
  <2>2. \A h \in Handlers : [job[h] EXCEPT !.bound = FALSE] \in Job
    BY DEF TypeOK, Job
  <2>3. job' \in [Handlers -> Job]
    BY <1>2, <2>2 DEF Resume
  <2> QED
    BY <1>0, <1>2, <2>1, <2>3 DEF Resume, TypeOK
<1>3. CASE Tick
  BY <1>3, LifecycleBounds DEF Tick, TypeOK, request, ghosts
<1>4. CASE Crash
  <2>1. budget' \in [requests : 0 .. MaxRequests, crashes : 0 .. MaxCrashes]
    BY <1>4, LifecycleBounds DEF Crash, TypeOK
  <2>2. job' \in [Handlers -> Job] /\ pc' \in [Handlers -> PCs]
    BY <1>4, InitialRecords DEF Crash, PCs
  <2>3. ender' \in [Enders -> [working : BOOLEAN, left : SUBSET Items]]
    BY <1>4 DEF Crash, NoEnder
  <2>4. stuck' \in BOOLEAN
    BY <1>4 DEF Crash
  <2> QED
    BY <1>4, <2>1, <2>2, <2>3, <2>4 DEF Crash, TypeOK
<1>5. ASSUME NEW e \in Enders, DropRoom(e)
      PROVE  TypeOK'
  <2>1. room' \in Room
    BY <1>0, <1>5, RoomUpdates DEF DropRoom
  <2>2. \A h \in Handlers : [job[h] EXCEPT !.bound = FALSE] \in Job
    BY DEF TypeOK, Job
  <2>3. job' \in [Handlers -> Job]
    BY <1>5, <2>2 DEF DropRoom
  <2>4. rows' \in [Items -> ItemState] /\ log' \subseteq Nat
    BY <1>5 DEF DropRoom, ItemState
  <2>5. ender' \in [Enders -> [working : BOOLEAN, left : SUBSET Items]]
    BY <1>5 DEF DropRoom, NoEnder, TypeOK
  <2> QED
    BY <1>5, <2>1, <2>3, <2>4, <2>5 DEF DropRoom, TypeOK, ghosts
<1>6. ASSUME NEW e \in Enders, NEW i \in Items, RemoveFile(e, i)
      PROVE  TypeOK'
  <2>1. ender' = [ender EXCEPT ![e] = [ender[e] EXCEPT !.left = ender[e].left \ {i}]]
    BY <1>6 DEF RemoveFile
  <2>2. [ender[e] EXCEPT !.left = ender[e].left \ {i}] \in
          [working : BOOLEAN, left : SUBSET Items]
    BY DEF TypeOK
  <2>3. ender' \in [Enders -> [working : BOOLEAN, left : SUBSET Items]]
    BY <2>1, <2>2 DEF TypeOK
  <2>4. files' \subseteq Items
    BY <1>6 DEF RemoveFile, TypeOK
  <2> QED
    BY <1>6, <2>3, <2>4 DEF RemoveFile, TypeOK, request, ghosts
<1>7. ASSUME NEW e \in Enders, RemoveFails(e)
      PROVE  TypeOK'
  BY <1>7 DEF RemoveFails, NoEnder, TypeOK, request
<1> QED
  BY <1>1, <1>2, <1>3, <1>4, <1>5, <1>6, <1>7 DEF Finishing

\* Every step keeps the types.
LEMMA TypeNext == TypeOK /\ [Next]_vars => TypeOK'
<1> SUFFICES ASSUME TypeOK, [Next]_vars
             PROVE  TypeOK'
  OBVIOUS
<1>1. CASE \E h \in Handlers :
             \/ BeginAdd(h)
             \/ \E i \in Items : BeginUpload(h, i) \/ BeginCancel(h, i)
  BY <1>1, TypeBegin
<1>2. CASE \E h \in Handlers : HandlerStep(h)
  BY <1>2, TypeHandler
<1>3. CASE \/ Read \/ Resume \/ Tick \/ Crash
           \/ \E e \in Enders : Finishing(e) \/ RemoveFails(e)
  BY <1>3, TypeRest
<1>4. CASE DeleteRoom
  <2>1. now \in Nat /\ room \in Room
    BY LifecycleBounds DEF TypeOK
  <2>2. Touched(room) \in Room
    BY <2>1, RoomUpdates
  <2>3. [Touched(room) EXCEPT !.status = "closed"] \in Room
    BY <2>1, <2>2, RoomUpdates
  <2> QED
    BY <1>4, <2>3, TypeEnd, LifecycleBounds DEF DeleteRoom
<1>5. CASE \E e \in Enders : SweepExpired(e)
  <2>1. now \in Nat /\ room \in Room
    BY LifecycleBounds DEF TypeOK
  <2>2. [room EXCEPT !.status = "expired"] \in Room
    BY <2>1, RoomUpdates
  <2> QED
    BY <1>5, <2>2, TypeEnd DEF SweepExpired
<1>6. CASE UNCHANGED vars
  BY <1>6 DEF vars, request, ghosts, TypeOK
<1> QED
  BY <1>1, <1>2, <1>3, <1>4, <1>5, <1>6 DEF Next

\* The state of the model always has its type.
THEOREM LifecycleTypes == Spec => []TypeOK
<1>1. Init => TypeOK
  BY TypeInit
<1>2. TypeOK /\ [Next]_vars => TypeOK'
  BY TypeNext
<1> QED
  BY <1>1, <1>2, PTL DEF Spec

-----------------------------------------------------------------------------
(* A room that is gone.                                                     *)

\* Publishing does nothing to a room that is gone.
LEMMA PublishGone ==
  ASSUME room.status = "gone", NEW c, Publish(c)
  PROVE  room' = room /\ log' = log
BY DEF Publish, Updated, Appendable

\* Every step but DropRoom leaves a room that is gone alone.
LEMMA GoneUntouched ==
  ASSUME TypeOK, GoneIsEmpty, room.status = "gone", [Next]_vars
  PROVE  room' = room /\ rows' = rows /\ log' = log
<1>0. ~ Active
  BY DEF Active
<1>1. CASE \E h \in Handlers :
             \/ BeginAdd(h)
             \/ \E i \in Items : BeginUpload(h, i) \/ BeginCancel(h, i)
  BY <1>0, <1>1 DEF BeginAdd, BeginUpload, BeginCancel, Authorize
<1>2. ASSUME NEW h \in Handlers, HandlerStep(h)
      PROVE  room' = room /\ rows' = rows /\ log' = log
  <2>0. job[h].item \in Items
    BY DEF TypeOK, Job
  <2>1. CASE AddNothing(h) \/ InsertItems(h)
    BY <2>1 DEF AddNothing, InsertItems
  <2>2. CASE StatPartial(h) \/ CreatePartial(h) \/ ReceiveBody(h) \/ SyncPartial(h)
             \/ RemovePartial(h)
    BY <2>2 DEF StatPartial, CreatePartial, ReceiveBody, SyncPartial, RemovePartial
  <2>3. CASE CommitCheckpoint(h)
    BY <2>0, <2>3 DEF CommitCheckpoint, Committed, GoneIsEmpty
  <2>4. CASE PublishProgress(h)
    BY <2>4, PublishGone DEF PublishProgress
  <2>5. CASE RecordCancelled(h)
    <3>1. rows' = [rows EXCEPT ![job[h].item] = "none"]
      BY <2>0, <2>5 DEF RecordCancelled, GoneIsEmpty
    <3>2. rows' = rows
      BY <2>0, <3>1 DEF GoneIsEmpty, TypeOK
    <3> QED
      BY <2>5, <3>2, PublishGone DEF RecordCancelled
  <2> QED
    BY <1>2, <2>1, <2>2, <2>3, <2>4, <2>5 DEF HandlerStep
<1>3. CASE Read \/ Resume
  BY <1>0, <1>3 DEF Read, Resume
<1>4. CASE Tick \/ Crash \/ \E e \in Enders : RemoveFails(e)
  BY <1>4 DEF Tick, Crash, RemoveFails
<1>5. CASE DeleteRoom \/ \E e \in Enders : SweepExpired(e)
  BY <1>0, <1>5 DEF DeleteRoom, SweepExpired, Expired
<1>6. ASSUME NEW e \in Enders, Finishing(e)
      PROVE  room' = room /\ rows' = rows /\ log' = log
  <2>1. CASE DropRoom(e)
    <3>1. room' = room
      BY <2>1 DEF DropRoom, TypeOK, Room
    <3>2. rows' = rows /\ log' = log
      BY <2>1 DEF DropRoom, GoneIsEmpty, TypeOK
    <3> QED
      BY <3>1, <3>2
  <2>2. CASE \E i \in Items : RemoveFile(e, i)
    BY <2>2 DEF RemoveFile
  <2> QED
    BY <1>6, <2>1, <2>2 DEF Finishing
<1>7. CASE UNCHANGED vars
  BY <1>7 DEF vars
<1> QED
  BY <1>1, <1>2, <1>3, <1>4, <1>5, <1>6, <1>7 DEF Next

\* Only DropRoom makes a room go.
LEMMA GoneByDrop ==
  ASSUME TypeOK, room.status # "gone", room'.status = "gone", [Next]_vars,
         CopiesActive
  PROVE  \E e \in Enders : DropRoom(e)
<1>1. CASE \E h \in Handlers :
             \/ BeginAdd(h)
             \/ \E i \in Items : BeginUpload(h, i) \/ BeginCancel(h, i)
  BY <1>1 DEF BeginAdd, BeginUpload, BeginCancel, Authorize, Touched, TypeOK, Room
<1>2. ASSUME NEW h \in Handlers, HandlerStep(h)
      PROVE  FALSE
  <2>0. job[h].copy \in Room /\ job[h].copy.status = "active"
    BY DEF TypeOK, Job, CopiesActive
  <2>1. CASE AddNothing(h) \/ InsertItems(h)
    BY <2>0, <2>1, InsertEffect DEF AddNothing
  <2>2. CASE StatPartial(h) \/ CreatePartial(h) \/ ReceiveBody(h) \/ SyncPartial(h)
             \/ RemovePartial(h)
    BY <2>2 DEF StatPartial, CreatePartial, ReceiveBody, SyncPartial, RemovePartial
  <2>3. CASE CommitCheckpoint(h)
    BY <2>3 DEF CommitCheckpoint
  <2>4. CASE PublishProgress(h)
    BY <2>0, <2>4 DEF PublishProgress, Publish, Updated, Numbered, Touched, Room
  <2>5. CASE RecordCancelled(h)
    BY <2>0, <2>5 DEF RecordCancelled, Publish, Updated, Numbered, Room
  <2> QED
    BY <1>2, <2>1, <2>2, <2>3, <2>4, <2>5 DEF HandlerStep
<1>3. CASE Read \/ Resume
  BY <1>3 DEF Read, Resume, Touched, TypeOK, Room
<1>4. CASE Tick \/ Crash \/ \E e \in Enders : RemoveFails(e)
  BY <1>4 DEF Tick, Crash, RemoveFails
<1>5. CASE DeleteRoom \/ \E e \in Enders : SweepExpired(e)
  BY <1>5 DEF DeleteRoom, SweepExpired, End, Publish, Updated, Numbered, Touched, TypeOK, Room
<1>6. CASE \E e \in Enders, i \in Items : RemoveFile(e, i)
  BY <1>6 DEF RemoveFile
<1>7. CASE UNCHANGED vars
  BY <1>7 DEF vars
<1> QED
  BY <1>1, <1>2, <1>3, <1>4, <1>5, <1>6, <1>7 DEF Next, Finishing

-----------------------------------------------------------------------------
(* What a step does to the requests.                                        *)

\* A request returned, or was cut off by a crash.
Returned(g) == pc'[g] = "idle" /\ job'[g] = NoJob

\* A request began at an active room.
Began(g) ==
  /\ pc[g] = "idle"
  /\ Active
  /\ now' = now
  /\ job'[g].copy = Touched(room)
  /\ job'[g].begun = now

\* A request keeps its copy and its items, wherever it goes.
Carried(g) ==
  /\ pc[g] # "idle" \/ pc'[g] = "idle"
  /\ pc'[g] \in {"register", "hash"} => pc[g] = pc'[g]
  /\ pc'[g] = "hash" <=> pc[g] = "hash"
  /\ pc'[g] \in Uploads => pc[g] \in Uploads
  /\ pc'[g] \in Uploads \ {"progress"} => pc[g] \in Uploads \ {"progress"}
  /\ job'[g].copy = job[g].copy
  /\ job'[g].item = job[g].item
  /\ job'[g].batch = job[g].batch
  /\ job'[g].begun = job[g].begun

\* Nothing else happens to a request.
LEMMA RequestSteps ==
  ASSUME TypeOK, [Next]_vars, NEW g \in Handlers
  PROVE  Returned(g) \/ Began(g) \/ Carried(g)
<1>0. job \in [Handlers -> Job] /\ pc \in [Handlers -> PCs]
  BY DEF TypeOK
<1>1. CASE UNCHANGED <<pc, job>>
  BY <1>1 DEF Carried
<1>2. ASSUME NEW h \in Handlers, NEW label \in PCs, NEW i \in Items, NEW batch \in SUBSET Items,
             NEW b \in BOOLEAN, Authorize(h, label, i, batch, b)
      PROVE  Began(g) \/ Carried(g)
  BY <1>0, <1>2 DEF Authorize, Began, Carried
<1>3. CASE \E h \in Handlers :
             \/ BeginAdd(h)
             \/ \E i \in Items : BeginUpload(h, i) \/ BeginCancel(h, i)
  <2>1. {"register", "hash", "create", "stat", "remove", "record"} \subseteq PCs
    BY DEF PCs, Uploads
  <2>2. ASSUME NEW h \in Handlers, BeginAdd(h)
        PROVE  Began(g) \/ Carried(g)
    <3>1. PICK batch \in SUBSET Unused, label \in {"register", "hash"} :
            Authorize(h, label, AnyItem, batch, FALSE)
      BY <2>2, AddBegins
    <3>2. batch \in SUBSET Items /\ AnyItem \in Items
      BY InitialRecords DEF Unused
    <3> QED
      BY <1>2, <2>1, <3>1, <3>2
  <2>3. ASSUME NEW h \in Handlers, NEW i \in Items, BeginUpload(h, i)
        PROVE  Began(g) \/ Carried(g)
    BY <1>2, <2>1, <2>3 DEF BeginUpload
  <2>4. ASSUME NEW h \in Handlers, NEW i \in Items, BeginCancel(h, i)
        PROVE  Began(g) \/ Carried(g)
    BY <1>2, <2>1, <2>4 DEF BeginCancel
  <2> QED
    BY <1>3, <2>2, <2>3, <2>4
<1>4. ASSUME NEW h \in Handlers, HandlerStep(h)
      PROVE  Returned(g) \/ Carried(g)
  <2>1. CASE Return(h)
    BY <1>0, <2>1 DEF Return, Returned, Carried
  <2>2. ASSUME NEW label \in Uploads, pc[h] \in Uploads \ {"progress"}, Goto(h, label)
        PROVE  Carried(g)
    BY <1>0, <2>2 DEF Goto, Carried, Uploads
  <2>3. CASE AddNothing(h) \/ InsertItems(h) \/ PublishProgress(h) \/ RecordCancelled(h)
    BY <2>1, <2>3 DEF AddNothing, InsertItems, PublishProgress, RecordCancelled
  <2>4. CASE StatPartial(h)
    <3>1. CASE job[h].item \in files
      <4>1. pc' = [pc EXCEPT ![h] = "create"] /\ job' = [job EXCEPT ![h].bound = TRUE]
            /\ pc[h] = "stat"
        BY <2>4, <3>1 DEF StatPartial
      <4>2. job[h] \in Job
        BY <1>0
      <4> QED
        BY <1>0, <4>1, <4>2 DEF Carried, Uploads, Job
    <3>2. CASE job[h].item \notin files
      BY <2>1, <2>4, <3>2 DEF StatPartial
    <3> QED
      BY <3>1, <3>2
  <2>5. CASE CreatePartial(h) \/ ReceiveBody(h) \/ SyncPartial(h) \/ CommitCheckpoint(h)
    BY <2>1, <2>2, <2>5 DEF CreatePartial, ReceiveBody, SyncPartial, CommitCheckpoint, Uploads
  <2>6. CASE RemovePartial(h)
    BY <1>0, <2>6 DEF RemovePartial, Goto, Carried, Uploads
  <2> QED
    BY <1>4, <2>3, <2>4, <2>5, <2>6 DEF HandlerStep
<1>5. CASE Crash
  BY <1>5 DEF Crash, Returned
<1>6. ASSUME UNCHANGED pc,
             \A h \in Handlers : /\ job'[h].copy = job[h].copy
                                 /\ job'[h].item = job[h].item
                                 /\ job'[h].batch = job[h].batch
                                 /\ job'[h].begun = job[h].begun
      PROVE  Carried(g)
  BY <1>6 DEF Carried
<1>7. CASE Resume \/ \E e \in Enders : DropRoom(e)
  BY <1>0, <1>6, <1>7 DEF Resume, DropRoom, Job
<1>8. ASSUME NEW e \in Enders, NEW marked, End(e, marked)
      PROVE  Carried(g)
  <2>1. CASE Appendable(marked.event + 1)
    <3>1. job' = [h \in Handlers |-> [job[h] EXCEPT !.aborted = @ \/ job[h].bound,
                                                    !.bound = FALSE]]
      BY <1>8, <2>1 DEF End
    <3>2. \A h \in Handlers : /\ job'[h].copy = job[h].copy
                              /\ job'[h].item = job[h].item
                              /\ job'[h].batch = job[h].batch
                              /\ job'[h].begun = job[h].begun
      BY <1>0, <3>1 DEF Job
    <3> QED
      BY <1>6, <1>8, <3>2 DEF End
  <2>2. CASE ~ Appendable(marked.event + 1)
    <3>1. pc' = pc /\ job' = job
      BY <1>8, <2>2 DEF End
    <3> QED
      BY <3>1 DEF Carried
  <2> QED
    BY <2>1, <2>2
<1>9. CASE \/ Read \/ Tick
           \/ \E e \in Enders : RemoveFails(e) \/ \E i \in Items : RemoveFile(e, i)
  BY <1>1, <1>9 DEF Read, Tick, RemoveFile, RemoveFails, request
<1> QED
  BY <1>1, <1>3, <1>4, <1>5, <1>7, <1>8, <1>9, LifecycleBounds
     DEF Next, Finishing, DeleteRoom, SweepExpired, vars, request

\* A request that starts to receive passed the guard of BeginUpload.
LEMMA UploadBegins ==
  ASSUME TypeOK, [Next]_vars, NEW g \in Handlers,
         pc'[g] \in Uploads, pc[g] \notin Uploads
  PROVE  \E i \in Items : BeginUpload(g, i)
<1>0. pc \in [Handlers -> PCs]
  BY DEF TypeOK
<1>1. CASE pc' = pc
  BY <1>1
<1>2. ASSUME NEW h \in Handlers, BeginAdd(h)
      PROVE  FALSE
  BY <1>0, <1>2, AddBegins DEF Authorize, Uploads
<1>3. ASSUME NEW h \in Handlers, NEW i \in Items, BeginCancel(h, i)
      PROVE  FALSE
  BY <1>0, <1>3 DEF BeginCancel, Authorize, Uploads
<1>4. ASSUME NEW h \in Handlers, NEW i \in Items, BeginUpload(h, i)
      PROVE  g = h
  BY <1>0, <1>4 DEF BeginUpload, Authorize
<1>5. ASSUME NEW h \in Handlers, HandlerStep(h)
      PROVE  FALSE
  <2>1. CASE Return(h)
    BY <1>0, <2>1 DEF Return, Uploads
  <2>2. ASSUME NEW label, pc[h] \in Uploads, Goto(h, label)
        PROVE  FALSE
    BY <1>0, <2>2 DEF Goto
  <2>3. CASE StatPartial(h)
    BY <1>0, <2>1, <2>3 DEF StatPartial, Uploads
  <2>4. CASE RemovePartial(h)
    BY <1>0, <2>4 DEF RemovePartial, Goto, Uploads
  <2>5. CASE CreatePartial(h) \/ ReceiveBody(h) \/ SyncPartial(h) \/ CommitCheckpoint(h)
    BY <2>1, <2>2, <2>5 DEF CreatePartial, ReceiveBody, SyncPartial, CommitCheckpoint, Uploads
  <2>6. CASE AddNothing(h) \/ InsertItems(h) \/ PublishProgress(h) \/ RecordCancelled(h)
    BY <2>1, <2>6 DEF AddNothing, InsertItems, PublishProgress, RecordCancelled
  <2> QED
    BY <1>5, <2>3, <2>4, <2>5, <2>6 DEF HandlerStep
<1>6. CASE Crash
  BY <1>6 DEF Crash, Uploads
<1>7. CASE \/ Read \/ Resume \/ Tick \/ DeleteRoom
           \/ \E e \in Enders : SweepExpired(e) \/ Finishing(e) \/ RemoveFails(e)
  BY <1>1, <1>7 DEF Read, Resume, Tick, DeleteRoom, SweepExpired, Finishing, End, DropRoom,
                    RemoveFile, RemoveFails, request
<1> QED
  BY <1>1, <1>2, <1>3, <1>4, <1>5, <1>6, <1>7 DEF Next, vars, request

\* What a step does to the clock.
LEMMA ClockSteps ==
  ASSUME [Next]_vars
  PROVE  now' = now \/ Tick
<1>1. CASE Next
  <2>1. ASSUME NEW h \in Handlers,
               \/ BeginAdd(h)
               \/ \E i \in Items : BeginUpload(h, i) \/ BeginCancel(h, i)
        PROVE  now' = now
    BY <2>1 DEF BeginAdd, BeginUpload, BeginCancel, Authorize
  <2>2. ASSUME NEW h \in Handlers, HandlerStep(h)
        PROVE  now' = now
    BY <2>2 DEF HandlerStep, AddNothing, InsertItems, StatPartial, CreatePartial, ReceiveBody,
                SyncPartial, CommitCheckpoint, PublishProgress, RemovePartial, RecordCancelled
  <2>3. CASE Read \/ Resume \/ DeleteRoom \/ Crash
             \/ \E e \in Enders : SweepExpired(e) \/ Finishing(e) \/ RemoveFails(e)
    BY <2>3 DEF Read, Resume, DeleteRoom, Crash, SweepExpired, Finishing, End, DropRoom,
                RemoveFile, RemoveFails
  <2> QED
    BY <1>1, <2>1, <2>2, <2>3 DEF Next
<1> QED
  BY <1>1 DEF vars

\* What a step does to the expiry of the room.
LEMMA ExpirySteps ==
  ASSUME TypeOK, [Next]_vars
  PROVE  \/ room'.expires = Lesser(now + TTL, HardTTL) /\ lastActive' \in {lastActive, now}
         \/ room'.expires = room.expires /\ lastActive' = lastActive
         \/ /\ lastActive' = lastActive
            /\ \E h \in Handlers : pc[h] # "idle" /\ room'.expires = job[h].copy.expires
<1> DEFINE Goal == \/ /\ room'.expires = Lesser(now + TTL, HardTTL)
                      /\ lastActive' \in {lastActive, now}
                   \/ room'.expires = room.expires /\ lastActive' = lastActive
                   \/ /\ lastActive' = lastActive
                      /\ \E h \in Handlers : /\ pc[h] # "idle"
                                             /\ room'.expires = job[h].copy.expires
<1>0. room \in Room /\ job \in [Handlers -> Job]
  BY DEF TypeOK
<1>1. CASE room' = Touched(room) /\ lastActive' = now
  BY <1>0, <1>1 DEF Touched, Room
<1>2. ASSUME NEW h \in Handlers,
             \/ BeginAdd(h)
             \/ \E i \in Items : BeginUpload(h, i) \/ BeginCancel(h, i)
      PROVE  Goal
  BY <1>1, <1>2 DEF BeginAdd, BeginUpload, BeginCancel, Authorize
<1>3. CASE Read \/ Resume
  BY <1>1, <1>3 DEF Read, Resume
<1>4. ASSUME NEW h \in Handlers, HandlerStep(h)
      PROVE  Goal
  <2>0. job[h].copy \in Room
    BY <1>0 DEF Job
  <2>1. CASE InsertItems(h)
    <3>1. room'.expires = job[h].copy.expires /\ pc[h] # "idle" /\ lastActive' = lastActive
      BY <2>1, InsertEffect DEF InsertItems, ghosts
    <3> QED
      BY <3>1
  <2>2. CASE RecordCancelled(h)
    BY <2>0, <2>2 DEF RecordCancelled, Publish, Updated, Numbered, Room, ghosts
  <2>3. CASE PublishProgress(h)
    BY <2>0, <2>3 DEF PublishProgress, Publish, Updated, Numbered, Touched, Room, ghosts
  <2>4. CASE \/ AddNothing(h) \/ StatPartial(h) \/ CreatePartial(h) \/ ReceiveBody(h)
             \/ SyncPartial(h) \/ CommitCheckpoint(h) \/ RemovePartial(h)
    BY <2>4 DEF AddNothing, StatPartial, CreatePartial, ReceiveBody, SyncPartial,
                CommitCheckpoint, RemovePartial, ghosts
  <2> QED
    BY <1>4, <2>1, <2>2, <2>3, <2>4 DEF HandlerStep
<1>5. CASE DeleteRoom \/ \E e \in Enders : SweepExpired(e)
  BY <1>0, <1>5 DEF DeleteRoom, SweepExpired, End, Publish, Updated, Numbered, Touched, Active,
                    Expired, Room
<1>6. CASE \/ Tick \/ Crash \/ UNCHANGED vars
           \/ \E e \in Enders : Finishing(e) \/ RemoveFails(e)
  BY <1>0, <1>6 DEF Tick, Crash, Finishing, DropRoom, RemoveFile, RemoveFails, vars, Room,
                    ghosts
<1> QED
  BY <1>2, <1>3, <1>4, <1>5, <1>6 DEF Next

-----------------------------------------------------------------------------
(* The expiry of the room.                                                  *)

\* Copies are of an active room.
LEMMA CopiesStayActive ==
  ASSUME TypeOK, CopiesActive, [Next]_vars
  PROVE  CopiesActive'
<1> SUFFICES ASSUME NEW g \in Handlers
             PROVE  job'[g].copy.status = "active"
  BY DEF CopiesActive
<1>1. CASE Returned(g)
  BY <1>1 DEF Returned, NoJob, FirstRoom
<1>2. CASE Began(g)
  BY <1>2 DEF Began, Active, Touched, TypeOK, Room
<1>3. CASE Carried(g)
  BY <1>3 DEF Carried, CopiesActive
<1> QED
  BY <1>1, <1>2, <1>3, RequestSteps

\* No request outlives its time.
LEMMA CopiesStayYoung ==
  ASSUME TypeOK, CopiesYoung, [Next]_vars
  PROVE  CopiesYoung'
<1>0. /\ now \in Nat /\ now' \in Nat /\ lastActive \in Nat /\ lastActive' \in Nat
      /\ TTL \in Nat /\ HardTTL \in Nat /\ Patience \in Nat /\ HashPatience \in Nat
      /\ \A h \in Handlers : job[h].begun \in Nat
  BY TypeNext, LifecycleBounds DEF TypeOK, Job
<1>1. lastActive' \in {lastActive, now} /\ now <= now'
  BY <1>0, ClockSteps, ExpirySteps DEF Tick
<1>2. ASSUME NEW g \in Handlers, pc'[g] # "idle"
      PROVE  /\ job'[g].begun <= now'
             /\ now' <= job'[g].begun + LongestLife(g)'
             /\ job'[g].copy.expires = Lesser(job'[g].begun + TTL, HardTTL)
  <2>1. CASE Began(g)
    <3>1. LongestLife(g)' \in Nat
      BY <1>0 DEF LongestLife
    <3>2. job'[g].copy.expires = Lesser(now + TTL, HardTTL)
      BY <2>1 DEF Began, Touched, TypeOK, Room
    <3> QED
      BY <1>0, <2>1, <3>1, <3>2 DEF Began
  <2>2. CASE Carried(g)
    <3>1. /\ pc[g] # "idle" /\ LongestLife(g)' = LongestLife(g) /\ LongestLife(g) \in Nat
          /\ job'[g].begun = job[g].begun /\ job'[g].copy = job[g].copy
      BY <1>0, <1>2, <2>2 DEF Carried, LongestLife
    <3>2. /\ job[g].begun <= now
          /\ now <= job[g].begun + LongestLife(g)
          /\ job[g].copy.expires = Lesser(job[g].begun + TTL, HardTTL)
      BY <3>1 DEF CopiesYoung
    <3>3. now' <= job[g].begun + LongestLife(g)
      <4>1. CASE now' = now
        BY <3>2, <4>1
      <4>2. CASE Tick
        <5>1. now < job[g].begun + LongestLife(g) /\ now' = now + 1
          BY <3>1, <4>2 DEF Tick
        <5> QED
          BY <1>0, <3>1, <5>1
      <4> QED
        BY <4>1, <4>2, ClockSteps
    <3> QED
      BY <1>0, <1>1, <3>1, <3>2, <3>3
  <2> QED
    BY <1>2, <2>1, <2>2, RequestSteps DEF Returned
<1> QED
  BY <1>0, <1>1, <1>2 DEF CopiesYoung

\* A room used earlier may expire earlier.
LEMMA EarlierExpiry ==
  ASSUME NEW a \in Nat, NEW b \in Nat, a <= b
  PROVE  Lesser(b + TTL, HardTTL) >= Lesser(a + TTL - Patience, HardTTL)
BY LifecycleBounds DEF Lesser

\* What copies write back is not older than Patience.
LEMMA ExpiryStaysKept ==
  ASSUME TypeOK, CopiesYoung, ExpiryKept, HashPatience <= Patience, [Next]_vars
  PROVE  ExpiryKept'
<1>0. /\ now \in Nat /\ lastActive \in Nat
      /\ TTL \in Nat /\ HardTTL \in Nat /\ Patience \in Nat /\ HashPatience \in Nat
      /\ \A h \in Handlers : job[h].begun \in Nat
      /\ room.expires \in Nat /\ room'.expires \in Nat
  BY TypeNext, LifecycleBounds DEF TypeOK, Job, Room
<1>1. CASE room'.expires = Lesser(now + TTL, HardTTL) /\ lastActive' \in {lastActive, now}
  <2>1. lastActive' <= now /\ lastActive' \in Nat
    BY <1>0, <1>1 DEF CopiesYoung
  <2>2. Lesser(now + TTL, HardTTL) >= Lesser(lastActive' + TTL - Patience, HardTTL)
    BY <1>0, <2>1, EarlierExpiry
  <2> QED
    BY <1>1, <2>2 DEF ExpiryKept
<1>2. CASE room'.expires = room.expires /\ lastActive' = lastActive
  BY <1>2 DEF ExpiryKept, Lesser
<1>3. ASSUME NEW h \in Handlers, pc[h] # "idle", room'.expires = job[h].copy.expires,
             lastActive' = lastActive
      PROVE  ExpiryKept'
  <2>1. /\ now <= job[h].begun + LongestLife(h) /\ lastActive <= now
        /\ job[h].copy.expires = Lesser(job[h].begun + TTL, HardTTL)
    BY <1>3 DEF CopiesYoung
  <2>2. LongestLife(h) <= Patience /\ LongestLife(h) \in Nat
    BY <1>0 DEF LongestLife
  <2>3. lastActive + TTL - Patience <= job[h].begun + TTL
    BY <1>0, <2>1, <2>2
  <2> QED
    BY <1>0, <1>3, <2>1, <2>3 DEF ExpiryKept, Lesser
<1> QED
  BY <1>1, <1>2, <1>3, ExpirySteps

\* A room that is gone has no items and no events.
LEMMA GoneStaysEmpty ==
  ASSUME TypeOK, CopiesActive, GoneIsEmpty, [Next]_vars
  PROVE  GoneIsEmpty'
<1>1. CASE room.status = "gone"
  BY <1>1, GoneUntouched DEF GoneIsEmpty
<1>2. CASE room.status # "gone" /\ room'.status = "gone"
  <2>1. PICK e \in Enders : DropRoom(e)
    BY <1>2, GoneByDrop
  <2> QED
    BY <2>1 DEF DropRoom, GoneIsEmpty
<1>3. CASE room'.status # "gone"
  BY <1>3 DEF GoneIsEmpty
<1> QED
  BY <1>1, <1>2, <1>3

-----------------------------------------------------------------------------
(* The limit on the items.                                                  *)

\* An item is received by one checkpoint at a time.
LEMMA OneUploaderStays ==
  ASSUME TypeOK, OneUploader, [Next]_vars
  PROVE  OneUploader'
<1>0. pc \in [Handlers -> PCs] /\ job \in [Handlers -> Job]
  BY DEF TypeOK
<1>1. ASSUME NEW g \in Handlers, pc'[g] \in Uploads, pc[g] \in Uploads
      PROVE  job'[g].item = job[g].item
  BY <1>1, RequestSteps DEF Returned, Began, Carried, Uploads
<1>2. ASSUME NEW g \in Handlers, pc'[g] \in Uploads, pc[g] \notin Uploads,
             NEW h \in Handlers, h # g, pc'[h] \in Uploads
      PROVE  job'[g].item # job'[h].item
  <2>1. PICK i \in Items : BeginUpload(g, i)
    BY <1>2, UploadBegins
  <2>2. job'[g].item = i /\ job'[h] = job[h] /\ pc'[h] = pc[h]
    BY <1>0, <1>2, <2>1 DEF BeginUpload, Authorize
  <2> QED
    BY <1>2, <2>1, <2>2 DEF BeginUpload
<1> SUFFICES ASSUME NEW g \in Handlers, NEW h \in Handlers, pc'[g] \in Uploads,
                    pc'[h] \in Uploads, job'[g].item = job'[h].item
             PROVE  g = h
  BY DEF OneUploader, Receiving
<1>3. CASE pc[g] \in Uploads /\ pc[h] \in Uploads
  BY <1>1, <1>3 DEF OneUploader, Receiving
<1>4. CASE pc[g] \notin Uploads \/ pc[h] \notin Uploads
  BY <1>2, <1>4
<1> QED
  BY <1>3, <1>4

\* Sets of at most n elements, one for each element of S, have together at most
\* |S| * n elements: each is found in one of them, under a number up to n.
LEMMA UnionBound ==
  ASSUME NEW S, IsFiniteSet(S), NEW n \in Nat, NEW f,
         \A x \in S : IsFiniteSet(f[x]) /\ Cardinality(f[x]) <= n
  PROVE  /\ IsFiniteSet(UNION {f[x] : x \in S})
         /\ Cardinality(UNION {f[x] : x \in S}) <= n * Cardinality(S)
<1> DEFINE U == UNION {f[x] : x \in S}
           home == [u \in U |-> CHOOSE x \in S : u \in f[x]]
           num == [x \in S |-> CHOOSE b : b \in Bijection(f[x], 1 .. Cardinality(f[x]))]
           place == [u \in U |-> <<home[u], num[home[u]][u]>>]
<1>1. ASSUME NEW x \in S
      PROVE  /\ num[x] \in [f[x] -> 1 .. n]
             /\ \A u, v \in f[x] : num[x][u] = num[x][v] => u = v
  <2>1. IsFiniteSet(f[x]) /\ Cardinality(f[x]) <= n /\ Cardinality(f[x]) \in Nat
    BY FS_CardinalityType
  <2>2. ExistsBijection(f[x], 1 .. Cardinality(f[x]))
    <3>1. ExistsBijection(1 .. Cardinality(f[x]), f[x])
      BY <2>1, FS_CardinalityType
    <3> QED
      BY <3>1, Fun_ExistsBijSymmetric
  <2>3. num[x] \in Bijection(f[x], 1 .. Cardinality(f[x]))
    BY <2>2 DEF ExistsBijection
  <2>4. /\ num[x] \in [f[x] -> 1 .. Cardinality(f[x])]
        /\ \A u, v \in f[x] : num[x][u] = num[x][v] => u = v
    BY <2>3 DEF Bijection, Injection, IsInjective
  <2>5. 1 .. Cardinality(f[x]) \subseteq 1 .. n
    BY <2>1
  <2> QED
    BY <2>4, <2>5
<1>2. \A u \in U : home[u] \in S /\ u \in f[home[u]]
  OBVIOUS
<1> HIDE DEF U, home, num
<1>3. place \in [U -> S \X (1 .. n)]
  <2>1. \A u \in U : num[home[u]][u] \in 1 .. n
    BY <1>1, <1>2
  <2> QED
    BY <1>2, <2>1
<1>4. ASSUME NEW u \in U, NEW v \in U, place[u] = place[v]
      PROVE  u = v
  <2>1. place[u] = <<home[u], num[home[u]][u]>> /\ place[v] = <<home[v], num[home[v]][v]>>
    OBVIOUS
  <2>2. home[u] = home[v] /\ num[home[u]][u] = num[home[v]][v]
    BY <1>4, <2>1
  <2> QED
    BY <1>1, <1>2, <2>2
<1>5. place \in Injection(U, S \X (1 .. n))
  BY <1>3, <1>4 DEF Injection, IsInjective
<1>6. IsFiniteSet(1 .. n) /\ Cardinality(1 .. n) = n
  BY FS_Interval
<1>7. IsFiniteSet(S \X (1 .. n)) /\ Cardinality(S \X (1 .. n)) = Cardinality(S) * n
  BY <1>6, FS_Product
<1>8. IsFiniteSet(U) /\ Cardinality(U) <= Cardinality(S) * n
  BY <1>5, <1>7, FS_Injection
<1>9. Cardinality(S) * n = n * Cardinality(S)
  BY FS_CardinalityType
<1> QED
  BY <1>8, <1>9 DEF U

\* Everything the limit counts is an item.
LEMMA LimitFinite ==
  ASSUME TypeOK
  PROVE  /\ Live \subseteq Items /\ Claimed \subseteq Items
         /\ \A h \in Handlers : Claims(h) \subseteq Items
         /\ \A S \in SUBSET Items : IsFiniteSet(S) /\ Cardinality(S) \in Nat
<1>1. \A h \in Handlers : Claims(h) \subseteq Items
  BY DEF Claims, TypeOK, Job
<1>2. \A S \in SUBSET Items : IsFiniteSet(S) /\ Cardinality(S) \in Nat
  BY FS_Subset, FS_CardinalityType, LifecycleBounds
<1> QED
  BY <1>1, <1>2 DEF Live, Claimed

\* A step that makes nothing live or claimed that was neither keeps the limit, when
\* no request claims more than it did, or more than one item.
LEMMA LimitShrinks ==
  ASSUME TypeOK, TypeOK', LimitShared,
         Live' \subseteq Live \union Claimed,
         \A h \in Handlers :
           Claims(h)' \subseteq Claims(h) \/ \E i \in Live : Claims(h)' = {i}
  PROVE  LimitShared'
<1>1. ASSUME NEW h \in Handlers
      PROVE  /\ Claims(h)' \subseteq Live \union Claimed
             /\ Cardinality(Claims(h)') <= MaxFiles
  <2>1. CASE Claims(h)' \subseteq Claims(h)
    <3>1. IsFiniteSet(Claims(h)) /\ Cardinality(Claims(h)) \in Nat
      BY LimitFinite
    <3>2. Cardinality(Claims(h)') <= Cardinality(Claims(h)) /\ IsFiniteSet(Claims(h)')
      BY <2>1, <3>1, FS_Subset
    <3>3. Cardinality(Claims(h)') \in Nat
      BY <3>2, FS_CardinalityType
    <3> QED
      BY <2>1, <3>1, <3>2, <3>3, LifecycleBounds DEF LimitShared, Claimed
  <2>2. CASE \E i \in Live : Claims(h)' = {i}
    <3>1. PICK i \in Live : Claims(h)' = {i}
      BY <2>2
    <3>2. Cardinality(Claims(h)') = 1
      BY <3>1, FS_Singleton
    <3>3. 1 <= MaxFiles
      BY LifecycleBounds
    <3> QED
      BY <3>1, <3>2, <3>3
  <2> QED
    BY <1>1, <2>1, <2>2
<1>2. (Live \union Claimed)' \subseteq Live \union Claimed
  BY <1>1 DEF Claimed
<1>3. /\ IsFiniteSet(Live \union Claimed) /\ Cardinality(Live \union Claimed) \in Nat
      /\ Cardinality(Handlers) \in Nat
  BY LimitFinite, FS_CardinalityType, LifecycleBounds
<1>4. /\ IsFiniteSet((Live \union Claimed)')
      /\ Cardinality((Live \union Claimed)') <= Cardinality(Live \union Claimed)
  BY <1>2, <1>3, FS_Subset
<1>5. Cardinality((Live \union Claimed)') \in Nat
  BY <1>4, FS_CardinalityType
<1>6. Cardinality((Live \union Claimed)') <= MaxFiles * Cardinality(Handlers)
  <2>1. MaxFiles * Cardinality(Handlers) \in Nat
    BY <1>3, LifecycleBounds
  <2> QED
    BY <1>3, <1>4, <1>5, <2>1 DEF LimitShared
<1> QED
  BY <1>1, <1>6 DEF LimitShared

\* Requests that keep their place and their items, or return, claim nothing new.
LEMMA ClaimsKept ==
  ASSUME rows' = rows, NEW g \in Handlers, Returned(g) \/ Carried(g)
  PROVE  Claims(g)' \subseteq Claims(g)
BY DEF Claims, Receiving, Returned, Carried, Uploads

\* First steps: a list that was counted is within the limit with the live items, the
\* others claim nothing.
LEMMA LimitBegin ==
  ASSUME TypeOK, TypeOK', LimitShared, NEW h \in Handlers,
         \/ BeginAdd(h)
         \/ \E i \in Items : BeginUpload(h, i) \/ BeginCancel(h, i)
  PROVE  LimitShared'
<1>0. pc \in [Handlers -> PCs] /\ job \in [Handlers -> Job]
  BY DEF TypeOK
<1>1. CASE BeginAdd(h)
  <2>1. PICK batch \in SUBSET Unused, label \in {"register", "hash"} :
          WithinLimits(Cardinality(batch)) /\ Authorize(h, label, AnyItem, batch, FALSE)
    BY <1>1, AddBegins
  <2>2. /\ rows' = rows /\ Live' = Live
        /\ pc' = [pc EXCEPT ![h] = label] /\ job'[h].batch = batch
        /\ \A g \in Handlers : g # h => pc'[g] = pc[g] /\ job'[g] = job[g]
    BY <1>0, <2>1 DEF Authorize, Live
  <2>3. Claims(h)' = batch
    BY <1>0, <2>2 DEF Claims
  <2>4. \A g \in Handlers : g # h => Claims(g)' = Claims(g)
    BY <2>2 DEF Claims, Receiving
  <2>5. /\ batch \in SUBSET Items
        /\ Cardinality(batch) \in Nat /\ Cardinality(Live) \in Nat
        /\ IsFiniteSet(batch) /\ IsFiniteSet(Live)
    BY LimitFinite DEF Unused
  <2>6. Cardinality(Live) + Cardinality(batch) <= MaxFiles
    BY <2>1 DEF WithinLimits
  <2>7. /\ IsFiniteSet(Live \union batch)
        /\ Cardinality(Live \union batch) <= MaxFiles
    <3>1. /\ IsFiniteSet(Live \union batch)
          /\ Cardinality(Live \union batch)
               = Cardinality(Live) + Cardinality(batch) - Cardinality(Live \intersect batch)
      BY <2>5, FS_Union
    <3>2. Cardinality(Live \intersect batch) \in Nat
      BY <2>5, LimitFinite
    <3>3. Cardinality(Live \union batch) \in Nat
      BY <3>1, FS_CardinalityType
    <3> QED
      BY <2>5, <2>6, <3>1, <3>2, <3>3, LifecycleBounds
  <2>8. \A g \in Handlers : Cardinality(Claims(g)') <= MaxFiles
    <3>1. Cardinality(batch) <= MaxFiles
      BY <2>5, <2>6, LifecycleBounds
    <3> QED
      BY <2>3, <2>4, <3>1 DEF LimitShared
  <2>9. Cardinality((Live \union Claimed)') <= MaxFiles * Cardinality(Handlers)
    <3> DEFINE f == [g \in Handlers |-> IF g = h THEN Live \union batch ELSE Claims(g)]
    <3>1. \A g \in Handlers : IsFiniteSet(f[g]) /\ Cardinality(f[g]) <= MaxFiles
      BY <2>7, LimitFinite DEF LimitShared
    <3>2. Cardinality(UNION {f[g] : g \in Handlers}) <= MaxFiles * Cardinality(Handlers)
      <4> HIDE DEF f
      <4> QED
        BY <3>1, UnionBound, LifecycleBounds
    <3>3. (Live \union Claimed)' = UNION {f[g] : g \in Handlers}
      <4>1. (Live \union Claimed)' = Live \union UNION {Claims(g)' : g \in Handlers}
        BY <2>2 DEF Claimed
      <4>2. \A g \in Handlers : Claims(g)' = IF g = h THEN batch ELSE Claims(g)
        BY <2>3, <2>4
      <4> QED
        BY <4>1, <4>2
    <3> QED
      BY <3>2, <3>3
  <2> QED
    BY <2>8, <2>9 DEF LimitShared
<1>2. ASSUME NEW i \in Items, BeginUpload(h, i) \/ BeginCancel(h, i)
      PROVE  LimitShared'
  <2>1. /\ rows' = rows
        /\ \A g \in Handlers : g # h => pc'[g] = pc[g] /\ job'[g] = job[g]
    BY <1>0, <1>2 DEF BeginUpload, BeginCancel, Authorize
  <2>2. \/ pc'[h] \in {"create", "stat"} /\ rows[job'[h].item] # "cancelled"
        \/ pc'[h] \in {"remove", "record"}
    BY <1>0, <1>2 DEF BeginUpload, BeginCancel, Authorize
  <2>3. Claims(h)' = {}
    BY <2>1, <2>2 DEF Claims, Receiving, Uploads
  <2>4. \A g \in Handlers : Claims(g)' \subseteq Claims(g)
    BY <2>1, <2>3 DEF Claims, Receiving
  <2> QED
    BY <2>1, <2>4, LimitShrinks DEF Live
<1> QED
  BY <1>1, <1>2

\* Later steps: what was claimed becomes live, and an item that is cancelled is claimed
\* by the one checkpoint that may revive it.
LEMMA LimitHandler ==
  ASSUME TypeOK, TypeOK', OneUploader, LimitShared, NEW h \in Handlers, HandlerStep(h)
  PROVE  LimitShared'
<1> DEFINE i == job[h].item
<1>0. /\ pc \in [Handlers -> PCs] /\ job \in [Handlers -> Job] /\ i \in Items
      /\ rows \in [Items -> ItemState]
  BY DEF TypeOK, Job
<1>1. \A g \in Handlers : g # h => pc'[g] = pc[g] /\ job'[g] = job[g]
  BY <1>0 DEF HandlerStep, AddNothing, InsertItems, StatPartial, CreatePartial, ReceiveBody,
              SyncPartial, CommitCheckpoint, PublishProgress, RemovePartial, RecordCancelled,
              Return, Goto
<1>2. ASSUME rows' = rows
      PROVE  LimitShared'
  <2>1. [Next]_vars
    BY DEF Next
  <2>2. \A g \in Handlers : Returned(g) \/ Began(g) \/ Carried(g)
    BY <2>1, RequestSteps
  <2>3. \A g \in Handlers : Returned(g) \/ Carried(g)
    <3>1. ASSUME NEW g \in Handlers, g # h
          PROVE  Carried(g)
      BY <1>1, <3>1 DEF Carried
    <3>2. pc[h] # "idle"
      BY DEF HandlerStep, AddNothing, InsertItems, StatPartial, CreatePartial, ReceiveBody,
             SyncPartial, CommitCheckpoint, PublishProgress, RemovePartial, RecordCancelled
    <3> QED
      BY <2>2, <3>1, <3>2 DEF Began
  <2> QED
    BY <1>2, <2>3, ClaimsKept, LimitShrinks DEF Live
<1>3. CASE InsertItems(h)
  <2>1. /\ \A j \in Items : rows'[j] = rows[j] \/ (j \in Claims(h) /\ rows'[j] # "cancelled")
        /\ pc' = [pc EXCEPT ![h] = "idle"]
    BY <1>3, InsertEffect DEF InsertItems, Claims, Return
  <2>2. Live' \subseteq Live \union Claimed
    BY <2>1 DEF Live, Claimed
  <2>3. Claims(h)' = {}
    BY <1>0, <2>1 DEF Claims, Receiving, Uploads
  <2>4. \A g \in Handlers : g # h => Claims(g)' \subseteq Claims(g)
    <3>1. \A g \in Handlers : job[g].item \in Items
      BY <1>0 DEF Job
    <3> QED
      BY <1>1, <2>1, <3>1 DEF Claims, Receiving
  <2> QED
    BY <2>2, <2>3, <2>4, LimitShrinks
<1>4. CASE CommitCheckpoint(h) /\ Committed(i)
  <2>1. /\ rows' = [rows EXCEPT ![i] = "transferring"]
        /\ pc' = [pc EXCEPT ![h] = "progress"] /\ pc[h] = "commit"
    BY <1>4 DEF CommitCheckpoint, Goto
  <2>2. \A g \in Handlers : Claims(g)' \subseteq Claims(g)
    <3>1. \A g \in Handlers : job[g].item \in Items
      BY <1>0 DEF Job
    <3>2. Claims(h)' = {}
      BY <1>0, <2>1 DEF Claims
    <3> QED
      BY <1>0, <1>1, <2>1, <3>1, <3>2 DEF Claims, Receiving
  <2>3. i \in Live \union Claimed
    <3>1. CASE rows[i] = "cancelled"
      BY <2>1, <3>1 DEF Claims, Claimed, Receiving, Uploads
    <3>2. CASE rows[i] # "cancelled"
      BY <1>0, <1>4, <3>2 DEF Live, Committed
    <3> QED
      BY <3>1, <3>2
  <2>4. Live' \subseteq Live \union Claimed
    BY <1>0, <2>1, <2>3 DEF Live
  <2> QED
    BY <2>2, <2>4, LimitShrinks
<1>5. CASE RecordCancelled(h) /\ rows[i] \notin {"none", "cancelled"}
  <2>1. /\ rows' = [rows EXCEPT ![i] = "cancelled"]
        /\ pc' = [pc EXCEPT ![h] = "idle"]
    BY <1>5 DEF RecordCancelled, Return
  <2>2. i \in Live /\ Live' \subseteq Live
    BY <1>0, <1>5, <2>1 DEF Live
  <2>3. ASSUME NEW g \in Handlers
        PROVE  Claims(g)' \subseteq Claims(g) \/ Claims(g)' = {i}
    <3>1. CASE g = h
      BY <1>0, <2>1, <3>1 DEF Claims, Receiving, Uploads
    <3>2. CASE g # h
      <4>1. job[g].item \in Items
        BY <1>0 DEF Job
      <4> QED
        BY <1>0, <1>1, <2>1, <3>2, <4>1 DEF Claims, Receiving
    <3> QED
      BY <3>1, <3>2
  <2> QED
    BY <2>2, <2>3, LimitShrinks
<1>6. CASE RecordCancelled(h) /\ rows[i] \in {"none", "cancelled"}
  <2>1. rows' = rows
    BY <1>0, <1>6 DEF RecordCancelled
  <2> QED
    BY <1>2, <2>1
<1>7. CASE \/ AddNothing(h)
           \/ CommitCheckpoint(h) /\ ~ Committed(i)
           \/ StatPartial(h) \/ CreatePartial(h) \/ ReceiveBody(h) \/ SyncPartial(h)
           \/ PublishProgress(h) \/ RemovePartial(h)
  BY <1>2, <1>7 DEF AddNothing, CommitCheckpoint, StatPartial, CreatePartial, ReceiveBody,
                    SyncPartial, PublishProgress, RemovePartial
<1> QED
  BY <1>3, <1>4, <1>5, <1>6, <1>7 DEF HandlerStep

\* Additions that counted the items before any was inserted share the limit.
LEMMA LimitStaysShared ==
  ASSUME TypeOK, OneUploader, LimitShared, [Next]_vars
  PROVE  LimitShared'
<1>0. job \in [Handlers -> Job] /\ TypeOK'
  BY TypeNext DEF TypeOK
<1>1. CASE \E h \in Handlers :
             \/ BeginAdd(h)
             \/ \E i \in Items : BeginUpload(h, i) \/ BeginCancel(h, i)
  BY <1>0, <1>1, LimitBegin
<1>2. CASE \E h \in Handlers : HandlerStep(h)
  BY <1>0, <1>2, LimitHandler
<1>3. ASSUME rows' = rows, pc' = pc,
             \A h \in Handlers : job'[h].item = job[h].item /\ job'[h].batch = job[h].batch
      PROVE  LimitShared'
  <2>1. Live' = Live /\ \A h \in Handlers : Claims(h)' = Claims(h)
    BY <1>3 DEF Live, Claims, Receiving
  <2> QED
    BY <1>0, <2>1, LimitShrinks
<1>4. CASE \/ Read \/ Tick \/ UNCHANGED vars
           \/ \E e \in Enders : RemoveFails(e) \/ \E i \in Items : RemoveFile(e, i)
  BY <1>3, <1>4 DEF Read, Tick, vars, RemoveFile, RemoveFails, request
<1>5. CASE Resume
  BY <1>0, <1>3, <1>5 DEF Resume, Job
<1>6. ASSUME NEW e \in Enders, NEW marked, End(e, marked)
      PROVE  LimitShared'
  <2>1. \A h \in Handlers : job'[h].item = job[h].item /\ job'[h].batch = job[h].batch
    <3>1. CASE Appendable(marked.event + 1)
      <4>1. job' = [h \in Handlers |-> [job[h] EXCEPT !.aborted = @ \/ job[h].bound,
                                                      !.bound = FALSE]]
        BY <1>6, <3>1 DEF End
      <4> QED
        BY <1>0, <4>1 DEF Job
    <3>2. CASE ~ Appendable(marked.event + 1)
      BY <1>6, <3>2 DEF End
    <3> QED
      BY <3>1, <3>2
  <2> QED
    BY <1>3, <1>6, <2>1 DEF End
<1>7. ASSUME NEW e \in Enders, DropRoom(e)
      PROVE  LimitShared'
  <2>1. Live' = {}
    BY <1>7 DEF DropRoom, Live
  <2>2. \A h \in Handlers : job'[h].item \in Items /\ job'[h].batch = job[h].batch
    BY <1>0, <1>7 DEF DropRoom, Job
  <2>3. pc' = pc /\ \A i \in Items : rows'[i] = "none"
    BY <1>7 DEF DropRoom
  <2>4. \A h \in Handlers : Claims(h)' \subseteq Claims(h)
    BY <2>2, <2>3 DEF Claims
  <2> QED
    BY <1>0, <2>1, <2>4, LimitShrinks
<1>8. CASE Crash
  <2>1. Live' = Live /\ \A h \in Handlers : pc'[h] = "idle"
    BY <1>8 DEF Crash, Live
  <2>2. \A h \in Handlers : Claims(h)' = {}
    BY <2>1 DEF Claims, Receiving, Uploads
  <2> QED
    BY <1>0, <2>1, <2>2, LimitShrinks
<1> QED
  BY <1>1, <1>2, <1>4, <1>5, <1>6, <1>7, <1>8, LifecycleBounds
     DEF Next, DeleteRoom, SweepExpired, Finishing

-----------------------------------------------------------------------------
(* Theorems.                                                                *)

\* The parts of the invariant that do not depend on how long hashing takes.
RoomSound == CopiesActive /\ OneUploader /\ LimitShared /\ GoneIsEmpty

\* The new room satisfies the invariant.
LEMMA InitialInvariant == Init => LifecycleInvariant
<1> SUFFICES ASSUME Init
             PROVE  LifecycleInvariant
  OBVIOUS
<1>1. CopiesActive /\ CopiesYoung /\ OneUploader /\ GoneIsEmpty
  BY DEF Init, NoJob, FirstRoom, CopiesActive, CopiesYoung, OneUploader, Receiving, Uploads,
         GoneIsEmpty
<1>2. room.expires = Lesser(0 + TTL, HardTTL) /\ lastActive = 0
  BY LifecycleBounds DEF Init, FirstRoom
<1>3. ExpiryKept
  BY <1>2, EarlierExpiry DEF ExpiryKept
<1>4. Live = {} /\ \A h \in Handlers : Claims(h) = {}
  BY DEF Init, Live, Claims, Receiving, Uploads
<1>5. LimitShared
  <2>1. Live \union Claimed = {}
    BY <1>4 DEF Claimed
  <2>2. MaxFiles * Cardinality(Handlers) \in Nat
    BY FS_CardinalityType, LifecycleBounds
  <2>3. Cardinality({}) = 0
    BY FS_EmptySet
  <2>4. \A h \in Handlers : Cardinality(Claims(h)) = 0
    BY <1>4, <2>3
  <2>5. Cardinality(Live \union Claimed) = 0
    BY <2>1, <2>3
  <2> QED
    BY <2>2, <2>4, <2>5, LifecycleBounds DEF LimitShared
<1> QED
  BY <1>1, <1>3, <1>5 DEF LifecycleInvariant

\* The room stays sound.
LEMMA RoomStaysSound == TypeOK /\ RoomSound /\ [Next]_vars => RoomSound'
BY CopiesStayActive, OneUploaderStays, LimitStaysShared, GoneStaysEmpty DEF RoomSound

\* However its requests interleave, and however long the lists are that they add, they
\* fill the room at most once each (assertWithinLimits of what was listed before the
\* awaits of registerUpload and addSourceFiles).
THEOREM FilesBounded == Spec => []FilesNearLimit
<1>1. Init => TypeOK /\ RoomSound
  BY TypeInit, InitialInvariant DEF LifecycleInvariant, RoomSound
<1>2. TypeOK /\ RoomSound /\ [Next]_vars => (TypeOK /\ RoomSound)'
  BY TypeNext, RoomStaysSound
<1>3. TypeOK /\ RoomSound => FilesNearLimit
  <2> SUFFICES ASSUME TypeOK, RoomSound
               PROVE  FilesNearLimit
    OBVIOUS
  <2>1. Live \union Claimed \subseteq Items
    BY LimitFinite
  <2>2. /\ IsFiniteSet(Live \union Claimed) /\ Cardinality(Live \union Claimed) \in Nat
        /\ Cardinality(Live) \in Nat
    BY <2>1, LimitFinite
  <2>3. Cardinality(Live) <= Cardinality(Live \union Claimed)
    BY <2>2, FS_Subset
  <2>4. MaxFiles * Cardinality(Handlers) \in Nat
    BY FS_CardinalityType, LifecycleBounds
  <2> QED
    BY <2>2, <2>3, <2>4 DEF RoomSound, LimitShared, FilesNearLimit
<1> QED
  BY <1>1, <1>2, <1>3, PTL DEF Spec

\* A room whose row is deleted stays deleted, whatever copies of it are written
\* back afterwards (updateRoom and appendEvent after deleteRoom).
THEOREM GoneStaysGone == Spec => GoneForGood
<1>1. Init => TypeOK /\ RoomSound
  BY TypeInit, InitialInvariant DEF LifecycleInvariant, RoomSound
<1>2. TypeOK /\ RoomSound /\ [Next]_vars => (TypeOK /\ RoomSound)'
  BY TypeNext, RoomStaysSound
<1>3. TypeOK /\ RoomSound /\ [Next]_vars
        => [room.status = "gone" => room' = room /\ rows' = rows /\ log' = log]_vars
  BY GoneUntouched DEF RoomSound
<1> QED
  BY <1>1, <1>2, <1>3, PTL DEF Spec, GoneForGood

\* When the hashing of added files does not outlive the other requests, the whole
\* invariant of the room holds: copies are young, and the expiry they write back is
\* at most Patience behind the last activity.
THEOREM LifecycleIsSound ==
  ASSUME HashPatience <= Patience
  PROVE  Spec => []LifecycleInvariant
<1>1. Init => TypeOK /\ LifecycleInvariant
  BY TypeInit, InitialInvariant
<1>2. TypeOK /\ LifecycleInvariant /\ [Next]_vars => (TypeOK /\ LifecycleInvariant)'
  BY TypeNext, CopiesStayActive, CopiesStayYoung, ExpiryStaysKept, OneUploaderStays,
     LimitStaysShared, GoneStaysEmpty DEF LifecycleInvariant
<1> QED
  BY <1>1, <1>2, PTL DEF Spec

\* A room in use does not expire, whatever older copies of it are written back
\* (touch, publish and sweepExpired).
THEOREM ActivityKept ==
  ASSUME HashPatience <= Patience
  PROVE  Spec => []ActivityKeepsRoom
<1>1. Spec => []LifecycleInvariant
  BY LifecycleIsSound
<1>2. LifecycleInvariant => ActivityKeepsRoom
  BY DEF LifecycleInvariant, ExpiryKept, ActivityKeepsRoom
<1> QED
  BY <1>1, <1>2, PTL

-----------------------------------------------------------------------------
(* What the end of a room leaves behind.                                    *)

Inserting(h) == pc[h] \in {"register", "hash"}

\* Until the room is gone, a partial file belongs to an item whose row has its path,
\* so do the uploads, and the items about to be inserted are nobody else's.
ItemsHome ==
  room.status # "gone" =>
    /\ files \subseteq Partials
    /\ \A h \in Handlers : Receiving(h) => job[h].item \in Partials
    /\ \A h \in Handlers : Inserting(h) => \A i \in job[h].batch : rows[i] = "none"
    /\ \A g, h \in Handlers :
         Inserting(g) /\ Inserting(h) /\ g # h => job[g].batch \intersect job[h].batch = {}

\* A room that is ended while nobody uses it stays unused, and every call that ends
\* it still has every file before it.
EndingAlone ==
  ~ overlapped =>
    /\ Ending \/ room.status = "gone" => ~ Busy
    /\ \A e \in Enders : ender[e].working => files \subseteq ender[e].left
    /\ room.status = "gone" => files = {}

\* The new room has no files and no requests.
LEMMA InitialLeft == Init => ItemsHome /\ EndingAlone
<1> SUFFICES ASSUME Init
             PROVE  ItemsHome /\ EndingAlone
  OBVIOUS
<1>1. ItemsHome
  BY DEF Init, ItemsHome, Receiving, Inserting, Uploads
<1>2. EndingAlone
  BY DEF Init, EndingAlone, Ending, Busy, NoEnder, FirstRoom
<1> QED
  BY <1>1, <1>2

\* An authorized request keeps the files and the endings as they are.
LEMMA LeftAuthorize ==
  ASSUME TypeOK, EndingAlone, NEW h \in Handlers, NEW label, NEW i \in Items,
         NEW batch, NEW b \in BOOLEAN, Authorize(h, label, i, batch, b)
  PROVE  EndingAlone'
<1>1. room'.status = "active"
  BY DEF Authorize, Active, Touched, TypeOK, Room
<1>2. ~ overlapped' => ~ Ending
  BY DEF Authorize
<1>3. ender' = ender
  BY DEF Authorize
<1> QED
  BY <1>1, <1>2, <1>3 DEF EndingAlone, Ending

\* A request begins with an item of its own, or with one that has a row.
LEMMA HomeBegin ==
  ASSUME TypeOK, ItemsHome, NEW h \in Handlers,
         \/ BeginAdd(h)
         \/ \E i \in Items : BeginUpload(h, i) \/ BeginCancel(h, i)
  PROVE  ItemsHome'
<1>1. job \in [Handlers -> Job] /\ pc \in [Handlers -> PCs]
  BY DEF TypeOK
<1>2. ASSUME NEW label, NEW i \in Items, NEW batch \in SUBSET Unused, NEW b \in BOOLEAN,
             Authorize(h, label, i, batch, b), label \in Uploads => i \in Partials
      PROVE  ItemsHome'
  <2>1. room.status = "active"
    BY <1>2 DEF Authorize, Active
  <2>2. files' = files /\ rows' = rows /\ Partials' = Partials
    BY <1>2 DEF Authorize, Partials
  <2>3. pc'[h] = label /\ job'[h].item = i /\ job'[h].batch = batch
    BY <1>1, <1>2 DEF Authorize
  <2>4. \A g \in Handlers \ {h} : pc'[g] = pc[g] /\ job'[g] = job[g]
    BY <1>1, <1>2 DEF Authorize
  <2>5. /\ \A j \in batch : rows[j] = "none"
        /\ \A g \in Handlers : Inserting(g) => job[g].batch \intersect batch = {}
    BY <1>2 DEF Unused, Inserting
  <2>6. \A g \in Handlers : Receiving(g)' => job'[g].item \in Partials'
    BY <1>2, <2>1, <2>2, <2>3, <2>4 DEF ItemsHome, Receiving
  <2>7. \A g \in Handlers : Inserting(g)' => \A j \in job'[g].batch : rows'[j] = "none"
    BY <2>1, <2>2, <2>3, <2>4, <2>5 DEF ItemsHome, Inserting
  <2>8. ASSUME NEW f \in Handlers, NEW g \in Handlers, Inserting(f)', Inserting(g)', f # g
        PROVE  job'[f].batch \intersect job'[g].batch = {}
    <3>1. CASE f = h
      BY <2>3, <2>4, <2>5, <2>8, <3>1 DEF Inserting
    <3>2. CASE g = h
      BY <2>3, <2>4, <2>5, <2>8, <3>2 DEF Inserting
    <3>3. CASE f # h /\ g # h
      BY <2>1, <2>4, <2>8, <3>3 DEF ItemsHome, Inserting
    <3> QED
      BY <3>1, <3>2, <3>3
  <2> QED
    BY <2>1, <2>2, <2>6, <2>7, <2>8 DEF ItemsHome
<1>3. CASE BeginAdd(h)
  <2>1. PICK batch \in SUBSET Unused, label \in {"register", "hash"} :
          Authorize(h, label, AnyItem, batch, FALSE)
    BY <1>3, AddBegins
  <2> QED
    BY <1>2, <2>1, InitialRecords DEF Uploads
<1>4. ASSUME NEW i \in Items, BeginUpload(h, i)
      PROVE  ItemsHome'
  <2>1. i \in Partials
    BY <1>4 DEF BeginUpload, Partials
  <2> QED
    BY <1>2, <1>4, <2>1 DEF BeginUpload
<1>5. ASSUME NEW i \in Items, BeginCancel(h, i)
      PROVE  ItemsHome'
  BY <1>2, <1>5 DEF BeginCancel, Uploads
<1> QED
  BY <1>3, <1>4, <1>5

\* A request at work touches files and rows of its own item only.
LEMMA HomeHandler ==
  ASSUME TypeOK, CopiesActive, GoneIsEmpty, ItemsHome, NEW h \in Handlers, HandlerStep(h)
  PROVE  ItemsHome'
<1> SUFFICES ASSUME room'.status # "gone"
             PROVE  ItemsHome'
  BY DEF ItemsHome
<1> DEFINE i == job[h].item
<1>1. /\ job \in [Handlers -> Job] /\ pc \in [Handlers -> PCs]
      /\ rows \in [Items -> ItemState] /\ i \in Items /\ files \subseteq Items
  BY DEF TypeOK, Job
<1>2. room.status # "gone"
  BY GoneUntouched DEF Next
<1>3. /\ files \subseteq Partials
      /\ \A g \in Handlers : Receiving(g) => job[g].item \in Partials
      /\ \A g \in Handlers : Inserting(g) => \A j \in job[g].batch : rows[j] = "none"
      /\ \A f, g \in Handlers :
           Inserting(f) /\ Inserting(g) /\ f # g => job[f].batch \intersect job[g].batch = {}
  BY <1>2 DEF ItemsHome
<1>4. \A g \in Handlers \ {h} : pc'[g] = pc[g] /\ job'[g] = job[g]
  BY <1>1 DEF HandlerStep, AddNothing, InsertItems, StatPartial, CreatePartial, ReceiveBody,
              SyncPartial, CommitCheckpoint, PublishProgress, RemovePartial, RecordCancelled,
              Return, Goto
<1>5. Inserting(h)' => FALSE
  BY <1>1 DEF Inserting, HandlerStep, AddNothing, InsertItems, StatPartial, CreatePartial,
              ReceiveBody, SyncPartial, CommitCheckpoint, PublishProgress, RemovePartial,
              RecordCancelled, Return, Goto
<1>6. Receiving(h)' => Receiving(h) /\ job'[h].item = i
  BY <1>1 DEF Receiving, Uploads, HandlerStep, AddNothing, InsertItems, StatPartial,
              CreatePartial, ReceiveBody, SyncPartial, CommitCheckpoint, PublishProgress,
              RemovePartial, RecordCancelled, Return, Goto, Job
<1>7. ASSUME \A j \in Partials : j \in Partials',
             files' \subseteq Partials',
             \A g \in Handlers \ {h} :
               Inserting(g) => \A j \in job[g].batch : rows'[j] = "none"
      PROVE  ItemsHome'
  <2>1. \A g \in Handlers : Receiving(g)' => job'[g].item \in Partials'
    <3>1. \A g \in Handlers \ {h} : Receiving(g)' => Receiving(g) /\ job'[g].item = job[g].item
      BY <1>4 DEF Receiving
    <3> QED
      BY <1>3, <1>6, <1>7, <3>1
  <2>2. \A g \in Handlers : Inserting(g)' => g # h /\ Inserting(g) /\ job'[g] = job[g]
    BY <1>4, <1>5 DEF Inserting
  <2>3. \A g \in Handlers : Inserting(g)' => \A j \in job'[g].batch : rows'[j] = "none"
    BY <1>7, <2>2
  <2>4. \A f, g \in Handlers :
          Inserting(f)' /\ Inserting(g)' /\ f # g =>
            job'[f].batch \intersect job'[g].batch = {}
    BY <1>3, <2>2
  <2> QED
    BY <1>7, <2>1, <2>3, <2>4 DEF ItemsHome
<1>8. CASE InsertItems(h)
  <2>1. Inserting(h) /\ \A j \in job[h].batch : rows[j] = "none"
    BY <1>3, <1>8 DEF InsertItems, Inserting
  <2>2. \A j \in Items \ job[h].batch : rows'[j] = rows[j]
    BY <1>8, InsertEffect
  <2>3. job[h].batch \intersect Partials = {}
    BY <2>1 DEF Partials
  <2>4. \A j \in Partials : j \in Partials'
    BY <2>2, <2>3 DEF Partials
  <2>5. \A g \in Handlers \ {h} : Inserting(g) => \A j \in job[g].batch : rows'[j] = "none"
    <3>1. \A g \in Handlers : job[g].batch \subseteq Items
      BY <1>1 DEF Job
    <3> QED
      BY <1>3, <2>1, <2>2, <3>1
  <2>6. files' \subseteq Partials'
    BY <1>3, <1>8, <2>4 DEF InsertItems
  <2> QED
    BY <1>7, <2>4, <2>5, <2>6
<1>9. CASE \/ AddNothing(h) \/ StatPartial(h) \/ ReceiveBody(h) \/ SyncPartial(h)
           \/ PublishProgress(h)
  <2>1. rows' = rows /\ files' = files
    BY <1>9 DEF AddNothing, StatPartial, ReceiveBody, SyncPartial, PublishProgress
  <2> QED
    BY <1>3, <1>7, <2>1 DEF Partials
<1>10. CASE CreatePartial(h) \/ RemovePartial(h)
  <2>1. rows' = rows
    BY <1>10 DEF CreatePartial, RemovePartial
  <2>2. CreatePartial(h) => i \in Partials
    BY <1>3 DEF CreatePartial, Receiving, Uploads
  <2>3. files' \subseteq files \/ (CreatePartial(h) /\ files' = files \union {i})
    BY <1>10 DEF CreatePartial, RemovePartial
  <2>4. Partials' = Partials
    BY <2>1 DEF Partials
  <2> QED
    BY <1>3, <1>7, <2>1, <2>2, <2>3, <2>4
<1>11. CASE CommitCheckpoint(h) \/ RecordCancelled(h)
  <2>1. files' = files
    BY <1>11 DEF CommitCheckpoint, RecordCancelled
  <2>2. \A j \in Items \ {i} : rows'[j] = rows[j]
    BY <1>1, <1>11 DEF CommitCheckpoint, RecordCancelled
  <2>3. \/ rows'[i] = rows[i]
        \/ rows[i] # "none" /\ rows'[i] \in {"transferring", "cancelled"}
    BY <1>1, <1>11 DEF CommitCheckpoint, RecordCancelled, Committed
  <2>4. \A j \in Partials : j \in Partials'
    BY <2>2, <2>3 DEF Partials
  <2>5. \A g \in Handlers \ {h} : Inserting(g) => \A j \in job[g].batch : rows'[j] = "none"
    <3>1. \A g \in Handlers : job[g].batch \subseteq Items
      BY <1>1 DEF Job
    <3> QED
      BY <1>3, <2>2, <2>3, <3>1
  <2> QED
    BY <1>3, <1>7, <2>1, <2>4, <2>5
<1> QED
  BY <1>8, <1>9, <1>10, <1>11 DEF HandlerStep

\* Everything else leaves rows and files alone, removes a file, or drops the room.
LEMMA HomeStays ==
  ASSUME TypeOK, CopiesActive, GoneIsEmpty, ItemsHome, [Next]_vars
  PROVE  ItemsHome'
<1> SUFFICES ASSUME room'.status # "gone"
             PROVE  ItemsHome'
  BY DEF ItemsHome
<1>1. room.status # "gone"
  BY GoneUntouched
<1>2. job \in [Handlers -> Job] /\ pc \in [Handlers -> PCs]
  BY DEF TypeOK
<1>3. ASSUME rows' = rows, files' \subseteq files,
             \A g \in Handlers : \/ pc'[g] = "idle"
                                 \/ /\ pc'[g] = pc[g] /\ job'[g].item = job[g].item
                                    /\ job'[g].batch = job[g].batch
      PROVE  ItemsHome'
  <2>1. Partials' = Partials
    BY <1>3 DEF Partials
  <2>2. \A g \in Handlers : Receiving(g)' => Receiving(g) /\ job'[g].item = job[g].item
    BY <1>3 DEF Receiving, Uploads
  <2>3. \A g \in Handlers : Inserting(g)' => Inserting(g) /\ job'[g].batch = job[g].batch
    BY <1>3 DEF Inserting
  <2> QED
    BY <1>1, <1>3, <2>1, <2>2, <2>3 DEF ItemsHome
<1>4. CASE \E h \in Handlers :
             \/ BeginAdd(h)
             \/ \E i \in Items : BeginUpload(h, i) \/ BeginCancel(h, i)
  BY <1>4, HomeBegin
<1>5. CASE \E h \in Handlers : HandlerStep(h)
  BY <1>5, HomeHandler
<1>6. CASE Read \/ Tick \/ Crash \/ UNCHANGED vars \/ \E e \in Enders : RemoveFails(e)
  BY <1>3, <1>6 DEF Read, Tick, Crash, RemoveFails, vars, request
<1>7. CASE Resume
  BY <1>2, <1>3, <1>7 DEF Resume, Job
<1>8. CASE DeleteRoom \/ \E e \in Enders : SweepExpired(e)
  <2>1. rows' = rows /\ files' = files /\ pc' = pc
    BY <1>8 DEF DeleteRoom, SweepExpired, End
  <2>2. \A g \in Handlers : job'[g].item = job[g].item /\ job'[g].batch = job[g].batch
    <3>1. ASSUME NEW e \in Enders, NEW marked, End(e, marked)
          PROVE  \A g \in Handlers : /\ job'[g].item = job[g].item
                                     /\ job'[g].batch = job[g].batch
      <4>1. CASE Appendable(marked.event + 1)
        <5>1. job' = [h \in Handlers |-> [job[h] EXCEPT !.aborted = @ \/ job[h].bound,
                                                        !.bound = FALSE]]
          BY <3>1, <4>1 DEF End
        <5> QED
          BY <1>2, <5>1 DEF Job
      <4>2. CASE ~ Appendable(marked.event + 1)
        BY <3>1, <4>2 DEF End
      <4> QED
        BY <4>1, <4>2
    <3> QED
      BY <1>8, <3>1, LifecycleBounds DEF DeleteRoom, SweepExpired
  <2> QED
    BY <1>3, <2>1, <2>2
<1>9. ASSUME NEW e \in Enders, Finishing(e)
      PROVE  ItemsHome'
  <2>1. ~ DropRoom(e)
    BY DEF DropRoom, TypeOK, Room
  <2>2. PICK i \in Items : RemoveFile(e, i)
    BY <1>9, <2>1 DEF Finishing
  <2>3. rows' = rows /\ files' \subseteq files /\ pc' = pc /\ job' = job
    BY <2>2 DEF RemoveFile, request
  <2> QED
    BY <1>3, <2>3
<1> QED
  BY <1>4, <1>5, <1>6, <1>7, <1>8, <1>9 DEF Next

\* A request that begins while the room is being ended is noticed, and none begins
\* once it is gone: what the ending does not remove was not there.
LEMMA EndingStaysAlone ==
  ASSUME TypeOK, CopiesActive, GoneIsEmpty, ItemsHome, EndingAlone, [Next]_vars
  PROVE  EndingAlone'
<1>1. /\ job \in [Handlers -> Job] /\ pc \in [Handlers -> PCs] /\ room \in Room
      /\ ender \in [Enders -> [working : BOOLEAN, left : SUBSET Items]]
      /\ \A h \in Handlers : job[h].item \in Items
  BY DEF TypeOK, Job
<1>2. CASE \E h \in Handlers :
             \/ BeginAdd(h)
             \/ \E i \in Items : BeginUpload(h, i) \/ BeginCancel(h, i)
  <2>1. PICK h \in Handlers :
             \/ BeginAdd(h)
             \/ \E i \in Items : BeginUpload(h, i) \/ BeginCancel(h, i)
    BY <1>2
  <2>2. CASE BeginAdd(h)
    <3>1. PICK batch \in SUBSET Unused, label \in {"register", "hash"} :
            Authorize(h, label, AnyItem, batch, FALSE)
      BY <2>2, AddBegins
    <3> QED
      BY <3>1, LeftAuthorize, InitialRecords
  <2>3. ASSUME NEW i \in Items, BeginUpload(h, i) \/ BeginCancel(h, i)
        PROVE  EndingAlone'
    BY <2>3, LeftAuthorize DEF BeginUpload, BeginCancel
  <2> QED
    BY <2>1, <2>2, <2>3
<1>3. ASSUME NEW h \in Handlers, HandlerStep(h)
      PROVE  EndingAlone'
  <2>1. pc[h] # "idle"
    BY <1>3 DEF HandlerStep, AddNothing, InsertItems, StatPartial, CreatePartial, ReceiveBody,
                SyncPartial, CommitCheckpoint, PublishProgress, RemovePartial, RecordCancelled
  <2>2. Busy
    BY <2>1 DEF Busy
  <2>3. overlapped' = overlapped /\ ender' = ender
    BY <1>3 DEF HandlerStep, AddNothing, InsertItems, StatPartial, CreatePartial, ReceiveBody,
                SyncPartial, CommitCheckpoint, PublishProgress, RemovePartial, RecordCancelled,
                ghosts
  <2>4. ~ overlapped => ~ Ending /\ room.status # "gone"
    BY <2>2 DEF EndingAlone
  <2>5. ~ overlapped => room'.status # "gone"
    <3>1. ASSUME room.status # "gone", room'.status = "gone"
          PROVE  FALSE
      <4>1. PICK e \in Enders : DropRoom(e)
        BY <1>3, <3>1, GoneByDrop DEF Next
      <4>2. ender[e].working /\ ~ ender'[e].working
        BY <1>1, <4>1 DEF DropRoom, NoEnder
      <4> QED
        BY <2>3, <4>2
    <3> QED
      BY <2>4, <3>1
  <2> QED
    BY <2>3, <2>4, <2>5 DEF EndingAlone, Ending
<1>4. CASE Read \/ Resume \/ Tick \/ UNCHANGED vars
  <2>1. /\ overlapped' = overlapped /\ ender' = ender /\ files' = files /\ pc' = pc
        /\ room'.status = room.status
    BY <1>1, <1>4 DEF Read, Resume, Tick, vars, ghosts, request, Touched, Room
  <2> QED
    BY <2>1 DEF EndingAlone, Ending, Busy
<1>10. ASSUME NEW e \in Enders, RemoveFails(e)
       PROVE  EndingAlone'
  <2>1. /\ overlapped' = overlapped /\ files' = files /\ room' = room /\ pc' = pc
        /\ \A d \in Enders : ender'[d].working => ender'[d] = ender[d]
    BY <1>1, <1>10 DEF RemoveFails, NoEnder, request
  <2> QED
    BY <2>1 DEF EndingAlone, Ending, Busy
<1>5. CASE Crash
  <2>1. /\ overlapped' = overlapped /\ files' = files /\ room' = room
        /\ \A h \in Handlers : pc'[h] = "idle"
        /\ \A e \in Enders : ~ ender'[e].working
    BY <1>5 DEF Crash, NoEnder
  <2> QED
    BY <2>1 DEF EndingAlone, Busy
<1>6. ASSUME NEW e \in Enders, NEW marked, End(e, marked), room.status = "active",
             room'.status # "gone"
      PROVE  EndingAlone'
  <2>1. pc' = pc /\ files' = files
    BY <1>6 DEF End
  <2>2. CASE ender' = ender /\ overlapped' = overlapped
    BY <1>6, <2>1, <2>2 DEF EndingAlone, Ending, Busy
  <2>3. CASE /\ ender' = [ender EXCEPT ![e] = [working |-> TRUE, left |-> Partials]]
             /\ overlapped' = (overlapped \/ Busy)
    <3>1. files \subseteq Partials
      BY <1>6 DEF ItemsHome
    <3>2. ~ overlapped' => \A d \in Enders : ender'[d].working => files \subseteq ender'[d].left
      BY <1>1, <2>3, <3>1 DEF EndingAlone
    <3>3. ~ overlapped' => ~ Busy'
      BY <2>1, <2>3 DEF Busy
    <3> QED
      BY <1>6, <2>1, <3>2, <3>3 DEF EndingAlone
  <2> QED
    BY <1>6, <2>2, <2>3 DEF End
<1>7. CASE DeleteRoom \/ \E e \in Enders : SweepExpired(e)
  <2>1. room.status = "active"
    BY <1>7 DEF DeleteRoom, SweepExpired, Active, Expired
  <2>2. room'.status # "gone"
    <3>1. ASSUME room'.status = "gone"
          PROVE  FALSE
      <4>1. PICK e \in Enders : DropRoom(e)
        BY <1>7, <2>1, <3>1, GoneByDrop DEF Next
      <4>2. ender[e].working /\ ~ ender'[e].working /\ rows' = [i \in Items |-> "none"]
        BY <1>1, <4>1 DEF DropRoom, NoEnder
      <4>3. ASSUME NEW d \in Enders, NEW marked, End(d, marked)
            PROVE  FALSE
        BY <1>1, <4>2, <4>3 DEF End
      <4> QED
        BY <1>7, <4>3, LifecycleBounds DEF DeleteRoom, SweepExpired
    <3> QED
      BY <3>1
  <2> QED
    BY <1>6, <1>7, <2>1, <2>2, LifecycleBounds DEF DeleteRoom, SweepExpired
<1>8. ASSUME NEW e \in Enders, NEW i \in Items, RemoveFile(e, i)
      PROVE  EndingAlone'
  <2>1. /\ overlapped' = overlapped /\ room' = room /\ pc' = pc /\ files' = files \ {i}
    BY <1>8 DEF RemoveFile, request, ghosts
  <2>2. \A d \in Enders : /\ ender'[d].working = ender[d].working
                          /\ ender[d].left \ {i} \subseteq ender'[d].left
    BY <1>1, <1>8 DEF RemoveFile
  <2>3. Ending' = Ending /\ Busy' = Busy
    BY <2>1, <2>2 DEF Ending, Busy
  <2> QED
    BY <2>1, <2>2, <2>3 DEF EndingAlone
<1>9. ASSUME NEW e \in Enders, DropRoom(e)
      PROVE  EndingAlone'
  <2>1. overlapped' = overlapped /\ pc' = pc /\ files' = files
    BY <1>9 DEF DropRoom, ghosts
  <2>2. Ending /\ ender[e].working /\ ender[e].left = {}
    BY <1>9 DEF DropRoom, Ending
  <2>3. \A d \in Enders : ender'[d].working => ender'[d] = ender[d]
    BY <1>1, <1>9 DEF DropRoom, NoEnder
  <2>4. ~ overlapped => ~ Busy /\ files = {}
    BY <2>2 DEF EndingAlone
  <2> QED
    BY <2>1, <2>3, <2>4 DEF EndingAlone, Busy
<1> QED
  BY <1>2, <1>3, <1>4, <1>5, <1>7, <1>8, <1>9, <1>10 DEF Next, Finishing

\* A room that was ended while no request was in flight leaves no partial file
\* behind, whether it was reset or swept, by one call or by two
\* (deleteRoom, sweepExpired).
THEOREM NothingStays == Spec => []NothingLeftBehind
<1> DEFINE LeftInv == TypeOK /\ RoomSound /\ ItemsHome /\ EndingAlone
<1>1. Init => LeftInv
  BY TypeInit, InitialInvariant, InitialLeft DEF LifecycleInvariant, RoomSound
<1>2. LeftInv /\ [Next]_vars => LeftInv'
  BY TypeNext, RoomStaysSound, HomeStays, EndingStaysAlone DEF RoomSound
<1>3. LeftInv => NothingLeftBehind
  BY DEF EndingAlone, NothingLeftBehind
<1> QED
  BY <1>1, <1>2, <1>3, PTL DEF Spec

=============================================================================
