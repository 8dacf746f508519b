------------------------- MODULE UploadStoreProofs -------------------------
(* Proofs about the upload store, for every value of its constants.         *)
EXTENDS UploadStore, TLAPS

-----------------------------------------------------------------------------
(* Records, files and paths.                                                 *)

\* The initial records of an item, a worker and a cancellation are well typed.
LEMMA InitialRecords ==
  /\ AnyItem \in Items
  /\ NoRow \in Row
  /\ NoJob \in Job
  /\ NoCancel \in Cancel
  /\ NoFinal \in FinalFile
  /\ Gone \in File
  /\ Empty \in File
<1>1. AnyItem \in Items
  BY ItemsAssumption DEF AnyItem
<1>2. NoRow.final \in Paths /\ NoRow \in Row
  BY <1>1, ItemsAssumption, BoundsAssumption DEF NoRow, Row, Paths
<1>3. NoJob \in Job
  BY <1>1, <1>2 DEF NoJob, Job
<1>4. NoCancel \in Cancel
  BY <1>2 DEF NoCancel, Cancel
<1> QED
  BY <1>1, <1>2, <1>3, <1>4 DEF NoFinal, FinalFile, Gone, Empty, File

\* Truncating, appending, syncing and surviving a crash yield files again.
LEMMA FileOperations ==
  ASSUME NEW f \in File, NEW n \in Nat, NEW k \in Nat, NEW genuine \in BOOLEAN
  PROVE  /\ Truncated(f, n) \in File
         /\ Appended(f, n, k, genuine) \in File
         /\ Synced(f) \in File
         /\ Survivor(f, n) \in File
<1>1. Truncated(f, n) \in File
  BY DEF Truncated, Lesser, File
<1>2. Appended(f, n, k, genuine) \in File
  BY DEF Appended, File
<1>3. Synced(f) \in File
  BY DEF Synced, File
<1>4. Survivor(f, n) \in File
  BY DEF Survivor, Lesser, File
<1> QED
  BY <1>1, <1>2, <1>3, <1>4

\* Record updates of the handlers yield item records again.
LEMMA RowUpdates ==
  ASSUME NEW s \in Row, NEW n \in Nat
  PROVE  /\ [s EXCEPT !.confirmed = n, !.state = "transferring"] \in Row
         /\ \A st \in {"pending", "transferring", "cancelled"} :
              [s EXCEPT !.state = st] \in Row
         /\ [s EXCEPT !.confirmed = n] \in Row
         /\ s.confirmed \in Nat /\ s.final \in Paths
BY DEF Row, Live

\* A handler that returns leaves well typed control state behind.
LEMMA FinishType ==
  ASSUME TypeOK, NEW w \in Workers, Finish(w)
  PROVE  /\ pc' \in [Workers -> PCs]
         /\ job' \in [Workers -> Job]
         /\ writeLock' \in [Items -> Requests \union {NoOne}]
BY InitialRecords DEF TypeOK, Finish, Goto, PCs

\* An answer keeps the ghost counters natural numbers.
LEMMA AnswerType ==
  ASSUME TypeOK, NEW w, NEW i \in Items, NEW n \in Nat, Answer(w, i, n)
  PROVE  acked' \in [Items -> Nat]
BY DEF TypeOK, Answer, Greater

-----------------------------------------------------------------------------
(* Type correctness.                                                         *)

\* The empty store is well typed.
LEMMA TypeInit == Init => TypeOK
BY InitialRecords DEF Init, TypeOK, PCs, Workers

\* Registration, status, retention and files of the user.
LEMMA TypeService ==
  ASSUME TypeOK, NEW i \in Items, NEW p \in Paths, NEW n \in Nat,
         \/ Register(i) \/ ReportStatus(i) \/ ForgetCommits(i, n)
         \/ DropForeignFile(p, n)
  PROVE  TypeOK'
<1>1. CASE Register(i)
  <2>1. PICK q \in Paths :
          /\ row' = [row EXCEPT ![i] =
                       [state |-> IF Size[i] = 0 THEN "ready" ELSE "pending",
                        confirmed |-> 0, partial |-> Size[i] # 0, final |-> q]]
          /\ final' = IF Size[i] = 0
                        THEN [final EXCEPT ![q] = [owner |-> i, len |-> 0, good |-> 0]]
                        ELSE final
    BY <1>1 DEF Register
  <2>2. row' \in [Items -> Row]
    BY <2>1 DEF TypeOK, Row, Live
  <2>3. final' \in [Paths -> FinalFile]
    BY <2>1 DEF TypeOK, FinalFile
  <2> QED
    BY <1>1, <2>2, <2>3 DEF Register, TypeOK
<1>2. CASE ReportStatus(i)
  <2>1. row[i].confirmed \in Nat
    BY DEF TypeOK, Row
  <2>2. acked' \in [Items -> Nat]
    BY <1>2, <2>1, AnswerType DEF ReportStatus
  <2> QED
    BY <1>2, <2>2 DEF ReportStatus, TypeOK, disk
<1>3. CASE ForgetCommits(i, n)
  BY <1>3 DEF ForgetCommits, TypeOK
<1>4. CASE DropForeignFile(p, n)
  BY <1>4 DEF DropForeignFile, TypeOK, FinalFile
<1> QED
  BY <1>1, <1>2, <1>3, <1>4

\* Accepting a checkpoint or a replay stores a well typed job.
LEMMA TypeStart ==
  ASSUME TypeOK, NEW r \in Requests,
         \/ \E i \in Items, n \in 1 .. MaxChunk : StartCheckpoint(r, i, n)
         \/ \E c \in commits : StartReplay(r, c)
  PROVE  TypeOK'
<1> r \in Workers
  BY DEF Workers
<1>1. ASSUME NEW i \in Items, NEW n \in 1 .. MaxChunk, StartCheckpoint(r, i, n)
      PROVE  TypeOK'
  <2>1. [item |-> i, start |-> row[i].confirmed, len |-> n, snap |-> row[i],
         dest |-> row[i].final, linked |-> FALSE] \in Job
    BY BoundsAssumption DEF TypeOK, Job, Row
  <2>2. job' \in [Workers -> Job]
    BY <1>1, <2>1 DEF StartCheckpoint, TypeOK
  <2>3. pc' \in [Workers -> PCs]
    BY <1>1 DEF StartCheckpoint, Goto, TypeOK, PCs, Writing
  <2>4. writeLock' \in [Items -> Requests \union {NoOne}]
    BY <1>1 DEF StartCheckpoint, TypeOK
  <2> QED
    BY <1>1, <2>2, <2>3, <2>4 DEF StartCheckpoint, TypeOK, disk
<1>2. ASSUME NEW c \in commits, StartReplay(r, c)
      PROVE  TypeOK'
  <2>1. c.item \in Items
    BY DEF TypeOK, Commit
  <2>2. row[c.item] \in Row /\ row[c.item].confirmed \in Nat /\ row[c.item].final \in Paths
    BY <2>1 DEF TypeOK, Row
  <2>3. [NoJob EXCEPT !.item = c.item, !.snap = row[c.item],
                      !.dest = row[c.item].final] \in Job
    BY <2>1, <2>2, InitialRecords DEF Job
  <2>4. job' \in [Workers -> Job]
    BY <1>2, <2>3 DEF StartReplay, TypeOK
  <2>5. pc' \in [Workers -> PCs]
    BY <1>2 DEF StartReplay, Goto, TypeOK, PCs, Completing
  <2>6. acked' \in [Items -> Nat]
    <3>1. CASE Answer(r, c.item, row[c.item].confirmed)
      BY <3>1, <2>1, <2>2, AnswerType
    <3>2. CASE UNCHANGED acked
      BY <3>2 DEF TypeOK
    <3> QED
      BY <1>2, <3>1, <3>2 DEF StartReplay
  <2> QED
    BY <1>2, <2>4, <2>5, <2>6 DEF StartReplay, TypeOK, disk
<1> QED
  BY <1>1, <1>2

\* Every step of a checkpoint keeps records, files and locks in their types.
LEMMA TypeCheckpoint ==
  ASSUME TypeOK, NEW r \in Requests, CheckpointStep(r)
  PROVE  TypeOK'
<1> r \in Workers
  BY DEF Workers
<1> DEFINE i == job[r].item
<1>1. /\ job[r] \in Job /\ i \in Items /\ part[i] \in File
      /\ job[r].start \in Nat /\ job[r].len \in Nat /\ job[r].snap \in Row
  BY DEF TypeOK, Job
<1>2. CASE StatPartial(r)
  <2>1. CASE Finish(r)
    BY <1>2, <2>1, FinishType DEF StatPartial, TypeOK, disk
  <2>2. CASE Goto(r, "open") /\ UNCHANGED <<job, writeLock>>
    BY <1>2, <2>2 DEF StatPartial, TypeOK, disk, Goto, PCs, Writing
  <2> QED
    BY <1>2, <2>1, <2>2 DEF StatPartial
<1>3. CASE OpenPartial(r)
  <2>1. part' \in [Items -> File]
    BY <1>1, <1>3, InitialRecords DEF OpenPartial, TypeOK
  <2>2. job' \in [Workers -> Job]
    <3>1. [job[r] EXCEPT !.linked = TRUE] \in Job
      BY <1>1 DEF Job
    <3> QED
      BY <1>3, <3>1 DEF OpenPartial, TypeOK
  <2> QED
    BY <1>3, <2>1, <2>2 DEF OpenPartial, TypeOK, Goto, PCs, Writing
<1>4. CASE ReceiveBody(r)
  <2>1. PICK k \in 0 .. job[r].len, genuine \in BOOLEAN :
          part' = IF job[r].linked
                    THEN [part EXCEPT ![i] = Appended(part[i], job[r].start, k, genuine)]
                    ELSE part
    BY <1>4 DEF ReceiveBody
  <2>2. k \in Nat
    BY <1>1
  <2>3. Appended(part[i], job[r].start, k, genuine) \in File
    BY <1>1, <2>2, FileOperations
  <2>4. part' \in [Items -> File]
    BY <2>1, <2>3 DEF TypeOK
  <2>5. pc' \in [Workers -> PCs]
    BY <1>4 DEF ReceiveBody, TypeOK, Goto, PCs, Writing
  <2> QED
    BY <1>4, <2>4, <2>5 DEF ReceiveBody, TypeOK
<1>5. CASE UndoWrite(r)
  <2>1. Truncated(part[i], job[r].start) \in File
    BY <1>1, FileOperations
  <2>2. part' \in [Items -> File]
    BY <1>5, <2>1 DEF UndoWrite, TypeOK
  <2>3. Finish(r)
    BY <1>5 DEF UndoWrite
  <2> QED
    BY <1>5, <2>2, <2>3, FinishType DEF UndoWrite, TypeOK
<1>6. CASE SyncPartial(r)
  <2>1. Synced(part[i]) \in File
    BY <1>1, FileOperations
  <2>2. part' \in [Items -> File]
    BY <1>6, <2>1 DEF SyncPartial, TypeOK
  <2>3. CASE Finish(r)
    BY <1>6, <2>2, <2>3, FinishType DEF SyncPartial, TypeOK
  <2>4. CASE Goto(r, "commit") /\ UNCHANGED <<job, writeLock>>
    BY <1>6, <2>2, <2>4 DEF SyncPartial, TypeOK, Goto, PCs, Writing
  <2> QED
    BY <1>6, <2>3, <2>4 DEF SyncPartial
<1>7. CASE CommitCheckpoint(r)
  <2> DEFINE end == job[r].start + job[r].len
             done == [job[r].snap EXCEPT !.confirmed = end, !.state = "transferring"]
  <2>1. done \in Row
    <3>1. end \in Nat
      BY <1>1
    <3> HIDE DEF end
    <3> QED
      BY <1>1, <3>1, RowUpdates
  <2>2. row' \in [Items -> Row]
    BY <1>7, <2>1 DEF CommitCheckpoint, TypeOK
  <2>3. CommitOf(i, job[r].start, end) \in Commit
    BY <1>1 DEF CommitOf, Commit
  <2>4. commits' \subseteq Commit
    BY <1>7, <2>3 DEF CommitCheckpoint, Trimmed, TypeOK
  <2>5. job' \in [Workers -> Job]
    <3>1. [job[r] EXCEPT !.snap = done] \in Job
      BY <1>1, <2>1 DEF Job
    <3> QED
      BY <1>7, <3>1 DEF CommitCheckpoint, TypeOK
  <2> QED
    BY <1>7, <2>2, <2>4, <2>5 DEF CommitCheckpoint, TypeOK, Goto, PCs
<1>8. CASE FailCommit(r)
  BY <1>8 DEF FailCommit, TypeOK, disk, Goto, PCs, Writing
<1>9. CASE PublishProgress(r)
  <2>1. CASE Goto(r, "hash") /\ UNCHANGED <<writeLock, job, acked>>
    BY <1>9, <2>1 DEF PublishProgress, TypeOK, disk, Goto, PCs, Completing, Finalizing
  <2>2. CASE Finish(r) /\ Answer(r, i, job[r].snap.confirmed)
    <3>1. job[r].snap.confirmed \in Nat
      BY <1>1 DEF Row
    <3>2. acked' \in [Items -> Nat]
      BY <1>1, <2>2, <3>1, AnswerType
    <3> QED
      BY <1>9, <2>2, <3>2, FinishType DEF PublishProgress, TypeOK, disk
  <2> QED
    BY <1>9, <2>1, <2>2 DEF PublishProgress
<1>10. CASE FailPublish(r)
  BY <1>10, FinishType DEF FailPublish, TypeOK, disk
<1>11. CASE FailIO(r)
  BY <1>11, FinishType DEF FailIO, TypeOK, disk
<1> QED
  BY <1>2, <1>3, <1>4, <1>5, <1>6, <1>7, <1>8, <1>9, <1>10, <1>11 DEF CheckpointStep

\* So does every step of recoverCommittedCompletion and finalizeUpload.
LEMMA TypeCompletion ==
  ASSUME TypeOK, NEW w \in Workers, CompletionStep(w)
  PROVE  TypeOK'
<1> DEFINE i == job[w].item
<1>1. /\ job[w] \in Job /\ i \in Items /\ part[i] \in File
      /\ job[w].snap \in Row /\ job[w].dest \in Paths
      /\ job[w].snap.confirmed \in Nat /\ job[w].snap.final \in Paths
  BY RowUpdates DEF TypeOK, Job
<1>2. CASE ProbeFinal(w)
  BY <1>2 DEF ProbeFinal, TypeOK, disk, Goto, PCs, Completing
<1>3. CASE ProbePartial(w)
  <2>1. CASE Goto(w, "hash") /\ UNCHANGED <<writeLock, job, acked>>
    BY <1>3, <2>1 DEF ProbePartial, TypeOK, disk, Goto, PCs, Completing, Finalizing
  <2>2. CASE Goto(w, "settle") /\ UNCHANGED <<writeLock, job, acked>>
    BY <1>3, <2>2 DEF ProbePartial, TypeOK, disk, Goto, PCs
  <2>3. CASE Finish(w) /\ Answer(w, i, job[w].snap.confirmed)
    <3>1. acked' \in [Items -> Nat]
      BY <1>1, <2>3, AnswerType
    <3> QED
      BY <1>3, <2>3, <3>1, FinishType DEF ProbePartial, TypeOK, disk
  <2> QED
    BY <1>3, <2>1, <2>2, <2>3 DEF ProbePartial, NothingRecovered
<1>4. CASE HashPartial(w)
  <2>1. CASE Goto(w, "choose") /\ UNCHANGED <<writeLock, job>>
    BY <1>4, <2>1 DEF HashPartial, TypeOK, disk, Goto, PCs, Completing, Finalizing
  <2>2. CASE Finish(w)
    BY <1>4, <2>2, FinishType DEF HashPartial, TypeOK, disk
  <2> QED
    BY <1>4, <2>1, <2>2 DEF HashPartial
<1>5. CASE ChooseFinalPath(w)
  <2>1. ASSUME NEW p \in Paths, job' = [job EXCEPT ![w].dest = p],
               Goto(w, "rename"), UNCHANGED writeLock
        PROVE  TypeOK'
    <3>1. [job[w] EXCEPT !.dest = p] \in Job
      BY <1>1 DEF Job
    <3>2. job' \in [Workers -> Job]
      BY <2>1, <3>1 DEF TypeOK
    <3> QED
      BY <1>5, <2>1, <3>2 DEF ChooseFinalPath, TypeOK, disk, Goto, PCs, Completing,
                              Finalizing
  <2>2. CASE Finish(w)
    BY <1>5, <2>2, FinishType DEF ChooseFinalPath, TypeOK, disk
  <2> QED
    BY <1>5, <2>1, <2>2 DEF ChooseFinalPath
<1>6. CASE RenamePartial(w)
  <2>1. CASE part[i].exists
    <3>1. [owner |-> i, len |-> part[i].len, good |-> part[i].good] \in FinalFile
      BY <1>1 DEF FinalFile, File
    <3>2. final' \in [Paths -> FinalFile]
      BY <1>1, <1>6, <2>1, <3>1 DEF RenamePartial, TypeOK
    <3>3. part' \in [Items -> File]
      BY <1>1, <1>6, <2>1, InitialRecords DEF RenamePartial, TypeOK
    <3> QED
      BY <1>6, <2>1, <3>2, <3>3 DEF RenamePartial, TypeOK, Goto, PCs, Completing,
                                    Finalizing
  <2>2. CASE ~ part[i].exists
    BY <1>6, <2>2, FinishType DEF RenamePartial, TypeOK
  <2> QED
    BY <2>1, <2>2
<1>7. CASE RecordReady(w)
  <2>1. Size[i] \in Nat
    BY <1>1, ItemsAssumption
  <2>2. [state |-> "ready", confirmed |-> Size[i], partial |-> FALSE,
         final |-> IF pc[w] = "adopt" THEN job[w].snap.final ELSE job[w].dest] \in Row
    BY <1>1, <2>1 DEF Row
  <2>3. row' \in [Items -> Row]
    BY <1>7, <2>2 DEF RecordReady, TypeOK
  <2>4. acked' \in [Items -> Nat]
    <3>1. CASE Answer(w, i, Size[i])
      BY <1>1, <2>1, <3>1, AnswerType
    <3>2. CASE UNCHANGED acked
      BY <3>2 DEF TypeOK
    <3> QED
      BY <1>7, <3>1, <3>2 DEF RecordReady
  <2>5. Finish(w)
    BY <1>7 DEF RecordReady
  <2>6. mode' \in {"up", "down", "booting"} /\ todo' \subseteq Items
    BY <1>7 DEF RecordReady, TypeOK
  <2> QED
    BY <1>7, <2>3, <2>4, <2>5, <2>6, FinishType DEF RecordReady, TypeOK
<1> QED
  BY <1>2, <1>3, <1>4, <1>5, <1>6, <1>7 DEF CompletionStep

\* So does cancelItem.
LEMMA TypeCancel ==
  ASSUME TypeOK, NEW i \in Items,
         StartCancel(i) \/ RemoveCancelled(i) \/ RecordCancelled(i)
  PROVE  TypeOK'
<1>1. row[i] \in Row /\ cancel[i] \in Cancel /\ cancel[i].snap \in Row
  BY DEF TypeOK, Cancel
<1>2. CASE StartCancel(i)
  <2>1. [step |-> IF row[i].partial THEN "remove" ELSE "record", snap |-> row[i]]
          \in Cancel
    BY <1>1 DEF Cancel
  <2>2. cancel' \in [Items -> Cancel]
    BY <1>2, <2>1 DEF StartCancel, TypeOK
  <2> QED
    BY <1>2, <2>2 DEF StartCancel, TypeOK, disk
<1>3. CASE RemoveCancelled(i)
  <2>1. part' \in [Items -> File]
    BY <1>3, InitialRecords DEF RemoveCancelled, TypeOK
  <2>2. \A w \in Workers : [job[w] EXCEPT !.linked = FALSE] \in Job
    BY DEF TypeOK, Job
  <2>3. job' \in [Workers -> Job]
    BY <1>3, <2>2 DEF RemoveCancelled, TypeOK
  <2>4. [cancel[i] EXCEPT !.step = "record"] \in Cancel
    BY <1>1 DEF Cancel
  <2>5. cancel' \in [Items -> Cancel]
    BY <1>3, <2>4 DEF RemoveCancelled, TypeOK
  <2> QED
    BY <1>3, <2>1, <2>3, <2>5 DEF RemoveCancelled, TypeOK
<1>4. CASE RecordCancelled(i)
  <2>1. [cancel[i].snap EXCEPT !.state = "cancelled"] \in Row
    BY <1>1, RowUpdates, BoundsAssumption
  <2>2. row' \in [Items -> Row]
    BY <1>4, <2>1 DEF RecordCancelled, TypeOK
  <2> QED
    BY <1>4, <2>2, InitialRecords DEF RecordCancelled, TypeOK
<1> QED
  BY <1>2, <1>3, <1>4

\* A crash and a restart leave typed files and no work behind.
LEMMA TypeCrash ==
  ASSUME TypeOK, Crash
  PROVE  TypeOK'
<1>1. PICK kept \in [Items -> UNION {0 .. part[i].len : i \in Items}] :
        /\ \A i \in Items : part[i].synced <= kept[i] /\ kept[i] <= part[i].len
        /\ part' = [i \in Items |-> Survivor(part[i], kept[i])]
  BY DEF Crash
<1>2. \A i \in Items : kept[i] \in Nat
  BY DEF TypeOK, File
<1>3. part' \in [Items -> File]
  BY <1>1, <1>2, FileOperations DEF TypeOK
<1>4. /\ pc' \in [Workers -> PCs]
      /\ job' \in [Workers -> Job]
      /\ writeLock' \in [Items -> Requests \union {NoOne}]
      /\ cancel' \in [Items -> Cancel]
  BY InitialRecords DEF Crash, PCs
<1>5. /\ mode' = "down" /\ todo' = {} /\ crashes' = crashes + 1
      /\ UNCHANGED <<row, commits, final, acked, cancelAsked>>
  BY DEF Crash
<1> QED
  BY <1>3, <1>4, <1>5 DEF TypeOK

\* So does startup reconciliation.
LEMMA TypeBoot ==
  ASSUME TypeOK, Restart \/ BootStep
  PROVE  TypeOK'
<1> DEFINE i == job[Boot].item
<1>1. /\ Boot \in Workers /\ job[Boot] \in Job /\ i \in Items /\ part[i] \in File
      /\ part[i].len \in Nat /\ job[Boot].snap \in Row /\ job[Boot].snap.confirmed \in Nat
  BY RowUpdates DEF TypeOK, Job, Workers, File
<1>2. CASE Restart
  BY <1>2 DEF Restart, TypeOK, disk
<1>3. ASSUME NEW k \in Items, VisitItem(k)
      PROVE  TypeOK'
  <2>1. row[k] \in Row /\ row[k].final \in Paths
    BY RowUpdates DEF TypeOK
  <2>2. [NoJob EXCEPT !.item = k, !.snap = row[k], !.dest = row[k].final] \in Job
    BY <2>1, InitialRecords DEF Job
  <2>3. job' \in [Workers -> Job]
    BY <1>3, <2>2 DEF VisitItem, TypeOK
  <2> QED
    BY <1>3, <2>3 DEF VisitItem, TypeOK, disk, Goto, PCs, Completing
<1>4. CASE SettlePartial
  <2>1. Truncated(part[i], job[Boot].snap.confirmed) \in File
    BY <1>1, FileOperations
  <2>2. part' \in [Items -> File]
    BY <1>4, <2>1 DEF SettlePartial, TypeOK
  <2>3. [job[Boot] EXCEPT !.snap = [job[Boot].snap EXCEPT !.confirmed = part[i].len]] \in Job
    <3>1. [job[Boot].snap EXCEPT !.confirmed = part[i].len] \in Row
      BY <1>1, RowUpdates
    <3> QED
      BY <1>1, <3>1 DEF Job
  <2>4. job' \in [Workers -> Job]
    BY <1>1, <1>4, <2>3 DEF SettlePartial, TypeOK
  <2>5. commits' \subseteq Commit
    BY <1>4 DEF SettlePartial, CommitsUpTo, TypeOK
  <2> QED
    BY <1>4, <2>2, <2>4, <2>5 DEF SettlePartial, TypeOK, Goto, PCs
<1>5. CASE ResetRow
  <2> DEFINE offset == job[Boot].snap.confirmed
             settled == [job[Boot].snap EXCEPT
                           !.state = IF offset > 0 THEN "transferring" ELSE "pending"]
  <2>1. settled \in Row
    BY <1>1, RowUpdates
  <2>2. row' \in [Items -> Row]
    BY <1>5, <2>1 DEF ResetRow, TypeOK
  <2>3. CASE offset = Size[i]
    <3>1. [job[Boot] EXCEPT !.snap = settled] \in Job
      BY <1>1, <2>1 DEF Job
    <3>2. job' \in [Workers -> Job]
      BY <1>5, <2>3, <3>1 DEF ResetRow, TypeOK
    <3> QED
      BY <1>5, <2>2, <2>3, <3>2 DEF ResetRow, TypeOK, Goto, PCs, Completing
  <2>4. CASE offset # Size[i]
    <3>1. Finish(Boot)
      BY <1>5, <2>4 DEF ResetRow
    <3> QED
      BY <1>1, <1>5, <2>2, <3>1, FinishType DEF ResetRow, TypeOK
  <2> QED
    BY <2>3, <2>4
<1>6. CASE FinishBoot
  BY <1>6 DEF FinishBoot, TypeOK, disk
<1> QED
  BY <1>2, <1>3, <1>4, <1>5, <1>6 DEF BootStep

\* No step of the store leaves its type.
LEMMA TypeNext == TypeOK /\ [Next]_vars => TypeOK'
<1> SUFFICES ASSUME TypeOK, [Next]_vars
             PROVE  TypeOK'
  OBVIOUS
<1>1. \A i \in Items : Size[i] \in Nat
  BY ItemsAssumption
<1>2. ASSUME NEW i \in Items,
             Register(i) \/ ReportStatus(i) \/ \E cut \in 1 .. Size[i] : ForgetCommits(i, cut)
      PROVE  TypeOK'
  <2>1. Paths # {}
    BY InitialRecords DEF Row
  <2> QED
    BY <1>1, <1>2, <2>1, TypeService
<1>3. ASSUME NEW p \in Paths, NEW i \in Items, NEW n \in {0, Size[i]}, DropForeignFile(p, n)
      PROVE  TypeOK'
  BY <1>1, <1>3, TypeService
<1>4. CASE UNCHANGED vars
  BY <1>4 DEF TypeOK, vars
<1> QED
  BY <1>2, <1>3, <1>4, TypeStart, TypeCheckpoint, TypeCompletion, TypeCancel, TypeCrash,
     TypeBoot DEF Next

\* Every record, file, lock and counter of the store stays well formed: no
\* handler writes a state, an offset or a path outside its type, whatever the
\* interleaving, the failures and the crashes.
THEOREM TypeCorrect == Spec => []TypeOK
<1>1. Init => TypeOK
  BY TypeInit
<1>2. TypeOK /\ [Next]_vars => TypeOK'
  BY TypeNext
<1> QED
  BY <1>1, <1>2, PTL DEF Spec

-----------------------------------------------------------------------------
(* The inductive invariant.  Two lemmas cover the many steps that change no  *)
(* data: a worker leaves, or goes on to the next step of a completion.       *)

\* The parts of the invariant that speak of data.
ItemsAgree == \A i \in Items : cancelAsked[i] \/ ItemSound(i)
WritersAgree ==
  \A r \in Requests : pc[r] \in Writing => cancelAsked[job[r].item] \/ WriterSound(r)
FinishersAgree ==
  \A w \in Workers : Finishes(w) => cancelAsked[job[w].item] \/ FinisherSound(w)
BootAgrees == cancelAsked[job[Boot].item] \/ BootSound

\* StoreInvariant as the conjunction of the named parts the step lemmas treat.
LEMMA InvariantParts ==
  StoreInvariant <=> /\ FilesSound /\ LocksHeld /\ BootAlone /\ CancelKnown
                     /\ ItemsAgree /\ WritersAgree /\ FinishersAgree /\ BootAgrees
BY DEF StoreInvariant, ItemsAgree, WritersAgree, FinishersAgree, BootAgrees

watched == <<row, part, cancel, mode, cancelAsked>>

\* The worker's step names are distinct sets.
LEMMA StepNames ==
  /\ "idle" \notin Writing /\ "publish" \notin Writing
  /\ "idle" \notin Completing /\ "publish" \notin Completing
  /\ "settle" \notin Completing /\ "reset" \notin Completing
  /\ "settle" \notin Writing /\ "reset" \notin Writing
  /\ Writing \cap Completing = {}
BY DEF Writing, Completing, Finalizing

\* What is known of the worker that takes a step.
LEMMA WorkerFacts ==
  ASSUME TypeOK, NEW w \in Workers
  PROVE  /\ job[w] \in Job /\ job[w].item \in Items
         /\ job[w].start \in Nat /\ job[w].len \in Nat
         /\ job[w].snap \in Row /\ job[w].snap.confirmed \in Nat
         /\ row[job[w].item] \in Row /\ row[job[w].item].confirmed \in Nat
         /\ part[job[w].item] \in File
         /\ Size[job[w].item] \in Nat
BY ItemsAssumption DEF TypeOK, Job, Row

\* A worker that returns can only lose duties: with records and files that
\* still agree the invariant holds.
LEMMA InvariantFinish ==
  ASSUME TypeOK, StoreInvariant, NEW w \in Workers, Finish(w), UNCHANGED watched
  PROVE  StoreInvariant'
<1>1. /\ pc' = [pc EXCEPT ![w] = "idle"] /\ job' = [job EXCEPT ![w] = NoJob]
      /\ pc'[w] = "idle"
      /\ \A v \in Workers : v # w => pc'[v] = pc[v] /\ job'[v] = job[v]
      /\ \A i \in Items : writeLock[i] # w => writeLock'[i] = writeLock[i]
  BY DEF Finish, Goto, TypeOK
<1>2. FilesSound' /\ CancelKnown' /\ ItemsAgree'
  BY DEF StoreInvariant, FilesSound, CancelKnown, ItemsAgree, ItemSound, watched
<1>3. LocksHeld'
  BY <1>1, StepNames DEF StoreInvariant, LocksHeld, TypeOK, Job, Workers
<1>4. BootAlone'
  BY <1>1 DEF StoreInvariant, BootAlone, Workers, watched
<1>5. WritersAgree'
  BY <1>1, StepNames DEF StoreInvariant, WritersAgree, WriterSound, Workers, watched
<1>6. FinishersAgree'
  BY <1>1, StepNames DEF StoreInvariant, FinishersAgree, FinisherSound, Finishes, watched
<1>7. BootAgrees'
  BY <1>1, StepNames DEF StoreInvariant, BootAgrees, BootSound, Workers, watched
<1> QED
  BY <1>2, <1>3, <1>4, <1>5, <1>6, <1>7, InvariantParts DEF StoreInvariant, ItemsAgree,
     WritersAgree, FinishersAgree, BootAgrees

\* A step that only moves one worker on keeps the invariant if what is
\* expected of that worker at its new place holds.
LEMMA InvariantMove ==
  ASSUME TypeOK, StoreInvariant, NEW w \in Workers, NEW l \in Completing,
         Finishes(w), Goto(w, l), UNCHANGED watched, UNCHANGED writeLock,
         job' \in [Workers -> Job],
         \A v \in Workers : job'[v].item = job[v].item /\ job'[v].snap = job[v].snap,
         \A v \in Workers : v # w => job'[v] = job[v]
  PROVE  StoreInvariant'
<1>1. /\ pc'[w] = l
      /\ \A v \in Workers : v # w => pc'[v] = pc[v]
  BY DEF Goto, TypeOK
<1>2. FilesSound' /\ CancelKnown' /\ ItemsAgree'
  BY DEF StoreInvariant, FilesSound, CancelKnown, ItemsAgree, ItemSound, watched
<1>3. LocksHeld'
  BY <1>1, StepNames DEF StoreInvariant, LocksHeld, Workers
<1>4. BootAlone'
  BY <1>1, StepNames DEF StoreInvariant, BootAlone, Workers, watched, Finishes
<1>5. WritersAgree'
  BY <1>1, StepNames DEF StoreInvariant, WritersAgree, WriterSound, Workers, watched
<1>6. FinishersAgree'
  BY <1>1 DEF StoreInvariant, FinishersAgree, FinisherSound, Finishes, watched
<1>7. BootAgrees'
  BY <1>1, StepNames DEF StoreInvariant, BootAgrees, BootSound, BootAlone, Finishes,
     Workers, watched
<1> QED
  BY <1>2, <1>3, <1>4, <1>5, <1>6, <1>7, InvariantParts DEF StoreInvariant, ItemsAgree,
     WritersAgree, FinishersAgree, BootAgrees

\* In the empty store the invariant holds.
LEMMA InvariantInit == Init => StoreInvariant
<1> SUFFICES ASSUME Init
             PROVE  StoreInvariant
  OBVIOUS
<1>1. \A w \in Workers : pc[w] = "idle"
  BY DEF Init
<1>2. FilesSound /\ ItemsAgree /\ CancelKnown
  BY ItemsAssumption DEF Init, FilesSound, ItemsAgree, ItemSound, CancelKnown, Gone, NoRow,
     NoCancel
<1>3. LocksHeld /\ BootAlone /\ WritersAgree
  BY <1>1, StepNames DEF LocksHeld, BootAlone, WritersAgree, Workers
<1>4. FinishersAgree /\ BootAgrees
  BY <1>1, StepNames DEF FinishersAgree, BootAgrees, Finishes, BootSound, Workers
<1> QED
  BY <1>2, <1>3, <1>4, InvariantParts

\* Steps that touch nothing the invariant speaks of.
LEMMA InvariantStutter ==
  ASSUME StoreInvariant, UNCHANGED <<row, part, writeLock, pc, job, cancel, mode, cancelAsked>>
  PROVE  StoreInvariant'
BY DEF StoreInvariant, FilesSound, LocksHeld, BootAlone, CancelKnown, ItemSound,
   WriterSound, FinisherSound, Finishes, BootSound

\* A new record is about an item of which nothing is on disk and nobody works on.
LEMMA InvariantRegister ==
  ASSUME TypeOK, StoreInvariant, NEW i \in Items, Register(i)
  PROVE  StoreInvariant'
<1>1. /\ mode = "up" /\ row[i].state = "absent"
      /\ \A j \in Items : j # i => row'[j] = row[j]
      /\ row'[i].confirmed = 0 /\ row'[i].state # "absent"
      /\ UNCHANGED <<part, writeLock, pc, job, cancel, mode, cancelAsked>>
  <2>1. PICK q \in Paths :
          row' = [row EXCEPT ![i] =
                    [state |-> IF Size[i] = 0 THEN "ready" ELSE "pending",
                     confirmed |-> 0, partial |-> Size[i] # 0, final |-> q]]
    BY DEF Register
  <2>2. row'[i] = [state |-> IF Size[i] = 0 THEN "ready" ELSE "pending",
                   confirmed |-> 0, partial |-> Size[i] # 0, final |-> q]
    BY <2>1 DEF TypeOK
  <2>3. \A j \in Items : j # i => row'[j] = row[j]
    BY <2>1 DEF TypeOK
  <2>4. row'[i].confirmed = 0 /\ row'[i].state # "absent"
    BY <2>2
  <2>5. mode = "up" /\ row[i].state = "absent"
    BY DEF Register
  <2>6. UNCHANGED <<part, writeLock, pc, job, cancel, mode, cancelAsked>>
    BY DEF Register
  <2> QED
    BY <2>3, <2>4, <2>5, <2>6
<1>2. cancelAsked[i] \/ (row[i].confirmed = 0 /\ ~ part[i].exists)
  BY <1>1 DEF StoreInvariant, ItemSound
<1>3. FilesSound' /\ LocksHeld' /\ BootAlone' /\ CancelKnown'
  BY <1>1 DEF StoreInvariant, FilesSound, LocksHeld, BootAlone, CancelKnown
<1>4. ItemsAgree'
  <2> SUFFICES ASSUME NEW j \in Items, ~ cancelAsked[j]
               PROVE  ItemSound(j)'
    BY <1>1 DEF ItemsAgree
  <2>1. CASE j = i
    BY <1>1, <1>2, <2>1, ItemsAssumption DEF ItemSound, StoreInvariant, TypeOK, File
  <2>2. CASE j # i
    BY <1>1, <2>2 DEF ItemSound, StoreInvariant
  <2> QED
    BY <2>1, <2>2
<1>5. WritersAgree'
  <2> SUFFICES ASSUME NEW r \in Requests, pc[r] \in Writing, ~ cancelAsked[job[r].item]
               PROVE  WriterSound(r)'
    BY <1>1 DEF WritersAgree
  <2>1. WriterSound(r) /\ job[r].item # i /\ job[r].item \in Items
    BY <1>1, WorkerFacts DEF StoreInvariant, WriterSound, Live, Workers
  <2> QED
    BY <1>1, <2>1 DEF WriterSound
<1>6. FinishersAgree'
  <2> SUFFICES ASSUME NEW w \in Workers, Finishes(w), ~ cancelAsked[job[w].item]
               PROVE  FinisherSound(w)'
    BY <1>1 DEF FinishersAgree, Finishes
  <2>1. FinisherSound(w) /\ job[w].item \in Items
    BY WorkerFacts DEF StoreInvariant
  <2> QED
    BY <1>1, <1>2, <2>1 DEF FinisherSound
<1>7. BootAgrees'
  BY <1>1, StepNames DEF StoreInvariant, BootAgrees, BootAlone, BootSound
<1> QED
  BY <1>3, <1>4, <1>5, <1>6, <1>7, InvariantParts DEF StoreInvariant, ItemsAgree,
     WritersAgree, FinishersAgree, BootAgrees

\* The checks up to the first await establish what a writer relies on.
LEMMA InvariantStart ==
  ASSUME TypeOK, StoreInvariant, NEW r \in Requests,
         \/ \E i \in Items, n \in 1 .. MaxChunk : StartCheckpoint(r, i, n)
         \/ \E c \in commits : StartReplay(r, c)
  PROVE  StoreInvariant'
<1> r \in Workers /\ r # Boot /\ Boot \in Workers
  BY WorkersAssumption DEF Workers
<1>1. ASSUME NEW i \in Items, NEW n \in 1 .. MaxChunk, StartCheckpoint(r, i, n)
      PROVE  StoreInvariant'
  <2>1. /\ mode = "up" /\ row[i].state \in Live /\ writeLock[i] = NoOne
        /\ row[i].confirmed + n <= Size[i]
        /\ writeLock' = [writeLock EXCEPT ![i] = r]
        /\ job'[r].item = i /\ job'[r].start = row[i].confirmed /\ job'[r].len = n
        /\ job'[r].snap = row[i]
        /\ pc'[r] = IF row[i].confirmed > 0 THEN "stat" ELSE "open"
        /\ \A v \in Workers : v # r => pc'[v] = pc[v] /\ job'[v] = job[v]
        /\ UNCHANGED watched
    BY <1>1 DEF StartCheckpoint, WriteLockFree, Goto, TypeOK, disk, watched
  <2>2. pc'[r] \in {"stat", "open"} /\ pc'[r] \in Writing
    BY <2>1 DEF Writing
  <2>3. FilesSound' /\ CancelKnown' /\ ItemsAgree'
    BY <2>1 DEF StoreInvariant, FilesSound, CancelKnown, ItemsAgree, ItemSound, watched
  <2>4. LocksHeld'
    BY <2>1, WorkersAssumption, WorkerFacts DEF StoreInvariant, LocksHeld, TypeOK, Workers
  <2>5. BootAlone'
    BY <2>1, <2>2, StepNames DEF StoreInvariant, BootAlone, Workers, watched
  <2>6. WritersAgree'
    <3>1. ASSUME NEW s \in Requests, s # r, pc[s] \in Writing, ~ cancelAsked[job[s].item]
          PROVE  WriterSound(s)'
      BY <2>1, <3>1 DEF StoreInvariant, WriterSound, Workers, watched
    <3>2. WriterSound(r)'
      BY <2>1, <2>2 DEF WriterSound, TypeOK, Row, watched
    <3> QED
      BY <2>1, <3>1, <3>2 DEF WritersAgree, Workers, watched
  <2>7. FinishersAgree'
    BY <2>1, <2>2, StepNames DEF StoreInvariant, FinishersAgree, FinisherSound, Finishes,
       watched
  <2>8. BootAgrees'
    BY <2>1 DEF StoreInvariant, BootAgrees, BootSound, watched
  <2> QED
    BY <2>3, <2>4, <2>5, <2>6, <2>7, <2>8, InvariantParts DEF StoreInvariant, ItemsAgree,
       WritersAgree, FinishersAgree, BootAgrees
<1>2. ASSUME NEW c \in commits, StartReplay(r, c)
      PROVE  StoreInvariant'
  <2>1. CASE UNCHANGED <<pc, job>>
    BY <1>2, <2>1, InvariantStutter DEF StartReplay, disk
  <2>2. CASE ~ UNCHANGED <<pc, job>>
    <3>1. c.item \in Items
      BY DEF TypeOK, Commit
    <3>2. /\ mode = "up" /\ row[c.item].confirmed = Size[c.item]
          /\ pc'[r] = "probe" /\ UNCHANGED writeLock
          /\ \A v \in Workers : v # r => pc'[v] = pc[v] /\ job'[v] = job[v]
          /\ UNCHANGED watched
      BY <1>2, <2>2 DEF StartReplay, Goto, TypeOK, disk, watched
    <3>3. job'[r].item = c.item
      <4>1. job' = [job EXCEPT ![r] = [NoJob EXCEPT !.item = c.item,
                                                    !.snap = row[c.item],
                                                    !.dest = row[c.item].final]]
        BY <1>2, <2>2 DEF StartReplay
      <4> QED
        BY <4>1, InitialRecords DEF TypeOK, Job
    <3>4. pc'[r] \in Completing
      BY <3>2 DEF Completing
    <3>5. FilesSound' /\ CancelKnown' /\ ItemsAgree'
      BY <3>2 DEF StoreInvariant, FilesSound, CancelKnown, ItemsAgree, ItemSound, watched
    <3>6. LocksHeld' /\ BootAlone'
      BY <3>2, <3>4, StepNames DEF StoreInvariant, LocksHeld, BootAlone, Workers, watched
    <3>7. WritersAgree'
      BY <3>2, <3>4, StepNames DEF StoreInvariant, WritersAgree, WriterSound, Workers, watched
    <3>8. FinishersAgree'
      BY <3>2, <3>3 DEF StoreInvariant, FinishersAgree, FinisherSound, Finishes, watched
    <3>9. BootAgrees'
      BY <3>2 DEF StoreInvariant, BootAgrees, BootSound, watched
    <3> QED
      BY <3>5, <3>6, <3>7, <3>8, <3>9, InvariantParts DEF StoreInvariant, ItemsAgree,
         WritersAgree, FinishersAgree, BootAgrees
  <2> QED
    BY <2>1, <2>2
<1> QED
  BY <1>1, <1>2

\* One writer: two requests that write, or are about to answer, an item are one.
LEMMA LockExcludes ==
  ASSUME StoreInvariant, NEW r \in Requests, NEW s \in Requests,
         pc[r] \in Writing \union {"publish"}, pc[s] \in Writing \union {"publish"},
         job[r].item = job[s].item
  PROVE  r = s
BY DEF StoreInvariant, LocksHeld

\* A writer and a completion are never at work on the same item.
LEMMA WriterExcludesFinisher ==
  ASSUME TypeOK, StoreInvariant, NEW r \in Requests, NEW w \in Workers,
         pc[r] \in Writing, Finishes(w), job[r].item = job[w].item
  PROVE  cancelAsked[job[r].item]
<1>1. r \in Workers
  BY DEF Workers
<1>2. cancelAsked[job[r].item] \/ (WriterSound(r) /\ FinisherSound(w))
  BY DEF StoreInvariant
<1> QED
  BY <1>1, <1>2, WorkerFacts DEF WriterSound, FinisherSound

\* A writer whose file was not touched by others: what holds of the file.
LEMMA WriterFile ==
  ASSUME TypeOK, StoreInvariant, NEW r \in Requests, pc[r] \in Writing,
         ~ cancelAsked[job[r].item]
  PROVE  /\ part[job[r].item].good >= job[r].start
         /\ part[job[r].item].synced >= job[r].start
         /\ part[job[r].item].good <= part[job[r].item].len
         /\ part[job[r].item].synced <= part[job[r].item].len
         /\ row[job[r].item].confirmed = job[r].start
         /\ job[r].start < Size[job[r].item]
         /\ job[r].start + job[r].len <= Size[job[r].item]
         /\ row[job[r].item].state # "absent"
         /\ ~ part[job[r].item].exists => part[job[r].item].len = 0
<1>1. r \in Workers
  BY DEF Workers
<1>2. WriterSound(r) /\ ItemSound(job[r].item)
  BY <1>1, WorkerFacts DEF StoreInvariant
<1> QED
  BY <1>1, <1>2, WorkerFacts DEF WriterSound, ItemSound, StoreInvariant, FilesSound, Live

\* Steps of a writer that change its partial file only.
LEMMA InvariantWrite ==
  ASSUME TypeOK, TypeOK', StoreInvariant, NEW r \in Requests, pc[r] \in Writing,
         pc' = [pc EXCEPT ![r] = pc'[r]], pc'[r] \in Writing,
         UNCHANGED <<row, writeLock, cancel, mode, cancelAsked>>,
         \A i \in Items : i # job[r].item => part'[i] = part[i],
         \A v \in Workers : v # r => job'[v] = job[v],
         job'[r].item = job[r].item,
         part'[job[r].item].good <= part'[job[r].item].len,
         part'[job[r].item].synced <= part'[job[r].item].len,
         ~ cancelAsked[job[r].item] =>
           /\ WriterSound(r)'
           /\ ~ part'[job[r].item].exists => part'[job[r].item].len = 0
           /\ part'[job[r].item].good >= job[r].start
           /\ part'[job[r].item].synced >= job[r].start
  PROVE  StoreInvariant'
<1> DEFINE i == job[r].item
<1> r \in Workers /\ r # Boot /\ Boot \in Workers
  BY WorkersAssumption DEF Workers
<1>1. \A v \in Workers : v # r => pc'[v] = pc[v]
  BY DEF TypeOK
<1>2. i \in Items /\ \A v \in Workers : job'[v].item = job[v].item
  BY WorkerFacts
<1>3. FilesSound'
  BY <1>2 DEF StoreInvariant, FilesSound
<1>4. LocksHeld' /\ BootAlone' /\ CancelKnown'
  BY <1>1, <1>2, StepNames DEF StoreInvariant, LocksHeld, BootAlone, CancelKnown, Workers
<1>5. ItemsAgree'
  <2> SUFFICES ASSUME NEW k \in Items, ~ cancelAsked[k]
               PROVE  ItemSound(k)'
    BY DEF ItemsAgree
  <2>1. CASE k = i
    BY <2>1, WriterFile, WorkerFacts DEF ItemSound
  <2>2. CASE k # i
    BY <2>2 DEF StoreInvariant, ItemSound
  <2> QED
    BY <2>1, <2>2
<1>6. WritersAgree'
  <2> SUFFICES ASSUME NEW s \in Requests, s # r, pc[s] \in Writing,
                      ~ cancelAsked[job[s].item]
               PROVE  WriterSound(s)'
    BY <1>1, <1>2 DEF WritersAgree, Workers
  <2>1. WriterSound(s) /\ s \in Workers /\ job[s].item # i /\ job[s].item \in Items
    BY LockExcludes, WorkerFacts DEF StoreInvariant, Workers
  <2> QED
    BY <1>1, <2>1 DEF WriterSound
<1>7. FinishersAgree'
  <2> SUFFICES ASSUME NEW w \in Workers, Finishes(w)', ~ cancelAsked[job[w].item]
               PROVE  FinisherSound(w)'
    BY <1>2 DEF FinishersAgree
  <2>1. w # r /\ Finishes(w)
    BY <1>1, StepNames DEF Finishes
  <2> QED
    BY <2>1 DEF StoreInvariant, FinisherSound
<1>8. BootAgrees'
  BY <1>1, StepNames DEF StoreInvariant, BootAgrees, BootAlone, BootSound
<1> QED
  BY <1>3, <1>4, <1>5, <1>6, <1>7, <1>8, InvariantParts DEF StoreInvariant, ItemsAgree,
     WritersAgree, FinishersAgree, BootAgrees

\* Each step of a checkpoint keeps the invariant: the lock keeps everybody
\* else off the item's record and file.
LEMMA InvariantCheckpoint ==
  ASSUME TypeOK, TypeOK', StoreInvariant, NEW r \in Requests, CheckpointStep(r)
  PROVE  StoreInvariant'
<1> DEFINE i == job[r].item
           f == part[i]
<1> r \in Workers /\ r # Boot /\ Boot \in Workers
  BY WorkersAssumption DEF Workers
<1> USE WorkerFacts
<1>1. /\ f.good <= f.len /\ f.synced <= f.len
      /\ f.len \in Nat /\ f.good \in Nat /\ f.synced \in Nat
  BY DEF StoreInvariant, FilesSound, File
<1>2. CASE StatPartial(r)
  <2>1. CASE Finish(r)
    BY <1>2, <2>1, InvariantFinish DEF StatPartial, disk, watched
  <2>2. CASE /\ f.exists /\ f.len = job[r].start
             /\ Goto(r, "open") /\ UNCHANGED <<job, writeLock>>
    <3>1. /\ pc[r] \in Writing /\ pc' = [pc EXCEPT ![r] = "open"] /\ pc'[r] = "open"
          /\ UNCHANGED <<row, part, cancel, mode, cancelAsked, job, writeLock>>
      BY <1>2, <2>2 DEF StatPartial, Goto, TypeOK, disk, Writing
    <3>2. ASSUME ~ cancelAsked[i]
          PROVE  WriterSound(r)'
      BY <2>2, <3>1, <3>2 DEF StoreInvariant, WriterSound
    <3> QED
      BY <1>1, <3>1, <3>2, InvariantWrite, WriterFile DEF Writing
  <2> QED
    BY <1>2, <2>1, <2>2 DEF StatPartial
<1>3. CASE OpenPartial(r)
  <2>1. /\ pc[r] \in Writing /\ pc[r] = "open" /\ pc' = [pc EXCEPT ![r] = "body"]
        /\ pc'[r] = "body"
        /\ part'[i] = IF job[r].start = 0 \/ ~ f.exists THEN Empty ELSE f
        /\ \A k \in Items : k # i => part'[k] = part[k]
        /\ UNCHANGED <<row, writeLock, cancel, mode, cancelAsked>>
    BY <1>3 DEF OpenPartial, Goto, TypeOK, Writing
  <2>2. /\ job'[r].item = i /\ job'[r].start = job[r].start /\ job'[r].len = job[r].len
        /\ job'[r].snap = job[r].snap /\ job'[r].linked
        /\ \A v \in Workers : v # r => job'[v] = job[v]
    BY <1>3 DEF OpenPartial, TypeOK, Job
  <2>3. ASSUME ~ cancelAsked[i]
        PROVE  /\ WriterSound(r)'
               /\ part'[i].good >= job[r].start /\ part'[i].synced >= job[r].start
    <3>1. WriterSound(r)
      BY <2>1, <2>3 DEF StoreInvariant
    <3>2. /\ part'[i].exists /\ part'[i].len = job[r].start
          /\ part'[i].good >= job[r].start /\ part'[i].synced >= job[r].start
      BY <1>1, <2>1, <2>3, <3>1, WriterFile DEF WriterSound, Empty, Gone
    <3> QED
      BY <2>1, <2>2, <3>1, <3>2 DEF WriterSound
  <2>4. /\ part'[i].good <= part'[i].len /\ part'[i].synced <= part'[i].len
        /\ part'[i].exists
    BY <1>1, <2>1 DEF Empty, Gone
  <2> QED
    BY <2>1, <2>2, <2>3, <2>4, InvariantWrite DEF Writing
<1>4. CASE ReceiveBody(r)
  <2>1. PICK k \in 0 .. job[r].len, genuine \in BOOLEAN :
          /\ part' = IF job[r].linked
                       THEN [part EXCEPT ![i] = Appended(f, job[r].start, k, genuine)]
                       ELSE part
          /\ \/ BodyAccepted(r, k, genuine) /\ Goto(r, "sync")
             \/ Goto(r, "undo")
    BY <1>4 DEF ReceiveBody
  <2>2. /\ pc[r] = "body" /\ pc[r] \in Writing
        /\ pc' = [pc EXCEPT ![r] = pc'[r]] /\ pc'[r] \in {"sync", "undo"}
        /\ \A j \in Items : j # i => part'[j] = part[j]
        /\ UNCHANGED <<row, writeLock, job, cancel, mode, cancelAsked>>
    BY <1>4, <2>1 DEF ReceiveBody, Goto, TypeOK, Writing
  <2>3. part'[i] = IF job[r].linked THEN Appended(f, job[r].start, k, genuine) ELSE f
    BY <2>1 DEF TypeOK
  <2>4. part'[i].good <= part'[i].len /\ part'[i].synced <= part'[i].len
    BY <1>1, <2>3 DEF Appended
  <2>5. ASSUME ~ cancelAsked[i]
        PROVE  /\ WriterSound(r)' /\ part'[i].exists
               /\ part'[i].good >= job[r].start /\ part'[i].synced >= job[r].start
    <3>1. WriterSound(r)
      BY <2>2, <2>5 DEF StoreInvariant
    <3>2. /\ job[r].linked /\ f.exists /\ f.len = job[r].start /\ f.good = job[r].start
          /\ f.synced >= job[r].start
      BY <1>1, <2>2, <2>5, <3>1, WriterFile DEF WriterSound
    <3>3. /\ part'[i].exists
          /\ part'[i].good >= job[r].start /\ part'[i].synced >= job[r].start
      BY <1>1, <2>3, <3>2 DEF Appended
    <3>4. pc'[r] = "sync" => k = job[r].len /\ genuine
      BY <2>1 DEF Goto, TypeOK, BodyAccepted
    <3>5. pc'[r] = "sync" => /\ part'[i].len = job[r].start + job[r].len
                             /\ part'[i].good = job[r].start + job[r].len
      BY <1>1, <2>3, <3>2, <3>4 DEF Appended
    <3> QED
      BY <2>2, <3>1, <3>3, <3>5 DEF WriterSound
  <2> QED
    BY <2>2, <2>4, <2>5, InvariantWrite DEF Writing
<1>5. CASE SyncPartial(r)
  <2>1. CASE ~ f.exists
    BY <1>5, <2>1, InvariantFinish DEF SyncPartial, watched
  <2>2. CASE f.exists
    <3>1. /\ pc[r] = "sync" /\ pc[r] \in Writing /\ pc' = [pc EXCEPT ![r] = "commit"]
          /\ pc'[r] = "commit" /\ part'[i] = Synced(f)
          /\ \A k \in Items : k # i => part'[k] = part[k]
          /\ UNCHANGED <<row, writeLock, job, cancel, mode, cancelAsked>>
      BY <1>5, <2>2 DEF SyncPartial, Goto, TypeOK, Writing
    <3>2. /\ part'[i].len = f.len /\ part'[i].good = f.good /\ part'[i].synced = f.len
          /\ part'[i].exists
      BY <2>2, <3>1 DEF Synced, File
    <3>3. ASSUME ~ cancelAsked[i]
          PROVE  /\ WriterSound(r)'
                 /\ part'[i].good >= job[r].start /\ part'[i].synced >= job[r].start
      <4>1. WriterSound(r)
        BY <3>1, <3>3 DEF StoreInvariant
      <4> QED
        BY <1>1, <3>1, <3>2, <4>1 DEF WriterSound
    <3>4. part'[i].good <= part'[i].len /\ part'[i].synced <= part'[i].len
      BY <1>1, <3>2
    <3> QED
      BY <3>1, <3>2, <3>3, <3>4, InvariantWrite DEF Writing
  <2> QED
    BY <2>1, <2>2
<1>6. CASE FailCommit(r)
  <2>1. /\ pc[r] = "commit" /\ pc[r] \in Writing /\ pc' = [pc EXCEPT ![r] = "undo"]
        /\ pc'[r] = "undo"
        /\ UNCHANGED <<row, part, writeLock, job, cancel, mode, cancelAsked>>
    BY <1>6 DEF FailCommit, Goto, TypeOK, Writing, disk
  <2>2. ASSUME ~ cancelAsked[i]
        PROVE  WriterSound(r)'
    BY <2>1, <2>2 DEF StoreInvariant, WriterSound
  <2> QED
    BY <1>1, <2>1, <2>2, InvariantWrite, WriterFile DEF Writing
<1>7. CASE FailPublish(r)
  BY <1>7, InvariantFinish DEF FailPublish, disk, watched
<1>8. CASE FailIO(r)
  BY <1>8, InvariantFinish DEF FailIO, disk, watched
<1>9. CASE PublishProgress(r)
  <2>1. CASE Finish(r)
    BY <1>9, <2>1, InvariantFinish DEF PublishProgress, disk, watched
  <2>2. CASE /\ job[r].snap.confirmed = Size[i]
             /\ Goto(r, "hash") /\ UNCHANGED <<writeLock, job, acked>>
    <3>1. Finishes(r) /\ "hash" \in Completing /\ UNCHANGED watched
      BY <1>9, <2>2 DEF PublishProgress, Finishes, Completing, Finalizing, disk, watched
    <3> QED
      BY <2>2, <3>1, InvariantMove DEF TypeOK
  <2> QED
    BY <1>9, <2>1, <2>2 DEF PublishProgress
<1>10. CASE UndoWrite(r)
  <2>1. /\ pc[r] = "undo" /\ pc[r] \in Writing /\ Finish(r)
        /\ part'[i] = Truncated(f, job[r].start)
        /\ \A k \in Items : k # i => part'[k] = part[k]
        /\ UNCHANGED <<row, cancel, mode, cancelAsked>>
    BY <1>10 DEF UndoWrite, TypeOK, Writing
  <2>2. /\ pc' = [pc EXCEPT ![r] = "idle"] /\ job' = [job EXCEPT ![r] = NoJob]
        /\ pc'[r] = "idle"
        /\ \A v \in Workers : v # r => pc'[v] = pc[v] /\ job'[v] = job[v]
        /\ \A k \in Items : writeLock[k] # r => writeLock'[k] = writeLock[k]
    BY <2>1 DEF Finish, Goto, TypeOK
  <2>3. part'[i].good <= part'[i].len /\ part'[i].synced <= part'[i].len
    BY <1>1, <2>1 DEF Truncated, Lesser, File
  <2>4. FilesSound' /\ CancelKnown'
    BY <2>1, <2>3 DEF StoreInvariant, FilesSound, CancelKnown
  <2>5. LocksHeld' /\ BootAlone'
    BY <2>1, <2>2, StepNames DEF StoreInvariant, LocksHeld, BootAlone, TypeOK, Workers
  <2>6. ItemsAgree'
    <3> SUFFICES ASSUME NEW k \in Items, ~ cancelAsked[k]
                 PROVE  ItemSound(k)'
      BY <2>1 DEF ItemsAgree
    <3>1. CASE k = i
      <4>1. /\ part'[i].good >= job[r].start /\ part'[i].synced >= job[r].start
            /\ ~ part'[i].exists => part'[i].len = 0
        BY <1>1, <2>1, <3>1, WriterFile DEF Truncated, Lesser
      <4> QED
        BY <2>1, <3>1, <4>1, WriterFile DEF ItemSound
    <3>2. CASE k # i
      BY <2>1, <3>2 DEF StoreInvariant, ItemSound
    <3> QED
      BY <3>1, <3>2
  <2>7. WritersAgree'
    <3> SUFFICES ASSUME NEW s \in Requests, s # r, pc[s] \in Writing,
                        ~ cancelAsked[job[s].item]
                 PROVE  WriterSound(s)'
      BY <2>1, <2>2, StepNames DEF WritersAgree, Workers
    <3>1. WriterSound(s) /\ s \in Workers /\ job[s].item # i /\ job[s].item \in Items
      BY <2>1, LockExcludes DEF StoreInvariant, Workers
    <3> QED
      BY <2>1, <2>2, <3>1 DEF WriterSound
  <2>8. FinishersAgree'
    BY <2>1, <2>2, StepNames DEF StoreInvariant, FinishersAgree, FinisherSound, Finishes
  <2>9. BootAgrees'
    BY <2>1, <2>2, StepNames DEF StoreInvariant, BootAgrees, BootAlone, BootSound
  <2> QED
    BY <2>4, <2>5, <2>6, <2>7, <2>8, <2>9, InvariantParts DEF StoreInvariant, ItemsAgree,
       WritersAgree, FinishersAgree, BootAgrees
<1>11. CASE CommitCheckpoint(r)
  <2> DEFINE end == job[r].start + job[r].len
             done == [job[r].snap EXCEPT !.confirmed = end, !.state = "transferring"]
  <2>1. /\ done.confirmed = end /\ done.state = "transferring" /\ end \in Nat
    BY DEF Row
  <2>2. /\ pc[r] = "commit" /\ pc[r] \in Writing /\ pc'[r] = "publish"
        /\ row'[i] = done /\ job'[r].snap = done
        /\ \A k \in Items : k # i => row'[k] = row[k]
        /\ \A v \in Workers : v # r => pc'[v] = pc[v] /\ job'[v] = job[v]
        /\ \A v \in Workers : job'[v].item = job[v].item
        /\ UNCHANGED <<part, writeLock, cancel, mode, cancelAsked>>
    BY <1>11 DEF CommitCheckpoint, Goto, TypeOK, Job, Writing
  <2> HIDE DEF done, end
  <2>3. FilesSound' /\ CancelKnown'
    BY <2>2 DEF StoreInvariant, FilesSound, CancelKnown
  <2>4. LocksHeld' /\ BootAlone'
    BY <2>2, StepNames DEF StoreInvariant, LocksHeld, BootAlone, Workers
  <2>5. ItemsAgree'
    <3> SUFFICES ASSUME NEW k \in Items, ~ cancelAsked[k]
                 PROVE  ItemSound(k)'
      BY <2>2 DEF ItemsAgree
    <3>1. CASE k = i
      <4>1. /\ end <= Size[i] /\ f.len = end /\ f.good = end /\ f.synced = end
        BY <2>2, <3>1 DEF StoreInvariant, WriterSound, end
      <4>2. ItemSound(i)
        BY <3>1 DEF StoreInvariant
      <4> QED
        BY <1>1, <2>1, <2>2, <3>1, <4>1, <4>2 DEF ItemSound
    <3>2. CASE k # i
      BY <2>2, <3>2 DEF StoreInvariant, ItemSound
    <3> QED
      BY <3>1, <3>2
  <2>6. WritersAgree'
    <3> SUFFICES ASSUME NEW s \in Requests, s # r, pc[s] \in Writing,
                        ~ cancelAsked[job[s].item]
                 PROVE  WriterSound(s)'
      BY <2>2, StepNames DEF WritersAgree, Workers
    <3>1. WriterSound(s) /\ s \in Workers /\ job[s].item # i /\ job[s].item \in Items
      BY <2>2, LockExcludes DEF StoreInvariant, Workers
    <3> QED
      BY <2>2, <3>1 DEF WriterSound
  <2>7. FinishersAgree'
    <3> SUFFICES ASSUME NEW w \in Workers, Finishes(w)', ~ cancelAsked[job[w].item]
                 PROVE  FinisherSound(w)'
      BY <2>2 DEF FinishersAgree
    <3>1. CASE w = r
      BY <2>1, <2>2, <3>1, StepNames DEF Finishes, FinisherSound
    <3>2. CASE w # r
      <4>1. Finishes(w) /\ FinisherSound(w) /\ job[w].item \in Items
        BY <2>2, <3>2 DEF Finishes, StoreInvariant
      <4>2. job[w].item # i
        BY <2>2, <4>1, WriterExcludesFinisher
      <4> QED
        BY <2>2, <4>1, <4>2 DEF FinisherSound
    <3> QED
      BY <3>1, <3>2
  <2>8. BootAgrees'
    BY <2>2, StepNames DEF StoreInvariant, BootAgrees, BootAlone, BootSound
  <2> QED
    BY <2>3, <2>4, <2>5, <2>6, <2>7, <2>8, InvariantParts DEF StoreInvariant, ItemsAgree,
       WritersAgree, FinishersAgree, BootAgrees
<1> QED
  BY <1>2, <1>3, <1>4, <1>5, <1>6, <1>7, <1>8, <1>9, <1>10, <1>11 DEF CheckpointStep

\* Each step of a completion keeps it: completions only touch fully committed
\* items, which have no writer.
LEMMA InvariantCompletion ==
  ASSUME TypeOK, TypeOK', StoreInvariant, NEW w \in Workers, CompletionStep(w)
  PROVE  StoreInvariant'
<1> DEFINE i == job[w].item
           f == part[i]
<1> USE WorkerFacts
<1>1. ProbeFinal(w) \/ ProbePartial(w) \/ HashPartial(w) \/ ChooseFinalPath(w)
        \/ RenamePartial(w) \/ RecordReady(w)
  BY DEF CompletionStep
<1>2. pc[w] \in Completing /\ Finishes(w)
  BY <1>1 DEF ProbeFinal, ProbePartial, HashPartial, ChooseFinalPath, RenamePartial,
              RecordReady, Completing, Finalizing, Finishes
<1>3. \A l : /\ l \in {"probePart", "adopt", "hash", "choose", "rename"}
             /\ Goto(w, l) /\ UNCHANGED <<watched, writeLock, job>>
             => StoreInvariant'
  <2> SUFFICES ASSUME NEW l \in {"probePart", "adopt", "hash", "choose", "rename"},
                      Goto(w, l), UNCHANGED <<watched, writeLock, job>>
               PROVE  StoreInvariant'
    OBVIOUS
  <2>1. l \in Completing
    BY DEF Completing, Finalizing
  <2> QED
    BY <1>2, <2>1, InvariantMove DEF TypeOK
<1>4. CASE ProbeFinal(w)
  BY <1>3, <1>4 DEF ProbeFinal, disk, watched
<1>5. CASE ProbePartial(w)
  <2>1. CASE Goto(w, "hash") /\ UNCHANGED <<writeLock, job, acked>>
    BY <1>3, <1>5, <2>1 DEF ProbePartial, disk, watched
  <2>2. CASE Finish(w)
    BY <1>5, <2>2, InvariantFinish DEF ProbePartial, disk, watched
  <2>3. CASE w = Boot /\ Goto(w, "settle") /\ UNCHANGED <<writeLock, job, acked>>
    <3>1. /\ pc'[Boot] = "settle"
          /\ \A v \in Workers : v # Boot => pc'[v] = pc[v]
          /\ UNCHANGED <<row, part, writeLock, job, cancel, mode, cancelAsked>>
      BY <1>5, <2>3 DEF ProbePartial, Goto, TypeOK, disk
    <3>2. FilesSound' /\ CancelKnown' /\ ItemsAgree'
      BY <3>1 DEF StoreInvariant, FilesSound, CancelKnown, ItemsAgree, ItemSound
    <3>3. LocksHeld' /\ BootAlone'
      BY <1>2, <2>3, <3>1, StepNames, WorkersAssumption
      DEF StoreInvariant, LocksHeld, BootAlone, Workers
    <3>4. WritersAgree'
      BY <3>1, WorkersAssumption DEF StoreInvariant, WritersAgree, WriterSound, Workers
    <3>5. FinishersAgree'
      BY <3>1, StepNames DEF StoreInvariant, FinishersAgree, FinisherSound, Finishes
    <3>6. BootAgrees'
      BY <1>2, <2>3, <3>1, StepNames DEF StoreInvariant, BootAgrees, BootSound
    <3> QED
      BY <3>2, <3>3, <3>4, <3>5, <3>6, InvariantParts DEF StoreInvariant, ItemsAgree,
         WritersAgree, FinishersAgree, BootAgrees
  <2> QED
    BY <1>5, <2>1, <2>2, <2>3 DEF ProbePartial, NothingRecovered
<1>6. CASE HashPartial(w)
  <2>1. CASE Goto(w, "choose") /\ UNCHANGED <<writeLock, job>>
    BY <1>3, <1>6, <2>1 DEF HashPartial, disk, watched
  <2>2. CASE Finish(w)
    BY <1>6, <2>2, InvariantFinish DEF HashPartial, disk, watched
  <2> QED
    BY <1>6, <2>1, <2>2 DEF HashPartial
<1>7. CASE ChooseFinalPath(w)
  <2>1. CASE Finish(w)
    BY <1>7, <2>1, InvariantFinish DEF ChooseFinalPath, disk, watched
  <2>2. ASSUME NEW p \in Paths, job' = [job EXCEPT ![w].dest = p],
               Goto(w, "rename"), UNCHANGED writeLock
        PROVE  StoreInvariant'
    <3>1. /\ \A v \in Workers : job'[v].item = job[v].item /\ job'[v].snap = job[v].snap
          /\ \A v \in Workers : v # w => job'[v] = job[v]
      BY <2>2 DEF TypeOK, Job
    <3>2. "rename" \in Completing /\ UNCHANGED watched
      BY <1>7 DEF Completing, Finalizing, ChooseFinalPath, disk, watched
    <3> QED
      BY <1>2, <2>2, <3>1, <3>2, InvariantMove DEF TypeOK
  <2> QED
    BY <1>7, <2>1, <2>2 DEF ChooseFinalPath
<1>8. CASE RenamePartial(w)
  <2>1. CASE ~ f.exists
    BY <1>8, <2>1, InvariantFinish DEF RenamePartial, watched
  <2>2. CASE f.exists
    <3>1. /\ part'[i] = Gone /\ pc'[w] = "record"
          /\ \A k \in Items : k # i => part'[k] = part[k]
          /\ \A v \in Workers : v # w => pc'[v] = pc[v]
          /\ UNCHANGED <<row, writeLock, job, cancel, mode, cancelAsked>>
      BY <1>8, <2>2 DEF RenamePartial, Goto, TypeOK
    <3>2. pc'[w] \in Completing
      BY <3>1 DEF Completing, Finalizing
    <3>3. FilesSound' /\ CancelKnown'
      BY <3>1 DEF StoreInvariant, FilesSound, CancelKnown, Gone
    <3>4. LocksHeld' /\ BootAlone'
      BY <1>2, <3>1, <3>2, StepNames DEF StoreInvariant, LocksHeld, BootAlone, Workers
    <3>5. ItemsAgree'
      <4> SUFFICES ASSUME NEW k \in Items, ~ cancelAsked[k]
                   PROVE  ItemSound(k)'
        BY <3>1 DEF ItemsAgree
      <4>1. CASE k = i
        <5>1. row[i].confirmed = Size[i] /\ ItemSound(i)
          BY <1>2, <4>1 DEF StoreInvariant, FinisherSound
        <5> QED
          BY <2>2, <3>1, <4>1, <5>1 DEF ItemSound, Gone
      <4>2. CASE k # i
        BY <3>1, <4>2 DEF StoreInvariant, ItemSound
      <4> QED
        BY <4>1, <4>2
    <3>6. WritersAgree'
      <4> SUFFICES ASSUME NEW s \in Requests, pc[s] \in Writing, ~ cancelAsked[job[s].item]
                   PROVE  WriterSound(s)'
        BY <3>1, <3>2, StepNames DEF WritersAgree, Workers
      <4>1. WriterSound(s) /\ s \in Workers /\ s # w /\ job[s].item # i
        BY <1>2, StepNames, WriterExcludesFinisher DEF StoreInvariant, Workers
      <4> QED
        BY <3>1, <4>1 DEF WriterSound
    <3>7. FinishersAgree'
      BY <1>2, <3>1 DEF StoreInvariant, FinishersAgree, FinisherSound, Finishes
    <3>8. BootAgrees'
      <4>1. pc[Boot] \in {"settle", "reset"} => w = Boot
        BY <1>2, StepNames DEF StoreInvariant, BootAlone, Workers
      <4> QED
        BY <1>2, <3>1, <3>2, <4>1, StepNames DEF StoreInvariant, BootAgrees, BootSound,
           Workers
    <3> QED
      BY <3>3, <3>4, <3>5, <3>6, <3>7, <3>8, InvariantParts DEF StoreInvariant, ItemsAgree,
         WritersAgree, FinishersAgree, BootAgrees
  <2> QED
    BY <2>1, <2>2
<1>9. CASE RecordReady(w)
  <2>1. /\ row'[i].confirmed = Size[i] /\ row'[i].state = "ready"
        /\ \A k \in Items : k # i => row'[k] = row[k]
        /\ Finish(w) /\ UNCHANGED <<part, cancel, cancelAsked>>
        /\ mode' = mode \/ (w = Boot /\ mode' = "down")
    BY <1>9 DEF RecordReady, TypeOK
  <2>2. /\ pc'[w] = "idle" /\ job'[w] = NoJob
        /\ \A v \in Workers : v # w => pc'[v] = pc[v] /\ job'[v] = job[v]
        /\ \A k \in Items : writeLock[k] # w => writeLock'[k] = writeLock[k]
    BY <2>1 DEF Finish, Goto, TypeOK
  <2>3. cancelAsked[i] \/ (row[i].confirmed = Size[i] /\ ItemSound(i))
    BY <1>2 DEF StoreInvariant, FinisherSound
  <2>4. FilesSound' /\ CancelKnown'
    BY <2>1 DEF StoreInvariant, FilesSound, CancelKnown
  <2>5. LocksHeld' /\ BootAlone'
    <3>1. LocksHeld'
      BY <2>1, <2>2, StepNames DEF StoreInvariant, LocksHeld, TypeOK, Workers
    <3>2. \A r \in Requests : w = Boot => pc'[r] = "idle"
      BY <1>2, <2>2, StepNames, WorkersAssumption DEF StoreInvariant, BootAlone, Workers
    <3>3. BootAlone'
      BY <2>1, <2>2, <3>2, StepNames DEF StoreInvariant, BootAlone, TypeOK, Workers
    <3> QED
      BY <3>1, <3>3
  <2>6. ItemsAgree'
    <3> SUFFICES ASSUME NEW k \in Items, ~ cancelAsked[k]
                 PROVE  ItemSound(k)'
      BY <2>1 DEF ItemsAgree
    <3>1. CASE k = i
      BY <2>1, <2>3, <3>1 DEF ItemSound
    <3>2. CASE k # i
      BY <2>1, <3>2 DEF StoreInvariant, ItemSound
    <3> QED
      BY <3>1, <3>2
  <2>7. WritersAgree'
    <3> SUFFICES ASSUME NEW s \in Requests, s # w, pc[s] \in Writing,
                        ~ cancelAsked[job[s].item]
                 PROVE  WriterSound(s)'
      BY <2>1, <2>2, StepNames DEF WritersAgree, Workers
    <3>1. WriterSound(s) /\ s \in Workers /\ job[s].item # i /\ job[s].item \in Items
      BY <1>2, WriterExcludesFinisher DEF StoreInvariant, Workers
    <3> QED
      BY <2>1, <2>2, <3>1 DEF WriterSound
  <2>8. FinishersAgree'
    <3> SUFFICES ASSUME NEW v \in Workers, v # w, Finishes(v), ~ cancelAsked[job[v].item]
                 PROVE  FinisherSound(v)'
      BY <2>1, <2>2, StepNames DEF FinishersAgree, Finishes
    <3>1. FinisherSound(v) /\ job[v].item \in Items
      BY DEF StoreInvariant
    <3> QED
      BY <2>1, <2>2, <3>1 DEF FinisherSound
  <2>9. BootAgrees'
    <3>1. w = Boot \/ pc[Boot] = "idle"
      BY <1>2, StepNames DEF StoreInvariant, BootAlone, Workers
    <3> QED
      BY <2>1, <2>2, <3>1, StepNames DEF BootAgrees, BootSound, Workers
  <2> QED
    BY <2>4, <2>5, <2>6, <2>7, <2>8, <2>9, InvariantParts DEF StoreInvariant, ItemsAgree,
       WritersAgree, FinishersAgree, BootAgrees
<1> QED
  BY <1>1, <1>4, <1>5, <1>6, <1>7, <1>8, <1>9

\* cancelItem disturbs only an item about which nothing is claimed any more.
LEMMA InvariantCancel ==
  ASSUME TypeOK, TypeOK', StoreInvariant, NEW i \in Items,
         StartCancel(i) \/ RemoveCancelled(i) \/ RecordCancelled(i)
  PROVE  StoreInvariant'
<1> USE WorkerFacts
<1>1. CASE StartCancel(i)
  <2>1. /\ cancelAsked'[i]
        /\ \A k \in Items : k # i => cancelAsked'[k] = cancelAsked[k]
        /\ \A k \in Items : k # i => cancel'[k] = cancel[k]
        /\ UNCHANGED <<row, part, writeLock, pc, job, mode>>
    BY <1>1 DEF StartCancel, TypeOK, disk
  <2>2. FilesSound' /\ LocksHeld' /\ BootAlone'
    BY <2>1 DEF StoreInvariant, FilesSound, LocksHeld, BootAlone
  <2>3. CancelKnown'
    BY <2>1 DEF StoreInvariant, CancelKnown
  <2>4. ItemsAgree'
    BY <2>1 DEF StoreInvariant, ItemsAgree, ItemSound
  <2>5. WritersAgree'
    BY <2>1 DEF StoreInvariant, WritersAgree, WriterSound, Workers
  <2>6. FinishersAgree'
    BY <2>1 DEF StoreInvariant, FinishersAgree, FinisherSound, Finishes
  <2>7. BootAgrees'
    BY <2>1 DEF StoreInvariant, BootAgrees, BootSound, Workers
  <2> QED
    BY <2>2, <2>3, <2>4, <2>5, <2>6, <2>7, InvariantParts DEF StoreInvariant, ItemsAgree,
       WritersAgree, FinishersAgree, BootAgrees
<1>2. CASE RemoveCancelled(i)
  <2>1. /\ cancelAsked[i] /\ part'[i] = Gone
        /\ \A k \in Items : k # i => part'[k] = part[k]
        /\ \A k \in Items : k # i => cancel'[k] = cancel[k]
        /\ UNCHANGED <<row, writeLock, pc, mode, cancelAsked>>
    BY <1>2 DEF RemoveCancelled, StoreInvariant, CancelKnown, TypeOK
  <2>2. /\ \A w \in Workers : /\ job'[w].item = job[w].item
                              /\ job'[w].snap = job[w].snap
        /\ \A w \in Workers : job[w].item # i => job'[w] = job[w]
    BY <1>2 DEF RemoveCancelled, TypeOK, Job
  <2>3. FilesSound' /\ LocksHeld' /\ BootAlone'
    BY <2>1, <2>2 DEF StoreInvariant, FilesSound, LocksHeld, BootAlone, Workers, Gone
  <2>4. CancelKnown'
    BY <2>1 DEF StoreInvariant, CancelKnown
  <2>5. ItemsAgree'
    BY <2>1 DEF StoreInvariant, ItemsAgree, ItemSound
  <2>6. WritersAgree'
    BY <2>1, <2>2 DEF StoreInvariant, WritersAgree, WriterSound, Workers
  <2>7. FinishersAgree'
    BY <2>1, <2>2 DEF StoreInvariant, FinishersAgree, FinisherSound, Finishes
  <2>8. BootAgrees'
    BY <2>1, <2>2 DEF StoreInvariant, BootAgrees, BootSound, Workers
  <2> QED
    BY <2>3, <2>4, <2>5, <2>6, <2>7, <2>8, InvariantParts DEF StoreInvariant, ItemsAgree,
       WritersAgree, FinishersAgree, BootAgrees
<1>3. CASE RecordCancelled(i)
  <2>1. /\ cancelAsked[i] /\ cancel'[i].step = "none"
        /\ \A k \in Items : k # i => row'[k] = row[k] /\ cancel'[k] = cancel[k]
        /\ UNCHANGED <<part, writeLock, pc, job, mode, cancelAsked>>
    BY <1>3 DEF RecordCancelled, StoreInvariant, CancelKnown, TypeOK, NoCancel
  <2>2. FilesSound' /\ LocksHeld' /\ BootAlone'
    BY <2>1 DEF StoreInvariant, FilesSound, LocksHeld, BootAlone
  <2>3. CancelKnown'
    BY <2>1 DEF StoreInvariant, CancelKnown
  <2>4. ItemsAgree'
    BY <2>1 DEF StoreInvariant, ItemsAgree, ItemSound
  <2>5. WritersAgree'
    BY <2>1 DEF StoreInvariant, WritersAgree, WriterSound, Workers
  <2>6. FinishersAgree'
    BY <2>1 DEF StoreInvariant, FinishersAgree, FinisherSound, Finishes
  <2>7. BootAgrees'
    BY <2>1 DEF StoreInvariant, BootAgrees, BootSound, Workers
  <2> QED
    BY <2>2, <2>3, <2>4, <2>5, <2>6, <2>7, InvariantParts DEF StoreInvariant, ItemsAgree,
       WritersAgree, FinishersAgree, BootAgrees
<1> QED
  BY <1>1, <1>2, <1>3

\* A crash keeps what was synced, and a fully synced file whole.
LEMMA CrashFile ==
  ASSUME NEW f \in File, NEW n \in Nat, f.good <= f.len, f.synced <= n, n <= f.len,
         NEW g, g = Survivor(f, n)
  PROVE  /\ g.good <= g.len /\ g.synced <= g.len
         /\ g.exists <=> f.exists
         /\ f.len = 0 => g.len = 0
         /\ \A c \in Nat : f.good >= c /\ f.synced >= c => g.good >= c /\ g.synced >= c
         /\ \A c \in Nat : f.good = c /\ f.len = c /\ f.synced = c =>
              g.good = c /\ g.len = c /\ g.synced = c
<1>1. /\ f.len \in Nat /\ f.good \in Nat /\ f.synced \in Nat
      /\ g.len = n /\ g.synced = n /\ g.good = IF f.good < n THEN f.good ELSE n
      /\ g.exists <=> f.exists
  BY DEF File, Survivor, Lesser
<1>2. \A c \in Nat : f.good >= c /\ f.synced >= c => g.good >= c /\ g.synced >= c
  BY <1>1
<1>3. ASSUME NEW c \in Nat, f.good = c, f.len = c, f.synced = c
      PROVE  g.good = c /\ g.len = c /\ g.synced = c
  <2>1. n = c
    BY <1>3
  <2> QED
    BY <1>1, <1>3, <2>1
<1> QED
  BY <1>1, <1>2, <1>3

\* After a crash no worker is left, and the synced bytes still carry the
\* committed offset.
LEMMA InvariantCrash ==
  ASSUME TypeOK, TypeOK', StoreInvariant, Crash
  PROVE  StoreInvariant'
<1>1. /\ \A w \in Workers : pc'[w] = "idle" /\ job'[w] = NoJob
      /\ \A i \in Items : cancel'[i].step = "none"
      /\ UNCHANGED <<row, cancelAsked>>
  BY DEF Crash, NoCancel
<1>2. PICK kept \in [Items -> UNION {0 .. part[i].len : i \in Items}] :
        /\ \A i \in Items : part[i].synced <= kept[i] /\ kept[i] <= part[i].len
        /\ part' = [i \in Items |-> Survivor(part[i], kept[i])]
  BY DEF Crash
<1>3. ASSUME NEW i \in Items
      PROVE  /\ part[i] \in File /\ part[i].good <= part[i].len
             /\ kept[i] \in Nat
             /\ part[i].synced <= kept[i] /\ kept[i] <= part[i].len
             /\ part'[i] = Survivor(part[i], kept[i])
             /\ row[i].confirmed \in Nat /\ Size[i] \in Nat
  BY <1>2, ItemsAssumption DEF TypeOK, File, Row, StoreInvariant, FilesSound
<1> HIDE <1>2
<1>4. FilesSound'
  BY <1>3, CrashFile DEF FilesSound
<1>5. LocksHeld' /\ BootAlone' /\ CancelKnown'
  BY <1>1, StepNames DEF LocksHeld, BootAlone, CancelKnown, Workers
<1>6. ItemsAgree'
  <2> SUFFICES ASSUME NEW i \in Items, ~ cancelAsked[i]
               PROVE  ItemSound(i)'
    BY <1>1 DEF ItemsAgree
  <2>1. ItemSound(i)
    BY DEF StoreInvariant
  <2>2. \/ /\ part'[i].good >= row[i].confirmed
           /\ part'[i].synced >= row[i].confirmed
        \/ row[i].confirmed = Size[i] /\ ~ part[i].exists
    BY <1>3, <2>1, CrashFile DEF ItemSound
  <2>3. ~ part[i].exists => part'[i].len = 0
    BY <1>3, <2>1, CrashFile DEF ItemSound
  <2>4. row[i].confirmed = Size[i] /\ part[i].exists =>
          part'[i].good = Size[i] /\ part'[i].len = Size[i] /\ part'[i].synced = Size[i]
    BY <1>3, <2>1, CrashFile DEF ItemSound
  <2>5. row'[i] = row[i] /\ (part'[i].exists <=> part[i].exists)
    BY <1>1, <1>3, CrashFile
  <2> QED
    BY <2>1, <2>2, <2>3, <2>4, <2>5 DEF ItemSound
<1>7. WritersAgree' /\ FinishersAgree' /\ BootAgrees'
  BY <1>1, StepNames DEF WritersAgree, FinishersAgree, BootAgrees, Finishes, BootSound,
     Workers
<1> QED
  BY <1>4, <1>5, <1>6, <1>7, InvariantParts DEF StoreInvariant, ItemsAgree,
     WritersAgree, FinishersAgree, BootAgrees

\* Startup reconciliation works alone, and leaves record and file in agreement.
LEMMA InvariantBoot ==
  ASSUME TypeOK, TypeOK', StoreInvariant, Restart \/ BootStep
  PROVE  StoreInvariant'
<1> DEFINE i == job[Boot].item
           f == part[i]
           offset == job[Boot].snap.confirmed
<1> Boot \in Workers /\ Boot \notin Requests
  BY WorkersAssumption DEF Workers
<1> USE WorkerFacts
<1>0. /\ f.good <= f.len /\ f.synced <= f.len
      /\ f.len \in Nat /\ f.good \in Nat /\ f.synced \in Nat
  BY DEF StoreInvariant, FilesSound, File
<1>1. CASE Restart \/ FinishBoot
  <2>1. /\ \A w \in Workers : pc[w] = "idle"
        /\ UNCHANGED <<row, part, writeLock, pc, job, cancel, cancelAsked>>
    BY <1>1 DEF Restart, FinishBoot, StoreInvariant, BootAlone, Workers, disk
  <2>2. BootAlone'
    BY <2>1 DEF BootAlone, Workers
  <2> QED
    BY <2>1, <2>2 DEF StoreInvariant, FilesSound, LocksHeld, CancelKnown, ItemSound,
       WriterSound, FinisherSound, Finishes, BootSound
<1>2. ASSUME NEW k \in Items, VisitItem(k)
      PROVE  StoreInvariant'
  <2>1. job'[Boot].item = k /\ job'[Boot].snap = row[k]
    <3>1. job' = [job EXCEPT ![Boot] = [NoJob EXCEPT !.item = k, !.snap = row[k],
                                                     !.dest = row[k].final]]
      BY <1>2 DEF VisitItem
    <3> QED
      BY <3>1, InitialRecords DEF TypeOK, Job
  <2>2. /\ mode = "booting" /\ pc[Boot] = "idle"
        /\ pc'[Boot] = IF row[k].confirmed = Size[k] THEN "probe" ELSE "settle"
        /\ \A v \in Workers : v # Boot => pc'[v] = pc[v] /\ job'[v] = job[v]
        /\ UNCHANGED <<row, part, writeLock, cancel, mode, cancelAsked>>
    BY <1>2 DEF VisitItem, Goto, TypeOK, disk
  <2>3. "probe" \in Completing
    BY DEF Completing
  <2>4. FilesSound' /\ CancelKnown' /\ ItemsAgree'
    BY <2>2 DEF StoreInvariant, FilesSound, CancelKnown, ItemsAgree, ItemSound
  <2>5. LocksHeld' /\ BootAlone' /\ WritersAgree'
    BY <2>2, <2>3 DEF StoreInvariant, LocksHeld, BootAlone, WritersAgree, WriterSound, Workers
  <2>6. FinishersAgree'
    BY <2>1, <2>2, StepNames DEF StoreInvariant, FinishersAgree, FinisherSound, Finishes
  <2>7. BootAgrees'
    BY <2>1, <2>2 DEF BootAgrees, BootSound
  <2> QED
    BY <2>4, <2>5, <2>6, <2>7, InvariantParts DEF StoreInvariant, ItemsAgree,
       WritersAgree, FinishersAgree, BootAgrees
<1>3. CASE SettlePartial
  <2>1. /\ pc[Boot] = "settle" /\ pc'[Boot] = "reset"
        /\ \A v \in Workers : v # Boot => pc'[v] = pc[v] /\ job'[v] = job[v]
        /\ \A k \in Items : k # i => part'[k] = part[k]
        /\ UNCHANGED <<row, writeLock, cancel, mode, cancelAsked>>
    BY <1>3 DEF SettlePartial, Goto, TypeOK
  <2>2. mode = "booting" /\ \A v \in Workers : v # Boot => pc[v] = "idle" /\ pc'[v] = "idle"
    BY <2>1 DEF StoreInvariant, BootAlone, Workers
  <2>3. CASE f.len > offset
    <3>1. part'[i] = Truncated(f, offset) /\ UNCHANGED job
      BY <1>3, <2>3 DEF SettlePartial, TypeOK
    <3>2. part'[i].good <= part'[i].len /\ part'[i].synced <= part'[i].len
      BY <1>0, <3>1 DEF Truncated, Lesser
    <3>3. FilesSound' /\ CancelKnown'
      BY <2>1, <3>2 DEF StoreInvariant, FilesSound, CancelKnown
    <3>4. LocksHeld' /\ BootAlone' /\ WritersAgree' /\ FinishersAgree'
      BY <2>1, <2>2, StepNames DEF LocksHeld, BootAlone, WritersAgree, FinishersAgree,
         Finishes, Workers
    <3>5. ASSUME ~ cancelAsked[i]
          PROVE  /\ row[i].confirmed = offset /\ ItemSound(i) /\ f.exists
                 /\ part'[i].exists /\ part'[i].len = offset
                 /\ part'[i].good = offset /\ part'[i].synced = offset
                 /\ offset < Size[i]
      <4>1. row[i].confirmed = offset /\ ItemSound(i)
        BY <2>1, <3>5 DEF StoreInvariant, BootSound
      <4>2. /\ f.exists /\ f.good >= offset /\ f.synced >= offset /\ offset < Size[i]
        BY <1>0, <2>3, <4>1 DEF ItemSound
      <4>3. part'[i] = [exists |-> TRUE, len |-> offset, good |-> Lesser(f.good, offset),
                        synced |-> Lesser(f.synced, offset)]
        BY <3>1, <4>2 DEF Truncated
      <4> QED
        BY <1>0, <4>1, <4>2, <4>3 DEF Lesser
    <3>6. ItemsAgree'
      <4> SUFFICES ASSUME NEW k \in Items, ~ cancelAsked[k]
                   PROVE  ItemSound(k)'
        BY <2>1 DEF ItemsAgree
      <4>1. CASE k = i
        BY <2>1, <3>5, <4>1 DEF ItemSound
      <4>2. CASE k # i
        BY <2>1, <4>2 DEF StoreInvariant, ItemSound
      <4> QED
        BY <4>1, <4>2
    <3>7. BootAgrees'
      BY <2>1, <3>1, <3>5, StepNames DEF BootAgrees, BootSound
    <3> QED
      BY <3>3, <3>4, <3>6, <3>7, InvariantParts DEF StoreInvariant, ItemsAgree,
         WritersAgree, FinishersAgree, BootAgrees
  <2>4. CASE ~ (f.len > offset)
    <3>1. UNCHANGED part /\ job' = [job EXCEPT ![Boot].snap.confirmed = f.len]
      BY <1>3, <2>4 DEF SettlePartial
    <3>2. job'[Boot].snap.confirmed = f.len /\ job'[Boot].item = i
      <4>1. job'[Boot] = [job[Boot] EXCEPT !.snap = [job[Boot].snap EXCEPT !.confirmed = f.len]]
        BY <3>1 DEF TypeOK
      <4> QED
        BY <4>1 DEF Job, Row
    <3>3. FilesSound' /\ CancelKnown' /\ ItemsAgree'
      BY <2>1, <3>1 DEF StoreInvariant, FilesSound, CancelKnown, ItemsAgree, ItemSound
    <3>4. LocksHeld' /\ BootAlone' /\ WritersAgree' /\ FinishersAgree'
      BY <2>1, <2>2, StepNames DEF LocksHeld, BootAlone, WritersAgree, FinishersAgree,
         Finishes, Workers
    <3>5. ASSUME ~ cancelAsked[i]
          PROVE  f.len <= Size[i] /\ f.good >= f.len /\ f.synced >= f.len
      <4>1. row[i].confirmed = offset /\ ItemSound(i)
        BY <2>1, <3>5 DEF StoreInvariant, BootSound
      <4> QED
        BY <1>0, <2>4, <4>1 DEF ItemSound
    <3>6. BootAgrees'
      BY <2>1, <3>1, <3>2, <3>5, StepNames DEF BootAgrees, BootSound
    <3> QED
      BY <3>3, <3>4, <3>6, InvariantParts DEF StoreInvariant, ItemsAgree,
         WritersAgree, FinishersAgree, BootAgrees
  <2> QED
    BY <2>3, <2>4
<1>4. CASE ResetRow
  <2> DEFINE settled == [job[Boot].snap EXCEPT
                           !.state = IF offset > 0 THEN "transferring" ELSE "pending"]
  <2>1. settled.confirmed = offset /\ settled.state # "absent"
    BY DEF Row
  <2>2. /\ pc[Boot] = "reset" /\ row'[i] = settled
        /\ \A k \in Items : k # i => row'[k] = row[k]
        /\ UNCHANGED <<part, cancel, mode, cancelAsked>>
    BY <1>4 DEF ResetRow, TypeOK
  <2>3. \/ /\ offset = Size[i] /\ pc'[Boot] = "probe" /\ UNCHANGED writeLock
           /\ job'[Boot].item = i /\ job'[Boot].snap = settled
           /\ \A v \in Workers : v # Boot => pc'[v] = pc[v] /\ job'[v] = job[v]
        \/ pc'[Boot] = "idle" /\ \A v \in Workers : v # Boot => pc'[v] = pc[v]
    BY <1>4 DEF ResetRow, Goto, Finish, TypeOK, Job
  <2> HIDE DEF settled
  <2>4. mode = "booting" /\ \A v \in Workers : v # Boot => pc[v] = "idle" /\ pc'[v] = "idle"
    BY <2>2, <2>3 DEF StoreInvariant, BootAlone, Workers
  <2>5. pc'[Boot] \in {"idle", "probe"} /\ "probe" \in Completing
    BY <2>3 DEF Completing
  <2>6. FilesSound' /\ CancelKnown'
    BY <2>2 DEF StoreInvariant, FilesSound, CancelKnown
  <2>7. LocksHeld' /\ BootAlone' /\ WritersAgree'
    BY <2>2, <2>4, <2>5, StepNames DEF LocksHeld, BootAlone, WritersAgree, Workers
  <2>8. ItemsAgree'
    <3> SUFFICES ASSUME NEW k \in Items, ~ cancelAsked[k]
                 PROVE  ItemSound(k)'
      BY <2>2 DEF ItemsAgree
    <3>1. CASE k = i
      <4>1. /\ offset <= Size[i] /\ f.len = offset
            /\ f.good >= offset /\ f.synced >= offset /\ ItemSound(i)
        BY <2>2, <3>1 DEF StoreInvariant, BootSound
      <4> QED
        BY <1>0, <2>1, <2>2, <3>1, <4>1 DEF ItemSound
    <3>2. CASE k # i
      BY <2>2, <3>2 DEF StoreInvariant, ItemSound
    <3> QED
      BY <3>1, <3>2
  <2>9. FinishersAgree'
    BY <2>1, <2>2, <2>3, <2>4, <2>5, StepNames DEF FinishersAgree, FinisherSound, Finishes
  <2>10. BootAgrees'
    BY <2>1, <2>2, <2>3, <2>5, StepNames DEF BootAgrees, BootSound
  <2> QED
    BY <2>6, <2>7, <2>8, <2>9, <2>10, InvariantParts DEF StoreInvariant, ItemsAgree,
       WritersAgree, FinishersAgree, BootAgrees
<1> QED
  BY <1>1, <1>2, <1>3, <1>4 DEF BootStep

-----------------------------------------------------------------------------
(* The invariant holds, and with it the properties.                          *)

\* No step of the store breaks the invariant.
LEMMA InvariantNext == TypeOK /\ StoreInvariant /\ [Next]_vars => StoreInvariant'
<1> SUFFICES ASSUME TypeOK, StoreInvariant, [Next]_vars
             PROVE  StoreInvariant'
  OBVIOUS
<1>1. TypeOK'
  BY TypeNext
<1>2. ASSUME NEW i \in Items,
             ReportStatus(i) \/ \E cut \in 1 .. Size[i] : ForgetCommits(i, cut)
      PROVE  StoreInvariant'
  BY <1>2, InvariantStutter DEF ReportStatus, ForgetCommits, disk
<1>3. ASSUME NEW p \in Paths, NEW n, DropForeignFile(p, n)
      PROVE  StoreInvariant'
  BY <1>3, InvariantStutter DEF DropForeignFile
<1>4. CASE UNCHANGED vars
  BY <1>4, InvariantStutter DEF vars
<1> QED
  BY <1>1, <1>2, <1>3, <1>4, InvariantRegister, InvariantStart, InvariantCheckpoint,
     InvariantCompletion, InvariantCancel, InvariantCrash, InvariantBoot DEF Next

\* The locks are held by those who write, records and files of items nobody
\* cancelled agree, writers know the truth, and only full items are completed.
THEOREM StoreIsSound == Spec => []StoreInvariant
<1>1. Init => TypeOK /\ StoreInvariant
  BY TypeInit, InvariantInit
<1>2. TypeOK /\ StoreInvariant /\ [Next]_vars => TypeOK' /\ StoreInvariant'
  BY TypeNext, InvariantNext
<1> QED
  BY <1>1, <1>2, PTL DEF Spec

\* acquireWriteLock lets no two checkpoints of one item interleave.
THEOREM OneWriter == Spec => []OneWriterPerItem
<1>1. StoreInvariant => OneWriterPerItem
  BY LockExcludes DEF OneWriterPerItem
<1> QED
  BY <1>1, StoreIsSound, PTL

\* The database never claims more of an item than is safely in its file.
THEOREM CommittedIsOnDisk == Spec => []CommittedBytesOnDisk
<1>1. StoreInvariant => CommittedBytesOnDisk
  BY DEF StoreInvariant, ItemSound, CommittedBytesOnDisk
<1> QED
  BY <1>1, StoreIsSound, PTL

\* What a step does to the destination directory: a file that becomes an item's
\* and that nobody cancelled is the sender's file, whole.
LEMMA PublishedWhole ==
  ASSUME TypeOK, StoreInvariant, Next, NEW p \in Paths, NEW i \in Items,
         final'[p] # final[p], final'[p].owner = i, ~ cancelAsked[i]
  PROVE  final'[p].len = Size[i] /\ final'[p].good = Size[i]
<1>1. ASSUME NEW j \in Items, Register(j)
      PROVE  final'[p].len = Size[i] /\ final'[p].good = Size[i]
  <2>1. PICK q \in Paths :
          final' = IF Size[j] = 0
                     THEN [final EXCEPT ![q] = [owner |-> j, len |-> 0, good |-> 0]]
                     ELSE final
    BY <1>1 DEF Register
  <2> QED
    BY <2>1 DEF TypeOK
<1>2. ASSUME NEW q \in Paths, NEW n, DropForeignFile(q, n)
      PROVE  FALSE
  BY <1>2, WorkersAssumption DEF DropForeignFile, TypeOK
<1>3. ASSUME NEW w \in Workers, RenamePartial(w)
      PROVE  final'[p].len = Size[i] /\ final'[p].good = Size[i]
  <2> DEFINE k == job[w].item
  <2>1. /\ part[k].exists /\ job[w].dest = p /\ k = i
        /\ final'[p] = [owner |-> k, len |-> part[k].len, good |-> part[k].good]
    BY <1>3 DEF RenamePartial, TypeOK
  <2>2. Finishes(w)
    BY <1>3 DEF RenamePartial, Finishes, Completing, Finalizing
  <2>3. row[i].confirmed = Size[i] /\ ItemSound(i)
    BY <2>1, <2>2 DEF StoreInvariant, FinisherSound
  <2> QED
    BY <2>1, <2>3 DEF ItemSound
<1>4. \/ \E j \in Items : Register(j)
      \/ \E q \in Paths : \E n \in Nat : DropForeignFile(q, n)
      \/ \E w \in Workers : RenamePartial(w)
  <2>1. \A w : CompletionStep(w) /\ ~ RenamePartial(w) => UNCHANGED final
    BY DEF CompletionStep, ProbeFinal, ProbePartial, HashPartial, ChooseFinalPath,
           RecordReady, disk
  <2>2. \A r : CheckpointStep(r) => UNCHANGED final
    BY DEF CheckpointStep, StatPartial, OpenPartial, ReceiveBody, UndoWrite, SyncPartial,
           CommitCheckpoint, FailCommit, PublishProgress, FailPublish, FailIO, disk
  <2>3. Crash \/ Restart \/ BootStep => UNCHANGED final
    BY DEF Crash, Restart, BootStep, VisitItem, SettlePartial, ResetRow, FinishBoot, disk
  <2>4. \A j \in Items : StartCancel(j) \/ RemoveCancelled(j) \/ RecordCancelled(j)
                           \/ ReportStatus(j) => UNCHANGED final
    BY DEF StartCancel, RemoveCancelled, RecordCancelled, ReportStatus, disk
  <2>5. \A j, n : ForgetCommits(j, n) => UNCHANGED final
    BY DEF ForgetCommits
  <2>6. \A r, j, n : StartCheckpoint(r, j, n) => UNCHANGED final
    BY DEF StartCheckpoint, disk
  <2>7. \A r, c : StartReplay(r, c) => UNCHANGED final
    BY DEF StartReplay, disk
  <2> QED
    BY <2>1, <2>2, <2>3, <2>4, <2>5, <2>6, <2>7, ItemsAssumption DEF Next
<1> QED
  BY <1>1, <1>2, <1>3, <1>4

\* Completion moves only whole files of the sender into the destination directory.
THEOREM WholeFilesPublished == Spec => OnlyWholeFilesPublished
<1> DEFINE A == \A p \in Paths : \A i \in Items :
                  final'[p] # final[p] /\ final'[p].owner = i /\ ~ cancelAsked[i] =>
                    final'[p].len = Size[i] /\ final'[p].good = Size[i]
<1>1. TypeOK /\ StoreInvariant /\ [Next]_vars => [A]_final
  BY PublishedWhole DEF vars
<1> QED
  BY <1>1, TypeCorrect, StoreIsSound, PTL DEF Spec, OnlyWholeFilesPublished


-----------------------------------------------------------------------------
(* The order of commits.  Offsets of one item only move forwards while the   *)
(* server is up, whatever record a handler writes back: the holder of the    *)
(* write lock is ahead of the record, of every idempotency record and of the *)
(* snapshot a cancellation carries, and completion never overlaps a writer.  *)
(* Only startup, which works alone, moves an offset back.                    *)

\* The idempotency records of item i end at or before offset n.
Behind(i, n) == \A c \in commits : c.item = i => c.end <= n

\* Nothing more is received of item i unless startup rewinds it.
Past(i) ==
  \/ row[i].state \in {"ready", "cancelled"}
  \/ row[i].state \in Live /\ row[i].confirmed = Size[i]

WriterAhead(r) ==
  LET i == job[r].item IN
  /\ job[r].len >= 1 /\ job[r].start + job[r].len <= Size[i]
  /\ row[i].state \notin {"ready", "absent"} /\ row[i].confirmed <= job[r].start
  /\ cancel[i].step # "none" => cancel[i].snap.confirmed <= job[r].start
  /\ Behind(i, job[r].start)

ItemOrdered(i) ==
  /\ row[i].state = "absent" => row[i].confirmed = 0
  /\ row[i].state \in Live \union {"absent"} =>
       /\ Behind(i, row[i].confirmed)
       /\ cancel[i].step # "none" => cancel[i].snap.confirmed <= row[i].confirmed

RecordsOrdered ==
  \A c \in commits :
    /\ c.start < c.end
    /\ \A d \in commits : d.item = c.item => d = c \/ d.end <= c.start \/ c.end <= d.start

ItemsOrdered == \A i \in Items : ItemOrdered(i) /\ (cancel[i].step # "none" => mode = "up")
WritersAhead == \A r \in Requests : pc[r] \in Writing => WriterAhead(r)
FinishersApart ==
  \A w \in Workers : Finishes(w) =>
    /\ Past(job[w].item)
    /\ \A r \in Requests : pc[r] \in Writing => job[r].item # job[w].item
BootOrdered ==
  /\ mode = "booting" => \A i \in todo : row[i].state \in Live
  /\ pc[Boot] # "idle" =>
       LET i == job[Boot].item IN
       /\ row[i].state \in Live /\ i \notin todo
       /\ pc[Boot] # "reset" => job[Boot].snap.confirmed = row[i].confirmed
       /\ pc[Boot] = "reset" => Behind(i, job[Boot].snap.confirmed)

OrderInv == RecordsOrdered /\ ItemsOrdered /\ WritersAhead /\ FinishersApart /\ BootOrdered

\* In the empty store nothing is recorded and nobody works.
LEMMA OrderInit == Init => OrderInv
<1> SUFFICES ASSUME Init
             PROVE  OrderInv
  OBVIOUS
<1>1. RecordsOrdered /\ ItemsOrdered
  BY DEF Init, RecordsOrdered, ItemsOrdered, ItemOrdered, Behind, NoRow, NoCancel
<1>2. WritersAhead /\ FinishersApart /\ BootOrdered
  BY StepNames DEF Init, WritersAhead, FinishersApart, BootOrdered, Finishes, Workers
<1> QED
  BY <1>1, <1>2 DEF OrderInv

\* Steps in which every worker stays at its kind of work or becomes idle, and
\* records are at most forgotten.
LEMMA OrderFrame ==
  ASSUME TypeOK, OrderInv, UNCHANGED <<row, mode, todo>>, commits' \subseteq commits,
         \A i \in Items : /\ cancel'[i].snap = cancel[i].snap
                          /\ cancel'[i].step # "none" => cancel[i].step # "none",
         \A v \in Workers :
           \/ pc'[v] = "idle"
           \/ /\ job'[v].item = job[v].item /\ job'[v].snap = job[v].snap
              /\ job'[v].start = job[v].start /\ job'[v].len = job[v].len
              /\ pc'[v] \in Writing => pc[v] \in Writing
              /\ Finishes(v)' => Finishes(v)
              /\ v = Boot => pc[v] # "idle" /\ (pc'[v] = "reset" <=> pc[v] = "reset")
  PROVE  OrderInv'
<1> Boot \in Workers /\ Requests \subseteq Workers
  BY DEF Workers
<1>1. RecordsOrdered'
  BY DEF OrderInv, RecordsOrdered
<1>2. ItemsOrdered'
  <2> SUFFICES ASSUME NEW i \in Items
               PROVE  ItemOrdered(i)' /\ (cancel'[i].step # "none" => mode = "up")
    BY DEF ItemsOrdered
  <2>1. ItemOrdered(i) /\ (cancel[i].step # "none" => mode = "up")
    BY DEF OrderInv, ItemsOrdered
  <2> QED
    BY <2>1 DEF ItemOrdered, Behind
<1>3. WritersAhead'
  <2> SUFFICES ASSUME NEW r \in Requests, pc'[r] \in Writing
               PROVE  WriterAhead(r)'
    BY DEF WritersAhead
  <2>1. /\ pc[r] \in Writing /\ job'[r].item = job[r].item
        /\ job'[r].start = job[r].start /\ job'[r].len = job[r].len
    BY StepNames
  <2>2. WriterAhead(r) /\ job[r].item \in Items
    BY <2>1, WorkerFacts DEF OrderInv, WritersAhead
  <2> QED
    BY <2>1, <2>2 DEF WriterAhead, Behind
<1>4. FinishersApart'
  <2> SUFFICES ASSUME NEW w \in Workers, Finishes(w)'
               PROVE  /\ Past(job[w].item)'
                      /\ \A r \in Requests : pc'[r] \in Writing => job'[r].item # job'[w].item
    BY DEF FinishersApart
  <2>1. pc'[w] # "idle"
    BY StepNames DEF Finishes
  <2>2. Finishes(w) /\ job'[w].item = job[w].item
    BY <2>1
  <2>3. \A r \in Requests : pc'[r] \in Writing => pc[r] \in Writing /\ job'[r].item = job[r].item
    BY StepNames
  <2> QED
    BY <2>2, <2>3 DEF OrderInv, FinishersApart, Past
<1>5. BootOrdered'
  <2>1. mode' = "booting" => \A i \in todo' : row'[i].state \in Live
    BY DEF OrderInv, BootOrdered
  <2>2. pc'[Boot] # "idle" => /\ pc[Boot] # "idle" /\ (pc'[Boot] = "reset" <=> pc[Boot] = "reset")
                              /\ job'[Boot].item = job[Boot].item
                              /\ job'[Boot].snap = job[Boot].snap
    OBVIOUS
  <2> QED
    BY <2>1, <2>2 DEF OrderInv, BootOrdered, Behind
<1> QED
  BY <1>1, <1>2, <1>3, <1>4, <1>5 DEF OrderInv

\* A worker that returns.
LEMMA OrderFinish ==
  ASSUME TypeOK, OrderInv, NEW w \in Workers, Finish(w),
         UNCHANGED <<row, commits, cancel, mode, todo>>
  PROVE  OrderInv'
<1>1. /\ pc'[w] = "idle"
      /\ \A v \in Workers : v # w => pc'[v] = pc[v] /\ job'[v] = job[v]
  BY DEF Finish, Goto, TypeOK
<1>2. \A v \in Workers : v # w /\ pc'[v] # "idle" =>
        /\ Finishes(v)' => Finishes(v)
        /\ v = Boot => pc[v] # "idle" /\ (pc'[v] = "reset" <=> pc[v] = "reset")
  BY <1>1 DEF Finishes
<1> QED
  BY <1>1, <1>2, OrderFrame

\* A worker that goes on to the next step of the same work.
LEMMA OrderMove ==
  ASSUME TypeOK, OrderInv, NEW w \in Workers, NEW l,
         Goto(w, l), UNCHANGED <<row, commits, cancel, mode, todo>>,
         \A v \in Workers : /\ job'[v].item = job[v].item /\ job'[v].snap = job[v].snap
                            /\ job'[v].start = job[v].start /\ job'[v].len = job[v].len,
         \/ pc[w] \in Writing /\ l \in Writing /\ w \in Requests
         \/ Finishes(w) /\ l \in Completing
         \/ Finishes(w) /\ l = "settle"
  PROVE  OrderInv'
<1>1. pc'[w] = l /\ \A v \in Workers : v # w => pc'[v] = pc[v]
  BY DEF Goto, TypeOK
<1>2. \A v \in Workers : v # w =>
        /\ Finishes(v)' => Finishes(v)
        /\ v = Boot => pc'[v] = pc[v]
  BY <1>1 DEF Finishes
<1>3. /\ l \in Writing => pc[w] \in Writing
      /\ Finishes(w)' => Finishes(w)
      /\ w = Boot => pc[w] # "idle" /\ pc[w] # "reset" /\ l # "reset"
  BY <1>1, StepNames, WorkersAssumption DEF Finishes
<1>4. ASSUME NEW v \in Workers
      PROVE  \/ pc'[v] = "idle"
             \/ /\ pc'[v] \in Writing => pc[v] \in Writing
                /\ Finishes(v)' => Finishes(v)
                /\ v = Boot => pc[v] # "idle" /\ (pc'[v] = "reset" <=> pc[v] = "reset")
  BY <1>1, <1>2, <1>3
<1> QED
  BY <1>4, OrderFrame

\* Registration writes over the absence of a record: nobody works on the item.
LEMMA OrderRegister ==
  ASSUME TypeOK, StoreInvariant, OrderInv, NEW i \in Items, Register(i)
  PROVE  OrderInv'
<1> Boot \in Workers /\ Requests \subseteq Workers
  BY DEF Workers
<1>1. PICK q \in Paths :
        row' = [row EXCEPT ![i] =
                  [state |-> IF Size[i] = 0 THEN "ready" ELSE "pending",
                   confirmed |-> 0, partial |-> Size[i] # 0, final |-> q]]
  BY DEF Register
<1>2. /\ row'[i].confirmed = 0 /\ row'[i].state # "absent"
      /\ \A j \in Items : j # i => row'[j] = row[j]
  BY <1>1 DEF TypeOK
<1>3. /\ mode = "up" /\ row[i].state = "absent"
      /\ UNCHANGED <<commits, pc, job, cancel, mode, todo>>
  BY DEF Register
<1>4. RecordsOrdered'
  BY <1>3 DEF OrderInv, RecordsOrdered
<1>5. ItemsOrdered'
  <2> SUFFICES ASSUME NEW k \in Items
               PROVE  ItemOrdered(k)'
    BY <1>3 DEF OrderInv, ItemsOrdered
  <2>1. ItemOrdered(k)
    BY DEF OrderInv, ItemsOrdered
  <2>2. CASE k = i
    BY <1>2, <1>3, <2>1, <2>2 DEF ItemOrdered, Behind
  <2>3. CASE k # i
    BY <1>2, <1>3, <2>1, <2>3 DEF ItemOrdered, Behind
  <2> QED
    BY <2>2, <2>3
<1>6. WritersAhead'
  <2> SUFFICES ASSUME NEW r \in Requests, pc[r] \in Writing
               PROVE  WriterAhead(r)'
    BY <1>3 DEF WritersAhead
  <2>1. WriterAhead(r) /\ job[r].item \in Items
    BY WorkerFacts DEF OrderInv, WritersAhead
  <2>2. job[r].item # i
    BY <1>3, <2>1 DEF WriterAhead
  <2> QED
    BY <1>2, <1>3, <2>1, <2>2 DEF WriterAhead, Behind
<1>7. FinishersApart'
  <2> SUFFICES ASSUME NEW w \in Workers, Finishes(w)
               PROVE  /\ Past(job[w].item)'
                      /\ \A r \in Requests : pc[r] \in Writing => job[r].item # job[w].item
    BY <1>3 DEF FinishersApart, Finishes
  <2>1. /\ Past(job[w].item) /\ job[w].item \in Items
        /\ \A r \in Requests : pc[r] \in Writing => job[r].item # job[w].item
    BY WorkerFacts DEF OrderInv, FinishersApart
  <2>2. job[w].item # i
    BY <1>3, <2>1 DEF Past, Live
  <2>3. row'[job[w].item] = row[job[w].item] /\ job'[w] = job[w]
    BY <1>2, <1>3, <2>1, <2>2
  <2> QED
    BY <2>1, <2>3 DEF Past
<1>8. BootOrdered'
  BY <1>3 DEF StoreInvariant, BootAlone, BootOrdered
<1> QED
  BY <1>4, <1>5, <1>6, <1>7, <1>8 DEF OrderInv

\* What follows of a request that writes: its item is not complete.
LEMMA WriterNotPast ==
  ASSUME TypeOK, OrderInv, NEW r \in Requests, pc[r] \in Writing
  PROVE  /\ row[job[r].item].confirmed < Size[job[r].item]
         /\ row[job[r].item].state \notin {"ready", "absent"}
         /\ \A w \in Workers : Finishes(w) => job[w].item # job[r].item
<1>1. WriterAhead(r) /\ r \in Workers
  BY DEF OrderInv, WritersAhead, Workers
<1>2. row[job[r].item].confirmed < Size[job[r].item]
  BY <1>1, WorkerFacts DEF WriterAhead
<1> QED
  BY <1>1, <1>2 DEF WriterAhead, OrderInv, FinishersApart

\* An accepted checkpoint starts where the record, the records of earlier
\* commits and a pending cancellation end, alone on its item.
LEMMA OrderCheckpointStart ==
  ASSUME TypeOK, StoreInvariant, OrderInv, NEW r \in Requests, NEW i \in Items,
         NEW n \in 1 .. MaxChunk, StartCheckpoint(r, i, n)
  PROVE  OrderInv'
<1> r \in Workers /\ r # Boot /\ Boot \in Workers /\ Requests \subseteq Workers
  BY WorkersAssumption DEF Workers
<1>1. /\ mode = "up" /\ pc[r] = "idle" /\ row[i].state \in Live /\ writeLock[i] = NoOne
      /\ row[i].confirmed + n <= Size[i]
      /\ job'[r].item = i /\ job'[r].start = row[i].confirmed /\ job'[r].len = n
      /\ pc'[r] \in {"stat", "open"}
      /\ \A v \in Workers : v # r => pc'[v] = pc[v] /\ job'[v] = job[v]
      /\ UNCHANGED <<row, commits, cancel, mode, todo>>
  BY DEF StartCheckpoint, WriteLockFree, Goto, TypeOK, disk
<1>2. n \in Nat /\ n >= 1 /\ row[i].confirmed \in Nat /\ Size[i] \in Nat
  BY BoundsAssumption, ItemsAssumption DEF TypeOK, Row
<1>3. row[i].confirmed < Size[i]
  BY <1>1, <1>2
<1>4. \A w \in Workers : w # r => Finishes(w)' = Finishes(w)
  BY <1>1 DEF Finishes
<1>5. pc'[r] \in Writing /\ ~ Finishes(r)'
  BY <1>1 DEF Finishes, Completing, Finalizing, Writing
<1>6. \A s \in Requests : pc[s] \in Writing => job[s].item # i
  BY <1>1, WorkersAssumption DEF StoreInvariant, LocksHeld
<1>7. RecordsOrdered' /\ ItemsOrdered'
  BY <1>1 DEF OrderInv, RecordsOrdered, ItemsOrdered, ItemOrdered, Behind
<1>8. WritersAhead'
  <2>1. WriterAhead(r)'
    <3>1. ItemOrdered(i)
      BY DEF OrderInv, ItemsOrdered
    <3> QED
      BY <1>1, <1>2, <3>1 DEF WriterAhead, ItemOrdered, Behind, Live
  <2>2. ASSUME NEW s \in Requests, s # r, pc'[s] \in Writing
        PROVE  WriterAhead(s)'
    BY <1>1, <2>2 DEF OrderInv, WritersAhead, WriterAhead, Behind
  <2> QED
    BY <2>1, <2>2 DEF WritersAhead
<1>9. FinishersApart'
  <2> SUFFICES ASSUME NEW w \in Workers, Finishes(w)'
               PROVE  /\ Past(job[w].item)'
                      /\ \A s \in Requests : pc'[s] \in Writing => job'[s].item # job'[w].item
    BY DEF FinishersApart
  <2>1. Finishes(w) /\ w # r /\ job'[w].item = job[w].item
    BY <1>1, <1>4, <1>5
  <2>2. /\ Past(job[w].item)
        /\ \A s \in Requests : pc[s] \in Writing => job[s].item # job[w].item
    BY <2>1 DEF OrderInv, FinishersApart
  <2>3. job[w].item # i
    BY <1>1, <1>2, <1>3, <2>2 DEF Past, Live
  <2>4. \A s \in Requests : pc'[s] \in Writing => job'[s].item # job[w].item
    BY <1>1, <2>2, <2>3
  <2> QED
    BY <1>1, <2>1, <2>2, <2>4 DEF Past
<1>10. BootOrdered'
  BY <1>1 DEF StoreInvariant, BootAlone, BootOrdered
<1> QED
  BY <1>7, <1>8, <1>9, <1>10 DEF OrderInv

\* A replay that completes an upload finds nobody writing it.
LEMMA OrderReplayStart ==
  ASSUME TypeOK, StoreInvariant, OrderInv, NEW r \in Requests, NEW c \in commits,
         StartReplay(r, c)
  PROVE  OrderInv'
<1> DEFINE i == c.item
<1> r \in Workers /\ r # Boot /\ Boot \in Workers /\ Requests \subseteq Workers
  BY WorkersAssumption DEF Workers
<1> i \in Items /\ c.end \in Nat /\ c.start \in Nat
  BY DEF TypeOK, Commit
<1>1. CASE UNCHANGED <<pc, job>>
  BY <1>1 DEF StartReplay, disk, OrderInv, RecordsOrdered, ItemsOrdered, ItemOrdered, Behind,
     WritersAhead, WriterAhead, FinishersApart, Finishes, Past, BootOrdered
<1>2. CASE ~ UNCHANGED <<pc, job>>
  <2>1. /\ mode = "up" /\ row[i].confirmed = Size[i] /\ row[i].state # "ready"
        /\ pc'[r] = "probe"
        /\ \A v \in Workers : v # r => pc'[v] = pc[v] /\ job'[v] = job[v]
        /\ UNCHANGED <<row, commits, cancel, mode, todo>>
    BY <1>2 DEF StartReplay, Goto, TypeOK, disk
  <2>2. job'[r].item = i
    <3>1. job' = [job EXCEPT ![r] = [NoJob EXCEPT !.item = c.item, !.snap = row[c.item],
                                                  !.dest = row[c.item].final]]
      BY <1>2 DEF StartReplay
    <3> QED
      BY <3>1, InitialRecords DEF TypeOK, Job
  <2>3. pc'[r] \notin Writing
    BY <2>1, StepNames DEF Completing
  <2>4. \A w \in Workers : w # r => Finishes(w)' = Finishes(w)
    BY <2>1 DEF Finishes
  <2>5. Past(i) /\ \A s \in Requests : pc[s] \in Writing => job[s].item # i
    <3>1. row[i].state # "absent"
      <4>1. c.start < c.end /\ ItemOrdered(i)
        BY DEF OrderInv, RecordsOrdered, ItemsOrdered
      <4> QED
        BY <4>1 DEF ItemOrdered, Behind
    <3>2. row[i].state \in Live \union {"absent", "ready", "cancelled"}
      BY DEF TypeOK, Row
    <3>3. \A s \in Requests : pc[s] \in Writing => job[s].item # i
      BY <2>1, WriterNotPast, WorkerFacts
    <3> QED
      BY <2>1, <3>1, <3>2, <3>3 DEF Past
  <2>6. RecordsOrdered' /\ ItemsOrdered'
    BY <2>1 DEF OrderInv, RecordsOrdered, ItemsOrdered, ItemOrdered, Behind
  <2>7. WritersAhead'
    BY <2>1, <2>3 DEF OrderInv, WritersAhead, WriterAhead, Behind
  <2>8. FinishersApart'
    BY <2>1, <2>2, <2>3, <2>4, <2>5 DEF OrderInv, FinishersApart, Past
  <2>9. BootOrdered'
    BY <2>1 DEF StoreInvariant, BootAlone, BootOrdered
  <2> QED
    BY <2>6, <2>7, <2>8, <2>9 DEF OrderInv
<1> QED
  BY <1>1, <1>2

\* A commit extends the record, and the idempotency records, at their end.
LEMMA OrderCommit ==
  ASSUME TypeOK, StoreInvariant, OrderInv, NEW r \in Requests, CommitCheckpoint(r)
  PROVE  OrderInv'
<1> DEFINE i == job[r].item
           start == job[r].start
           end == job[r].start + job[r].len
           new == CommitOf(i, start, end)
<1> r \in Workers /\ r # Boot /\ Boot \in Workers /\ Requests \subseteq Workers
  BY WorkersAssumption DEF Workers
<1>1. /\ i \in Items /\ start \in Nat /\ job[r].len \in Nat /\ Size[i] \in Nat
      /\ job[r].snap \in Row /\ row[i].confirmed \in Nat
  BY WorkerFacts
<1>2. pc[r] = "commit" /\ pc[r] \in Writing
  BY DEF CommitCheckpoint, Writing
<1>3. /\ WriterAhead(r)
      /\ job[r].len >= 1 /\ end <= Size[i] /\ row[i].confirmed <= start
      /\ cancel[i].step # "none" => cancel[i].snap.confirmed <= start
      /\ Behind(i, start)
      /\ start < end /\ end \in Nat
  BY <1>1, <1>2 DEF OrderInv, WritersAhead, WriterAhead
<1>4. row' = [row EXCEPT ![i] = [job[r].snap EXCEPT !.confirmed = end, !.state = "transferring"]]
  BY DEF CommitCheckpoint
<1>5. /\ row'[i].confirmed = end /\ row'[i].state = "transferring"
      /\ \A j \in Items : j # i => row'[j] = row[j]
  BY <1>1, <1>4 DEF TypeOK, Row
<1>6. /\ commits' \subseteq commits \union {new}
      /\ new.item = i /\ new.start = start /\ new.end = end
  BY DEF CommitCheckpoint, Trimmed, CommitOf
<1>7. /\ pc'[r] = "publish" /\ job'[r].item = i
      /\ \A v \in Workers : v # r => pc'[v] = pc[v] /\ job'[v] = job[v]
      /\ UNCHANGED <<cancel, mode, todo>>
  BY DEF CommitCheckpoint, Goto, TypeOK, Job
<1> HIDE DEF i, start, end, new
<1>8. /\ mode = "up" /\ pc[Boot] = "idle"
      /\ \A s \in Requests : s # r /\ pc[s] \in Writing => job[s].item # i
      /\ \A w \in Workers : Finishes(w) => job[w].item # i
  BY <1>2, WriterNotPast, LockExcludes DEF StoreInvariant, BootAlone, i
<1>9. /\ \A w \in Workers : w # r => Finishes(w)' = Finishes(w)
      /\ pc'[r] \notin Writing
  BY <1>7, StepNames DEF Finishes
<1>10. \A c \in commits : c.end \in Nat /\ c.start \in Nat
  BY DEF TypeOK, Commit
<1>11. RecordsOrdered'
  <2> SUFFICES ASSUME NEW c \in commits', NEW d \in commits'
               PROVE  /\ c.start < c.end
                      /\ d.item = c.item => d = c \/ d.end <= c.start \/ c.end <= d.start
    BY DEF RecordsOrdered
  <2>1. CASE c \in commits /\ d \in commits
    BY <2>1 DEF OrderInv, RecordsOrdered
  <2>2. CASE c = new /\ d \in commits
    BY <1>3, <1>6, <2>2 DEF Behind
  <2>3. CASE c \in commits /\ d = new
    BY <1>3, <1>6, <2>3 DEF Behind, OrderInv, RecordsOrdered
  <2>4. CASE c = new /\ d = new
    BY <1>3, <1>6, <2>4
  <2> QED
    BY <1>6, <2>1, <2>2, <2>3, <2>4
<1>12. ASSUME NEW j \in Items, j # i, NEW n, Behind(j, n)
       PROVE  Behind(j, n)'
  BY <1>6, <1>12 DEF Behind
<1>13. ItemsOrdered'
  <2> SUFFICES ASSUME NEW k \in Items
               PROVE  ItemOrdered(k)'
    BY <1>7 DEF OrderInv, ItemsOrdered
  <2>1. ItemOrdered(k)
    BY DEF OrderInv, ItemsOrdered
  <2>2. CASE k = i
    <3>1. \A c \in commits' : c.item = i => c.end <= end
      BY <1>3, <1>6, <1>10, <1>1 DEF Behind
    <3>2. cancel[i].snap.confirmed \in Nat
      BY <1>1 DEF TypeOK, Cancel, Row
    <3>3. cancel[i].step # "none" => cancel[i].snap.confirmed <= end
      BY <1>1, <1>3, <3>2
    <3> QED
      BY <1>5, <1>7, <2>2, <3>1, <3>3 DEF ItemOrdered, Behind
  <2>3. CASE k # i
    <3>1. row'[k] = row[k] /\ cancel'[k] = cancel[k]
      BY <1>5, <1>7, <2>3
    <3>2. Behind(k, row[k].confirmed) => \A c \in commits' : c.item = k => c.end <= row[k].confirmed
      BY <1>6, <2>3 DEF Behind
    <3> QED
      BY <2>1, <3>1, <3>2 DEF ItemOrdered, Behind
  <2> QED
    BY <2>2, <2>3
<1>14. WritersAhead'
  <2> SUFFICES ASSUME NEW s \in Requests, s # r, pc[s] \in Writing
               PROVE  WriterAhead(s)'
    BY <1>7, <1>9 DEF WritersAhead
  <2>1. WriterAhead(s) /\ job[s].item # i /\ job[s].item \in Items
    BY <1>8, WorkerFacts DEF OrderInv, WritersAhead
  <2>2. row'[job[s].item] = row[job[s].item] /\ job'[s] = job[s]
    BY <1>5, <1>7, <2>1
  <2>3. \A c \in commits' : c.item = job[s].item => c.end <= job[s].start
    BY <1>6, <2>1 DEF WriterAhead, Behind
  <2> QED
    BY <1>7, <2>1, <2>2, <2>3 DEF WriterAhead, Behind
<1>15. FinishersApart'
  <2> SUFFICES ASSUME NEW w \in Workers, Finishes(w)'
               PROVE  /\ Past(job[w].item)'
                      /\ \A s \in Requests : pc'[s] \in Writing => job'[s].item # job'[w].item
    BY DEF FinishersApart
  <2>1. CASE w = r
    <3>1. job'[r].snap.confirmed = end
      BY <1>1 DEF CommitCheckpoint, TypeOK, Job, Row, end
    <3>2. end = Size[i]
      BY <1>7, <2>1, <3>1, StepNames DEF Finishes, Completing
    <3>3. Past(job[w].item)'
      BY <1>5, <1>7, <2>1, <3>2 DEF Past, Live
    <3> QED
      BY <1>7, <1>8, <1>9, <2>1, <3>3
  <2>2. CASE w # r
    <3>1. /\ Finishes(w) /\ job'[w].item = job[w].item
          /\ job[w].item # i /\ job[w].item \in Items
      BY <1>7, <1>8, <1>9, <2>2, WorkerFacts
    <3>2. /\ Past(job[w].item)
          /\ \A s \in Requests : pc[s] \in Writing => job[s].item # job[w].item
      BY <3>1 DEF OrderInv, FinishersApart
    <3>3. row'[job[w].item] = row[job[w].item]
      BY <1>5, <3>1
    <3> QED
      BY <1>7, <1>9, <3>1, <3>2, <3>3 DEF Past
  <2> QED
    BY <2>1, <2>2
<1>16. BootOrdered'
  BY <1>7, <1>8 DEF BootOrdered
<1> QED
  BY <1>11, <1>13, <1>14, <1>15, <1>16 DEF OrderInv

\* The other steps of a checkpoint move the writer on, or let it go.
LEMMA OrderCheckpoint ==
  ASSUME TypeOK, StoreInvariant, OrderInv, NEW r \in Requests, CheckpointStep(r)
  PROVE  OrderInv'
<1> r \in Workers
  BY DEF Workers
<1>1. CASE Finish(r) /\ UNCHANGED <<row, commits, cancel, mode, todo>>
  BY <1>1, OrderFinish
<1>2. ASSUME NEW l, pc[r] \in Writing, l \in Writing, Goto(r, l),
             \A v \in Workers : /\ job'[v].item = job[v].item /\ job'[v].snap = job[v].snap
                                /\ job'[v].start = job[v].start /\ job'[v].len = job[v].len,
             UNCHANGED <<row, commits, cancel, mode, todo>>
      PROVE  OrderInv'
  BY <1>2, OrderMove
<1>3. CASE StatPartial(r)
  BY <1>1, <1>2, <1>3 DEF StatPartial, Writing, disk
<1>4. CASE OpenPartial(r)
  <2>1. \A v \in Workers : /\ job'[v].item = job[v].item /\ job'[v].snap = job[v].snap
                           /\ job'[v].start = job[v].start /\ job'[v].len = job[v].len
    BY <1>4 DEF OpenPartial, TypeOK, Job
  <2> QED
    BY <1>2, <1>4, <2>1 DEF OpenPartial, Writing
<1>5. CASE ReceiveBody(r)
  BY <1>2, <1>5 DEF ReceiveBody, Writing
<1>6. CASE UndoWrite(r) \/ FailPublish(r) \/ FailIO(r)
  BY <1>1, <1>6 DEF UndoWrite, FailPublish, FailIO, disk
<1>7. CASE SyncPartial(r)
  BY <1>1, <1>2, <1>7 DEF SyncPartial, Writing
<1>8. CASE FailCommit(r)
  BY <1>2, <1>8 DEF FailCommit, Writing, disk
<1>9. CASE PublishProgress(r)
  <2>1. CASE Finish(r)
    BY <1>1, <1>9, <2>1 DEF PublishProgress, disk
  <2>2. CASE ~ Finish(r)
    <3>1. /\ Finishes(r) /\ Goto(r, "hash") /\ "hash" \in Completing
          /\ UNCHANGED <<row, commits, cancel, mode, todo, job>>
      BY <1>9, <2>2 DEF PublishProgress, Finishes, Completing, Finalizing, disk
    <3> QED
      BY <3>1, OrderMove
  <2> QED
    BY <2>1, <2>2
<1> QED
  BY <1>3, <1>4, <1>5, <1>6, <1>7, <1>8, <1>9, OrderCommit DEF CheckpointStep

\* The record that becomes ready is one nobody writes bytes for any more.
LEMMA OrderReady ==
  ASSUME TypeOK, StoreInvariant, OrderInv, NEW w \in Workers, RecordReady(w)
  PROVE  OrderInv'
<1> DEFINE i == job[w].item
<1> Boot \in Workers /\ Requests \subseteq Workers
  BY DEF Workers
<1>1. i \in Items
  BY WorkerFacts
<1>2. /\ row'[i].state = "ready"
      /\ \A j \in Items : j # i => row'[j] = row[j]
  BY <1>1 DEF RecordReady, TypeOK
<1>3. /\ pc'[w] = "idle"
      /\ \A v \in Workers : v # w => pc'[v] = pc[v] /\ job'[v] = job[v]
      /\ UNCHANGED <<commits, cancel>>
      /\ \/ UNCHANGED <<mode, todo>>
         \/ w = Boot /\ mode' = "down" /\ todo' = {}
  BY DEF RecordReady, Finish, Goto, TypeOK
<1>4. Finishes(w)
  BY DEF RecordReady, Finishes, Completing, Finalizing
<1>11. \A j \in Items : cancel'[j].step # "none" => mode' = "up"
  <2>1. w = Boot => mode = "booting"
    BY <1>4, StepNames DEF StoreInvariant, BootAlone, Finishes
  <2> QED
    BY <1>3, <2>1 DEF OrderInv, ItemsOrdered
<1>5. \A r \in Requests : pc[r] \in Writing => job[r].item # i
  BY <1>4 DEF OrderInv, FinishersApart
<1>6. RecordsOrdered'
  BY <1>3 DEF OrderInv, RecordsOrdered
<1>7. ItemsOrdered'
  <2> SUFFICES ASSUME NEW k \in Items
               PROVE  ItemOrdered(k)'
    BY <1>11 DEF ItemsOrdered
  <2>1. ItemOrdered(k)
    BY DEF OrderInv, ItemsOrdered
  <2>2. CASE k = i
    BY <1>2, <2>2 DEF ItemOrdered, Live
  <2>3. CASE k # i
    BY <1>2, <1>3, <2>1, <2>3 DEF ItemOrdered, Behind
  <2> QED
    BY <2>2, <2>3
<1>8. WritersAhead'
  <2> SUFFICES ASSUME NEW s \in Requests, pc'[s] \in Writing
               PROVE  WriterAhead(s)'
    BY DEF WritersAhead
  <2>1. s # w /\ pc[s] \in Writing /\ job'[s] = job[s]
    BY <1>3, StepNames
  <2>2. WriterAhead(s) /\ job[s].item \in Items /\ row'[job[s].item] = row[job[s].item]
    BY <1>2, <1>5, <2>1, WorkerFacts DEF OrderInv, WritersAhead
  <2> QED
    BY <1>3, <2>1, <2>2 DEF WriterAhead, Behind
<1>9. FinishersApart'
  <2> SUFFICES ASSUME NEW v \in Workers, Finishes(v)'
               PROVE  /\ Past(job[v].item)'
                      /\ \A s \in Requests : pc'[s] \in Writing => job'[s].item # job'[v].item
    BY DEF FinishersApart
  <2>1. v # w /\ job'[v] = job[v] /\ Finishes(v)
    BY <1>3, StepNames DEF Finishes
  <2>2. /\ Past(job[v].item) /\ job[v].item \in Items
        /\ \A s \in Requests : pc[s] \in Writing => job[s].item # job[v].item
    BY <2>1, WorkerFacts DEF OrderInv, FinishersApart
  <2>3. \A s \in Requests : pc'[s] \in Writing => pc[s] \in Writing /\ job'[s] = job[s]
    BY <1>3, StepNames
  <2>4. row'[job[v].item] = row[job[v].item] \/ row'[job[v].item].state = "ready"
    BY <1>2, <2>2
  <2> QED
    BY <2>1, <2>2, <2>3, <2>4 DEF Past
<1>10. BootOrdered'
  <2>1. CASE w = Boot
    <3>1. pc[Boot] # "idle"
      BY <1>4, <2>1, StepNames DEF Finishes
    <3>2. i \notin todo
      BY <2>1, <3>1 DEF OrderInv, BootOrdered
    <3>3. \A j \in todo : row'[j] = row[j]
      BY <1>2, <3>2 DEF TypeOK
    <3> QED
      BY <1>3, <2>1, <3>3 DEF OrderInv, BootOrdered
  <2>2. CASE w # Boot
    <3>1. w \in Requests /\ pc[w] # "idle"
      BY <1>4, <2>2, StepNames DEF Finishes, Workers
    <3>2. mode = "up" /\ pc[Boot] = "idle"
      BY <3>1 DEF StoreInvariant, BootAlone
    <3> QED
      BY <1>3, <2>2, <3>2 DEF BootOrdered
  <2> QED
    BY <2>1, <2>2
<1> QED
  BY <1>6, <1>7, <1>8, <1>9, <1>10 DEF OrderInv

\* The steps of a completion before the record is written.
LEMMA OrderCompletion ==
  ASSUME TypeOK, StoreInvariant, OrderInv, NEW w \in Workers, CompletionStep(w)
  PROVE  OrderInv'
<1>1. CASE Finish(w) /\ UNCHANGED <<row, commits, cancel, mode, todo>>
  BY <1>1, OrderFinish
<1>2. ASSUME NEW l, pc[w] \in Completing, l \in Completing \union {"settle"}, Goto(w, l),
             \A v \in Workers : /\ job'[v].item = job[v].item /\ job'[v].snap = job[v].snap
                                /\ job'[v].start = job[v].start /\ job'[v].len = job[v].len,
             UNCHANGED <<row, commits, cancel, mode, todo>>
      PROVE  OrderInv'
  BY <1>2, OrderMove DEF Finishes
<1>3. CASE ProbeFinal(w)
  BY <1>2, <1>3 DEF ProbeFinal, Completing, disk
<1>4. CASE ProbePartial(w)
  BY <1>1, <1>2, <1>4 DEF ProbePartial, NothingRecovered, Completing, Finalizing, disk
<1>5. CASE HashPartial(w)
  BY <1>1, <1>2, <1>5 DEF HashPartial, Completing, Finalizing, disk
<1>6. CASE ChooseFinalPath(w)
  <2>1. ASSUME NEW p \in Paths, job' = [job EXCEPT ![w].dest = p], Goto(w, "rename")
        PROVE  OrderInv'
    <3>1. \A v \in Workers : /\ job'[v].item = job[v].item /\ job'[v].snap = job[v].snap
                             /\ job'[v].start = job[v].start /\ job'[v].len = job[v].len
      BY <2>1 DEF TypeOK, Job
    <3> QED
      BY <1>2, <1>6, <2>1, <3>1 DEF ChooseFinalPath, Completing, Finalizing, disk
  <2> QED
    BY <1>1, <1>6, <2>1 DEF ChooseFinalPath, disk
<1>7. CASE RenamePartial(w)
  BY <1>1, <1>2, <1>7 DEF RenamePartial, Completing, Finalizing
<1> QED
  BY <1>3, <1>4, <1>5, <1>6, <1>7, OrderReady DEF CompletionStep

\* A cancellation carries the offset it read, which is not ahead of a writer.
LEMMA OrderCancel ==
  ASSUME TypeOK, StoreInvariant, OrderInv, NEW i \in Items,
         StartCancel(i) \/ RemoveCancelled(i) \/ RecordCancelled(i)
  PROVE  OrderInv'
<1> Boot \in Workers /\ Requests \subseteq Workers
  BY DEF Workers
<1>1. CASE StartCancel(i)
  <2>1. /\ mode = "up" /\ cancel'[i].snap = row[i]
        /\ \A j \in Items : j # i => cancel'[j] = cancel[j]
        /\ UNCHANGED <<row, commits, pc, job, mode, todo>>
    BY <1>1 DEF StartCancel, TypeOK, disk
  <2>2. RecordsOrdered' /\ FinishersApart' /\ BootOrdered'
    BY <2>1 DEF OrderInv, RecordsOrdered, FinishersApart, Finishes, Past, BootOrdered, Behind
  <2>3. ItemsOrdered'
    <3> SUFFICES ASSUME NEW k \in Items
                 PROVE  ItemOrdered(k)' /\ (cancel'[k].step # "none" => mode' = "up")
      BY DEF ItemsOrdered
    <3>1. ItemOrdered(k) /\ (cancel[k].step # "none" => mode = "up")
      BY DEF OrderInv, ItemsOrdered
    <3>2. row[k].confirmed \in Nat
      BY DEF TypeOK, Row
    <3>3. CASE k = i
      BY <2>1, <3>1, <3>2, <3>3 DEF ItemOrdered, Behind
    <3>4. CASE k # i
      BY <2>1, <3>1, <3>4 DEF ItemOrdered, Behind
    <3> QED
      BY <3>3, <3>4
  <2>4. WritersAhead'
    <3> SUFFICES ASSUME NEW r \in Requests, pc[r] \in Writing
                 PROVE  WriterAhead(r)'
      BY <2>1 DEF WritersAhead
    <3>1. WriterAhead(r) /\ job[r].item \in Items
      BY WorkerFacts DEF OrderInv, WritersAhead
    <3> QED
      BY <2>1, <3>1 DEF WriterAhead, Behind
  <2> QED
    BY <2>2, <2>3, <2>4 DEF OrderInv
<1>2. CASE RemoveCancelled(i)
  <2>1. \A k \in Items : cancel'[k].snap = cancel[k].snap
                         /\ (cancel'[k].step # "none" => cancel[k].step # "none")
    BY <1>2 DEF RemoveCancelled, TypeOK, Cancel
  <2>2. \A v \in Workers : /\ job'[v].item = job[v].item /\ job'[v].snap = job[v].snap
                           /\ job'[v].start = job[v].start /\ job'[v].len = job[v].len
    BY <1>2 DEF RemoveCancelled, TypeOK, Job
  <2>3. UNCHANGED <<row, commits, pc, mode, todo>>
    BY <1>2 DEF RemoveCancelled
  <2>4. \A v \in Workers : Finishes(v)' = Finishes(v)
    BY <2>2, <2>3 DEF Finishes
  <2> QED
    BY <2>1, <2>2, <2>3, <2>4, OrderFrame
<1>3. CASE RecordCancelled(i)
  <2>1. /\ cancel[i].step # "none"
        /\ row'[i].state = "cancelled" /\ row'[i].confirmed = cancel[i].snap.confirmed
        /\ \A j \in Items : j # i => row'[j] = row[j] /\ cancel'[j] = cancel[j]
        /\ cancel'[i].step = "none"
        /\ UNCHANGED <<commits, pc, job, mode, todo>>
    BY <1>3 DEF RecordCancelled, TypeOK, Cancel, Row, NoCancel
  <2>2. mode = "up" /\ pc[Boot] = "idle"
    BY <2>1 DEF OrderInv, ItemsOrdered, StoreInvariant, BootAlone
  <2>3. RecordsOrdered' /\ BootOrdered'
    BY <2>1, <2>2 DEF OrderInv, RecordsOrdered, BootOrdered
  <2>4. ItemsOrdered'
    <3> SUFFICES ASSUME NEW k \in Items
                 PROVE  ItemOrdered(k)' /\ (cancel'[k].step # "none" => mode' = "up")
      BY DEF ItemsOrdered
    <3>1. ItemOrdered(k) /\ (cancel[k].step # "none" => mode = "up")
      BY DEF OrderInv, ItemsOrdered
    <3>2. CASE k = i
      BY <2>1, <3>2 DEF ItemOrdered, Live
    <3>3. CASE k # i
      BY <2>1, <3>1, <3>3 DEF ItemOrdered, Behind
    <3> QED
      BY <3>2, <3>3
  <2>5. WritersAhead'
    <3> SUFFICES ASSUME NEW r \in Requests, pc[r] \in Writing
                 PROVE  WriterAhead(r)'
      BY <2>1 DEF WritersAhead
    <3>1. WriterAhead(r) /\ job[r].item \in Items
      BY WorkerFacts DEF OrderInv, WritersAhead
    <3> QED
      BY <2>1, <3>1 DEF WriterAhead, Behind
  <2>6. FinishersApart'
    <3> SUFFICES ASSUME NEW v \in Workers, Finishes(v)
                 PROVE  /\ Past(job[v].item)'
                        /\ \A s \in Requests : pc[s] \in Writing => job[s].item # job[v].item
      BY <2>1 DEF FinishersApart, Finishes
    <3>1. /\ Past(job[v].item) /\ job[v].item \in Items
          /\ \A s \in Requests : pc[s] \in Writing => job[s].item # job[v].item
      BY WorkerFacts DEF OrderInv, FinishersApart
    <3>2. /\ job'[v] = job[v]
          /\ row'[job[v].item] = row[job[v].item] \/ row'[job[v].item].state = "cancelled"
      BY <2>1, <3>1
    <3> QED
      BY <3>1, <3>2 DEF Past
  <2> QED
    BY <2>3, <2>4, <2>5, <2>6 DEF OrderInv
<1> QED
  BY <1>1, <1>2, <1>3

\* After a crash nobody works; startup moves an offset back together with the
\* records beyond it, and works on items still open.
LEMMA OrderBoot ==
  ASSUME TypeOK, StoreInvariant, OrderInv, Crash \/ Restart \/ BootStep
  PROVE  OrderInv'
<1> DEFINE i == job[Boot].item
           offset == job[Boot].snap.confirmed
<1> Boot \in Workers /\ Requests \subseteq Workers /\ Boot \notin Requests
  BY WorkersAssumption DEF Workers
<1>1. CASE Crash
  <2>1. /\ \A v \in Workers : pc'[v] = "idle"
        /\ \A k \in Items : cancel'[k].step = "none"
        /\ mode' = "down" /\ UNCHANGED <<row, commits>>
    BY <1>1 DEF Crash, NoCancel
  <2>2. RecordsOrdered' /\ ItemsOrdered' /\ BootOrdered'
    BY <2>1 DEF OrderInv, RecordsOrdered, ItemsOrdered, ItemOrdered, Behind, BootOrdered
  <2>3. WritersAhead' /\ FinishersApart'
    BY <2>1, StepNames DEF WritersAhead, FinishersApart, Finishes
  <2> QED
    BY <2>2, <2>3 DEF OrderInv
<1>2. ASSUME mode # "up"
      PROVE  /\ \A r \in Requests : pc[r] = "idle"
             /\ \A k \in Items : cancel[k].step = "none"
  BY <1>2 DEF StoreInvariant, BootAlone, OrderInv, ItemsOrdered
<1>3. CASE Restart \/ FinishBoot
  <2>1. /\ \A v \in Workers : pc'[v] = "idle"
        /\ \A k \in Items : cancel'[k].step = "none"
        /\ mode' = "booting" => \A k \in todo' : row[k].state \in Live
        /\ UNCHANGED <<row, commits, cancel>>
    BY <1>2, <1>3 DEF Restart, FinishBoot, StoreInvariant, BootAlone, Workers, disk
  <2>2. RecordsOrdered' /\ ItemsOrdered' /\ BootOrdered'
    BY <2>1 DEF OrderInv, RecordsOrdered, ItemsOrdered, ItemOrdered, Behind, BootOrdered
  <2>3. WritersAhead' /\ FinishersApart'
    BY <2>1, StepNames DEF WritersAhead, FinishersApart, Finishes
  <2> QED
    BY <2>2, <2>3 DEF OrderInv
<1>4. ASSUME NEW k \in Items, VisitItem(k)
      PROVE  OrderInv'
  <2>1. job'[Boot].item = k /\ job'[Boot].snap = row[k]
    <3>1. job' = [job EXCEPT ![Boot] = [NoJob EXCEPT !.item = k, !.snap = row[k],
                                                     !.dest = row[k].final]]
      BY <1>4 DEF VisitItem
    <3> QED
      BY <3>1, InitialRecords DEF TypeOK, Job
  <2>2. /\ mode = "booting" /\ k \in todo /\ todo' = todo \ {k}
        /\ pc'[Boot] = IF row[k].confirmed = Size[k] THEN "probe" ELSE "settle"
        /\ \A v \in Workers : v # Boot => pc'[v] = "idle"
        /\ UNCHANGED <<row, commits, cancel, mode>>
    BY <1>2, <1>4 DEF VisitItem, Goto, TypeOK, disk, Workers
  <2>3. row[k].state \in Live
    BY <2>2 DEF OrderInv, BootOrdered
  <2>4. RecordsOrdered' /\ ItemsOrdered'
    BY <2>2 DEF OrderInv, RecordsOrdered, ItemsOrdered, ItemOrdered, Behind
  <2>5. WritersAhead'
    BY <2>2, StepNames DEF WritersAhead
  <2>6. FinishersApart'
    <3>1. \A w \in Workers : Finishes(w)' => w = Boot /\ row[k].confirmed = Size[k]
      BY <2>2, StepNames DEF Finishes
    <3>2. \A r \in Requests : pc'[r] \notin Writing
      BY <2>2, StepNames
    <3> QED
      BY <2>1, <2>2, <2>3, <3>1, <3>2 DEF FinishersApart, Past
  <2>7. BootOrdered'
    BY <2>1, <2>2, <2>3 DEF OrderInv, BootOrdered
  <2> QED
    BY <2>4, <2>5, <2>6, <2>7 DEF OrderInv
<1>5. CASE SettlePartial
  <2>1. /\ pc[Boot] = "settle" /\ pc'[Boot] = "reset"
        /\ \A v \in Workers : v # Boot => pc'[v] = pc[v] /\ job'[v] = job[v]
        /\ commits' \subseteq commits
        /\ UNCHANGED <<row, cancel, mode, todo>>
    BY <1>5 DEF SettlePartial, Goto, TypeOK, CommitsUpTo
  <2>2. mode = "booting" /\ \A v \in Workers : v # Boot => pc[v] = "idle" /\ pc'[v] = "idle"
    BY <2>1 DEF StoreInvariant, BootAlone, Workers
  <2>3. /\ row[i].state \in Live /\ i \notin todo /\ offset = row[i].confirmed
        /\ i \in Items
    BY <2>1, WorkerFacts DEF OrderInv, BootOrdered
  <2>4. Behind(i, offset)
    BY <2>3 DEF OrderInv, ItemsOrdered, ItemOrdered
  <2>5. /\ job'[Boot].item = i
        /\ \A c \in commits' : c.item = i => c.end <= job'[Boot].snap.confirmed
    <3>1. CASE part[i].len > offset
      BY <1>5, <2>1, <2>4, <3>1 DEF SettlePartial, Behind
    <3>2. CASE ~ (part[i].len > offset)
      <4>1. /\ job' = [job EXCEPT ![Boot].snap.confirmed = part[i].len]
            /\ commits' = IF part[i].exists /\ part[i].len = offset
                            THEN commits ELSE CommitsUpTo(i, part[i].len)
        BY <1>5, <3>2 DEF SettlePartial
      <4>2. job'[Boot] = [job[Boot] EXCEPT
                            !.snap = [job[Boot].snap EXCEPT !.confirmed = part[i].len]]
        BY <4>1 DEF TypeOK
      <4>3. job'[Boot].item = i /\ job'[Boot].snap.confirmed = part[i].len
        BY <4>2, WorkerFacts DEF Job, Row
      <4> QED
        BY <2>4, <4>1, <4>3 DEF Behind, CommitsUpTo
    <3> QED
      BY <3>1, <3>2
  <2>6. RecordsOrdered' /\ ItemsOrdered'
    BY <2>1 DEF OrderInv, RecordsOrdered, ItemsOrdered, ItemOrdered, Behind
  <2>7. WritersAhead' /\ FinishersApart'
    BY <2>1, <2>2, StepNames DEF WritersAhead, FinishersApart, Finishes
  <2>8. BootOrdered'
    BY <2>1, <2>2, <2>3, <2>5 DEF OrderInv, BootOrdered, Behind
  <2> QED
    BY <2>6, <2>7, <2>8 DEF OrderInv
<1>6. CASE ResetRow
  <2> DEFINE settled == [job[Boot].snap EXCEPT
                           !.state = IF offset > 0 THEN "transferring" ELSE "pending"]
  <2>1. settled.confirmed = offset /\ settled.state \in Live
    BY WorkerFacts DEF Row, Live
  <2>2. /\ pc[Boot] = "reset" /\ row'[i] = settled
        /\ \A k \in Items : k # i => row'[k] = row[k]
        /\ UNCHANGED <<commits, cancel, mode, todo>>
    BY <1>6, WorkerFacts DEF ResetRow, TypeOK
  <2>3. \/ /\ offset = Size[i] /\ pc'[Boot] = "probe"
           /\ job'[Boot].item = i /\ job'[Boot].snap = settled
           /\ \A v \in Workers : v # Boot => pc'[v] = pc[v]
        \/ pc'[Boot] = "idle" /\ \A v \in Workers : v # Boot => pc'[v] = pc[v]
    BY <1>6 DEF ResetRow, Goto, Finish, TypeOK, Job
  <2> HIDE DEF settled
  <2>4. mode = "booting" /\ \A v \in Workers : v # Boot => pc'[v] = "idle"
    BY <2>2, <2>3 DEF StoreInvariant, BootAlone, Workers
  <2>5. i \in Items /\ i \notin todo /\ Behind(i, offset)
    BY <2>2, WorkerFacts DEF OrderInv, BootOrdered
  <2>6. RecordsOrdered'
    BY <2>2 DEF OrderInv, RecordsOrdered
  <2>7. ItemsOrdered'
    <3> SUFFICES ASSUME NEW k \in Items
                 PROVE  ItemOrdered(k)'
      BY <1>2, <2>2, <2>4 DEF ItemsOrdered
    <3>1. ItemOrdered(k) /\ cancel'[k].step = "none"
      BY <1>2, <2>2, <2>4 DEF OrderInv, ItemsOrdered
    <3>2. CASE k = i
      BY <2>1, <2>2, <2>5, <3>1, <3>2 DEF ItemOrdered, Behind, Live
    <3>3. CASE k # i
      BY <2>2, <3>1, <3>3 DEF ItemOrdered, Behind
    <3> QED
      BY <3>2, <3>3
  <2>8. WritersAhead'
    BY <2>4, StepNames DEF WritersAhead
  <2>9. FinishersApart'
    <3>1. \A w \in Workers : Finishes(w)' => w = Boot /\ pc'[Boot] = "probe"
      BY <2>3, <2>4, StepNames DEF Finishes
    <3>2. \A r \in Requests : pc'[r] \notin Writing
      BY <2>4, StepNames
    <3>3. pc'[Boot] = "probe" => Past(job[Boot].item)'
      BY <2>1, <2>2, <2>3 DEF Past
    <3> QED
      BY <3>1, <3>2, <3>3 DEF FinishersApart
  <2>10. BootOrdered'
    <3>1. \A k \in todo : row'[k] = row[k]
      BY <2>2, <2>5 DEF TypeOK
    <3> QED
      BY <2>1, <2>2, <2>3, <2>4, <2>5, <3>1 DEF OrderInv, BootOrdered
  <2> QED
    BY <2>6, <2>7, <2>8, <2>9, <2>10 DEF OrderInv
<1> QED
  BY <1>1, <1>3, <1>4, <1>5, <1>6 DEF BootStep

\* No step of the store breaks the order of commits.
LEMMA OrderNext == TypeOK /\ StoreInvariant /\ OrderInv /\ [Next]_vars => OrderInv'
<1> SUFFICES ASSUME TypeOK, StoreInvariant, OrderInv, [Next]_vars
             PROVE  OrderInv'
  OBVIOUS
<1>1. ASSUME UNCHANGED <<row, pc, job, cancel, mode, todo>>, commits' \subseteq commits
      PROVE  OrderInv'
  BY <1>1 DEF OrderInv, RecordsOrdered, ItemsOrdered, ItemOrdered, Behind, WritersAhead,
     WriterAhead, FinishersApart, Finishes, Past, BootOrdered
<1>2. ASSUME NEW i \in Items,
             ReportStatus(i) \/ \E cut \in 1 .. Size[i] : ForgetCommits(i, cut)
      PROVE  OrderInv'
  BY <1>1, <1>2 DEF ReportStatus, ForgetCommits, disk
<1>3. ASSUME NEW p \in Paths, NEW n, DropForeignFile(p, n)
      PROVE  OrderInv'
  BY <1>1, <1>3 DEF DropForeignFile
<1>4. CASE UNCHANGED vars
  BY <1>1, <1>4 DEF vars
<1> QED
  BY <1>2, <1>3, <1>4, OrderRegister, OrderCheckpointStart, OrderReplayStart,
     OrderCheckpoint, OrderCompletion, OrderCancel, OrderBoot DEF Next

\* The order of commits holds in every reachable state.
THEOREM CommitsInOrder == Spec => []OrderInv
<1>1. Init => OrderInv
  BY OrderInit
<1>2. TypeOK /\ StoreInvariant /\ OrderInv /\ [Next]_vars => OrderInv'
  BY OrderNext
<1> QED
  BY <1>1, <1>2, TypeCorrect, StoreIsSound, PTL DEF Spec

\* No byte range of an item is committed twice, and no idempotency record lies
\* beyond the offset of an item that is still open: across retries, rewinds,
\* trimming, retention and crashes.
THEOREM CommitsPartition == Spec => []CommitsPartitionPrefix
<1>1. TypeOK /\ OrderInv => CommitsPartitionPrefix
  <2> SUFFICES ASSUME TypeOK, OrderInv, NEW c \in commits
               PROVE  row[c.item].state \in Live => c.end <= row[c.item].confirmed
    BY DEF CommitsPartitionPrefix, OrderInv, RecordsOrdered
  <2>1. c.item \in Items
    BY DEF TypeOK, Commit
  <2> QED
    BY <2>1 DEF OrderInv, ItemsOrdered, ItemOrdered, Behind
<1> QED
  BY <1>1, TypeCorrect, CommitsInOrder, PTL

\* What a step does to the record of a ready item: it stays ready or is cancelled,
\* because writers and startup hold only records of items that are still open.
LEMMA ReadyKept ==
  ASSUME TypeOK, StoreInvariant, OrderInv, Next, NEW i \in Items, row[i].state = "ready"
  PROVE  row'[i].state \in {"ready", "cancelled"}
<1>1. ASSUME NEW j \in Items, Register(j) \/ RecordCancelled(j)
      PROVE  row'[i].state \in {"ready", "cancelled"}
  <2>1. CASE Register(j)
    BY <2>1 DEF Register, TypeOK
  <2>2. CASE RecordCancelled(j)
    BY <2>2 DEF RecordCancelled, TypeOK, Cancel, Row
  <2> QED
    BY <1>1, <2>1, <2>2
<1>2. ASSUME NEW r \in Requests, CommitCheckpoint(r)
      PROVE  row'[i].state \in {"ready", "cancelled"}
  <2>1. pc[r] \in Writing /\ r \in Workers
    BY <1>2 DEF CommitCheckpoint, Writing, Workers
  <2>2. job[r].item # i
    BY <2>1, WriterNotPast
  <2> QED
    BY <1>2, <2>2 DEF CommitCheckpoint, TypeOK
<1>3. ASSUME NEW w \in Workers, RecordReady(w)
      PROVE  row'[i].state \in {"ready", "cancelled"}
  BY <1>3 DEF RecordReady, TypeOK
<1>4. CASE ResetRow
  <2>1. row[job[Boot].item].state \in Live
    BY <1>4 DEF ResetRow, OrderInv, BootOrdered
  <2> QED
    BY <1>4, <2>1 DEF ResetRow, Live, TypeOK
<1>5. CASE UNCHANGED row
  BY <1>5
<1>6. \/ UNCHANGED row \/ ResetRow
      \/ \E j \in Items : Register(j) \/ RecordCancelled(j)
      \/ \E r \in Requests : CommitCheckpoint(r)
      \/ \E w \in Workers : RecordReady(w)
  <2>1. \A w : CompletionStep(w) => UNCHANGED row \/ RecordReady(w)
    BY DEF CompletionStep, ProbeFinal, ProbePartial, HashPartial, ChooseFinalPath,
           RenamePartial, disk
  <2>2. \A r : CheckpointStep(r) => UNCHANGED row \/ CommitCheckpoint(r)
    BY DEF CheckpointStep, StatPartial, OpenPartial, ReceiveBody, UndoWrite, SyncPartial,
           FailCommit, PublishProgress, FailPublish, FailIO, disk
  <2>3. Crash \/ Restart \/ BootStep => UNCHANGED row \/ ResetRow
    BY DEF Crash, Restart, BootStep, VisitItem, SettlePartial, FinishBoot, disk
  <2>4. \A j : StartCancel(j) \/ RemoveCancelled(j) \/ ReportStatus(j) => UNCHANGED row
    BY DEF StartCancel, RemoveCancelled, ReportStatus, disk
  <2>5. \A j, n : ForgetCommits(j, n) \/ DropForeignFile(j, n) => UNCHANGED row
    BY DEF ForgetCommits, DropForeignFile
  <2>6. \A r, j, n : StartCheckpoint(r, j, n) => UNCHANGED row
    BY DEF StartCheckpoint, disk
  <2>7. \A r, c : StartReplay(r, c) => UNCHANGED row
    BY DEF StartReplay, disk
  <2> QED
    BY <2>1, <2>2, <2>3, <2>4, <2>5, <2>6, <2>7 DEF Next
<1> QED
  BY <1>1, <1>2, <1>3, <1>4, <1>5, <1>6

\* A ready item is never opened again, although every writer stores the whole
\* record it read before its awaits.
THEOREM ReadyStays == Spec => ReadyNeverReopened
<1> DEFINE A == \A i \in Items :
                  row[i].state = "ready" => row'[i].state \in {"ready", "cancelled"}
<1>1. TypeOK /\ StoreInvariant /\ OrderInv /\ [Next]_vars => [A]_row
  BY ReadyKept DEF vars
<1> QED
  BY <1>1, TypeCorrect, StoreIsSound, CommitsInOrder, PTL DEF Spec, ReadyNeverReopened

-----------------------------------------------------------------------------
(* Items with names of their own.  When two items share a sanitized name, or *)
(* the user keeps a file under it, a crash between rename and commit can     *)
(* make startup adopt another file or rewind the offset; what follows is     *)
(* proved for items whose names nobody else uses.                            *)

NamesApart ==
  /\ \A i, j \in Items : NameOf[i] = NameOf[j] => i = j
  /\ \A p \in ForeignPaths, i \in Items : p[1] # NameOf[i]

\* Files carry the name of the item they belong to.
PathsOwned ==
  \A p \in Paths, i \in Items :
    /\ p[1] = NameOf[i] => final[p].owner \in {i, Nobody}
    /\ final[p].owner = i => p[1] = NameOf[i]

\* So do the paths that records, cancellations and workers carry.
RowNamed(i) ==
  /\ row[i].state # "absent" => row[i].final[1] = NameOf[i]
  /\ cancel[i].step # "none" => cancel[i].snap.final[1] = NameOf[i]
JobNamed(w) ==
  /\ job[w].snap.final[1] = NameOf[job[w].item]
  /\ job[w].dest[1] = NameOf[job[w].item]

\* The only file of an item is the whole one at its registered path; a fully
\* committed item has it there, or still has its partial file.
ItemHome(i) ==
  /\ row[i].state \in Live \union {"absent", "ready"}
  /\ row[i].state \in Live => row[i].partial /\ Size[i] # 0
  /\ row[i].state = "ready" => row[i].confirmed = Size[i] /\ Delivered(i)
  /\ row[i].state \in Live /\ row[i].confirmed = Size[i] /\ ~ part[i].exists => Delivered(i)
  /\ \A p \in Paths : final[p].owner = i =>
       /\ p = row[i].final /\ Delivered(i) /\ row[i].state # "absent"
       /\ row[i].confirmed = Size[i] /\ ~ part[i].exists
  /\ acked[i] <= row[i].confirmed

\* What a worker carries still describes the item, so a completion ends at the
\* registered path, and startup never finds less than the offset.
WorkerHome(w) ==
  LET i == job[w].item IN
  /\ row[i].state # "absent"
  /\ job[w].snap.final = row[i].final /\ job[w].snap.partial
  /\ job[w].snap.confirmed <= row[i].confirmed
  /\ pc[w] = "rename" /\ part[i].exists => job[w].dest = row[i].final
  /\ pc[w] = "record" => Delivered(i) /\ job[w].dest = row[i].final
  /\ pc[w] = "adopt" => Delivered(i)
  /\ w = Boot /\ pc[w] = "probePart" => part[i].exists
  /\ pc[w] = "settle" => row[i].confirmed # Size[i]
  /\ pc[w] = "reset" => job[w].snap.confirmed = row[i].confirmed

ItemsHome == \A i \in Items : RowNamed(i) /\ (cancelAsked[i] \/ ItemHome(i))
WorkersHome ==
  \A w \in Workers : pc[w] # "idle" =>
    JobNamed(w) /\ (cancelAsked[job[w].item] \/ WorkerHome(w))
HomeInv == PathsOwned /\ ItemsHome /\ WorkersHome

\* The invariants proved so far.
Sound == TypeOK /\ StoreInvariant /\ OrderInv

\* In the empty store there are no files, records or workers.
LEMMA HomeInit == Init => HomeInv
<1> SUFFICES ASSUME Init
             PROVE  HomeInv
  OBVIOUS
<1>1. PathsOwned
  BY WorkersAssumption DEF Init, PathsOwned, NoFinal
<1>2. ItemsHome
  <2> SUFFICES ASSUME NEW i \in Items
               PROVE  RowNamed(i) /\ ItemHome(i)
    BY DEF ItemsHome
  <2>1. \A p \in Paths : final[p].owner # i
    BY WorkersAssumption DEF Init, NoFinal
  <2> QED
    BY <2>1 DEF Init, RowNamed, ItemHome, NoRow, NoCancel, Live
<1>3. WorkersHome
  BY DEF Init, WorkersHome
<1> QED
  BY <1>1, <1>2, <1>3 DEF HomeInv

\* Steps that write no record and no file of the directory.  A partial file may
\* come and go while its item is not fully committed.
LEMMA HomeFrame ==
  ASSUME Sound, HomeInv, UNCHANGED <<row, final, cancelAsked>>,
         \A i \in Items :
           /\ cancel'[i].snap = cancel[i].snap
           /\ cancel'[i].step # "none" => cancel[i].step # "none"
           /\ ~ cancelAsked[i] =>
                /\ (part'[i].exists <=> part[i].exists) \/ row[i].confirmed # Size[i]
                /\ acked'[i] = acked[i] \/ acked'[i] <= row[i].confirmed,
         \A v \in Workers :
           \/ pc'[v] = "idle"
           \/ /\ pc'[v] = pc[v] /\ job'[v].item = job[v].item
              /\ job'[v].snap = job[v].snap /\ job'[v].dest = job[v].dest
           \/ /\ job'[v].item \in Items /\ JobNamed(v)'
              /\ cancelAsked[job'[v].item] \/ WorkerHome(v)'
  PROVE  HomeInv'
<1>1. PathsOwned'
  BY DEF HomeInv, PathsOwned
<1>2. ItemsHome'
  <2> SUFFICES ASSUME NEW i \in Items
               PROVE  RowNamed(i)' /\ (cancelAsked[i] \/ ItemHome(i)')
    BY DEF ItemsHome
  <2>1. RowNamed(i)'
    BY DEF HomeInv, ItemsHome, RowNamed
  <2>2. ASSUME ~ cancelAsked[i]
        PROVE  ItemHome(i)'
    <3>1. ItemHome(i)
      BY <2>2 DEF HomeInv, ItemsHome
    <3>2. row[i].confirmed = Size[i] => (part'[i].exists <=> part[i].exists)
      BY <2>2
    <3>3. acked'[i] <= row[i].confirmed
      BY <2>2, <3>1 DEF ItemHome
    <3> QED
      BY <3>1, <3>2, <3>3 DEF ItemHome, Delivered
  <2> QED
    BY <2>1, <2>2
<1>3. WorkersHome'
  <2> SUFFICES ASSUME NEW v \in Workers, pc'[v] # "idle"
               PROVE  JobNamed(v)' /\ (cancelAsked[job'[v].item] \/ WorkerHome(v)')
    BY DEF WorkersHome
  <2>1. CASE /\ pc'[v] = pc[v] /\ job'[v].item = job[v].item
             /\ job'[v].snap = job[v].snap /\ job'[v].dest = job[v].dest
    <3>1. JobNamed(v) /\ (cancelAsked[job[v].item] \/ WorkerHome(v))
      BY <2>1 DEF HomeInv, WorkersHome
    <3>2. JobNamed(v)'
      BY <2>1, <3>1 DEF JobNamed
    <3>3. ASSUME ~ cancelAsked[job[v].item]
          PROVE  WorkerHome(v)'
      <4>1. WorkerHome(v) /\ job[v].item \in Items
        BY <3>1, <3>3, WorkerFacts DEF Sound
      <4>2. pc[v] \in Completing => row[job[v].item].confirmed = Size[job[v].item]
        BY <3>3 DEF Sound, StoreInvariant, Finishes, FinisherSound
      <4>3. pc[v] \in {"rename", "probePart"} =>
              (part'[job[v].item].exists <=> part[job[v].item].exists)
        BY <3>3, <4>1, <4>2 DEF Completing, Finalizing
      <4> QED
        BY <2>1, <4>1, <4>3 DEF WorkerHome, Delivered
    <3> QED
      BY <2>1, <3>1, <3>2, <3>3
  <2>2. CASE /\ job'[v].item \in Items /\ JobNamed(v)'
             /\ cancelAsked[job'[v].item] \/ WorkerHome(v)'
    BY <2>2
  <2> QED
    BY <2>1, <2>2
<1> QED
  BY <1>1, <1>2, <1>3 DEF HomeInv

\* What a step that concerns only item i leaves to another item.
LEMMA HomeOther ==
  ASSUME NamesApart, Sound, HomeInv, NEW i \in Items, NEW j \in Items, j # i, row'[j] = row[j],
         \A p \in Paths : p[1] # NameOf[i] => final'[p] = final[p],
         \A p \in Paths : final'[p] = final[p] \/ final'[p].owner = i,
         cancel'[j] = cancel[j], cancelAsked'[j] = cancelAsked[j],
         part'[j].exists <=> part[j].exists, acked'[j] = acked[j]
  PROVE  RowNamed(j)' /\ (cancelAsked'[j] \/ ItemHome(j)')
<1>1. RowNamed(j)' /\ RowNamed(j) /\ NameOf[i] # NameOf[j] /\ row[j].final \in Paths
  BY RowUpdates DEF HomeInv, ItemsHome, RowNamed, NamesApart, Sound, TypeOK
<1>2. ASSUME ~ cancelAsked[j]
      PROVE  ItemHome(j)'
  <2>1. ItemHome(j)
    BY <1>2 DEF HomeInv, ItemsHome
  <2>2. row[j].state # "absent" => final'[row[j].final] = final[row[j].final]
    BY <1>1 DEF RowNamed
  <2>3. Delivered(j) /\ row[j].state # "absent" => Delivered(j)'
    BY <2>2 DEF Delivered
  <2>4. \A p \in Paths : final'[p].owner = j => final[p].owner = j
    OBVIOUS
  <2> QED
    BY <2>1, <2>3, <2>4 DEF ItemHome, Live
<1> QED
  BY <1>1, <1>2

\* The same for a worker that is busy with another item.
LEMMA HomeOtherWorker ==
  ASSUME NamesApart, Sound, HomeInv, NEW i \in Items, NEW v \in Workers, job[v].item # i,
         pc[v] # "idle", pc'[v] = pc[v], job'[v] = job[v],
         row'[job[v].item] = row[job[v].item],
         \A p \in Paths : p[1] # NameOf[i] => final'[p] = final[p],
         cancelAsked'[job[v].item] = cancelAsked[job[v].item],
         part'[job[v].item].exists <=> part[job[v].item].exists
  PROVE  JobNamed(v)' /\ (cancelAsked'[job'[v].item] \/ WorkerHome(v)')
<1> DEFINE j == job[v].item
<1>1. j \in Items /\ NameOf[i] # NameOf[j] /\ row[j].final \in Paths /\ RowNamed(j)
  BY WorkerFacts, RowUpdates DEF NamesApart, Sound, TypeOK, HomeInv, ItemsHome
<1>2. JobNamed(v) /\ (cancelAsked[j] \/ WorkerHome(v))
  BY DEF HomeInv, WorkersHome
<1>3. JobNamed(v)'
  BY <1>2 DEF JobNamed
<1>4. ASSUME WorkerHome(v)
      PROVE  WorkerHome(v)'
  <2>1. row[j].state # "absent"
    BY <1>4 DEF WorkerHome
  <2>2. final'[row[j].final] = final[row[j].final]
    BY <1>1, <2>1 DEF RowNamed
  <2> QED
    BY <1>4, <2>2 DEF WorkerHome, Delivered
<1> QED
  BY <1>2, <1>3, <1>4

\* An answer raises the ghost counter of one item to what was answered.
LEMMA AnswerKeeps ==
  ASSUME TypeOK, NEW w, NEW i \in Items, NEW n \in Nat, Answer(w, i, n)
  PROVE  \A k \in Items : acked'[k] = acked[k] \/ (k = i /\ acked'[k] = n)
BY DEF TypeOK, Answer, Greater

\* A worker that returns, perhaps after an answer.
LEMMA HomeFinish ==
  ASSUME Sound, HomeInv, NEW w \in Workers, Finish(w),
         UNCHANGED <<row, final, cancel, cancelAsked>>,
         \A i \in Items : ~ cancelAsked[i] =>
           /\ (part'[i].exists <=> part[i].exists) \/ row[i].confirmed # Size[i]
           /\ acked'[i] = acked[i] \/ acked'[i] <= row[i].confirmed
  PROVE  HomeInv'
<1>1. /\ pc'[w] = "idle"
      /\ \A v \in Workers : v # w => pc'[v] = pc[v] /\ job'[v] = job[v]
  BY DEF Finish, Goto, Sound, TypeOK
<1> QED
  BY <1>1, HomeFrame

\* A worker that goes on, or begins.
LEMMA HomeMove ==
  ASSUME Sound, HomeInv, NEW w \in Workers,
         UNCHANGED <<row, final, cancel, cancelAsked>>,
         \A v \in Workers : v # w => pc'[v] = pc[v] /\ job'[v] = job[v],
         \A i \in Items : ~ cancelAsked[i] =>
           /\ (part'[i].exists <=> part[i].exists) \/ row[i].confirmed # Size[i]
           /\ acked'[i] = acked[i] \/ acked'[i] <= row[i].confirmed,
         job'[w].item \in Items, JobNamed(w)',
         cancelAsked[job'[w].item] \/ WorkerHome(w)'
  PROVE  HomeInv'
BY HomeFrame

\* Requests and startup take the record's path with them.
LEMMA HomeStart ==
  ASSUME NamesApart, Sound, HomeInv,
         \/ \E r \in Requests : \/ \E i \in Items, n \in 1 .. MaxChunk : StartCheckpoint(r, i, n)
                                \/ \E c \in commits : StartReplay(r, c)
         \/ \E i \in Items : VisitItem(i)
  PROVE  HomeInv'
<1> Boot \in Workers /\ Requests \subseteq Workers /\ Boot \notin Requests
  BY WorkersAssumption DEF Workers
<1>1. ASSUME NEW w \in Workers, NEW i \in Items, NEW l, row[i].state # "absent",
             cancelAsked[i] \/ row[i].partial,
             UNCHANGED <<row, part, final, cancel, cancelAsked, acked>>,
             pc' = [pc EXCEPT ![w] = l],
             job'[w].item = i, job'[w].snap = row[i], job'[w].dest = row[i].final,
             \A v \in Workers : v # w => job'[v] = job[v],
             l \in {"stat", "open", "probe"} \/ (l = "settle" /\ row[i].confirmed # Size[i])
      PROVE  HomeInv'
  <2>1. /\ pc'[w] = l
        /\ \A v \in Workers : v # w => pc'[v] = pc[v]
    BY <1>1 DEF Sound, TypeOK
  <2>2. row[i].final[1] = NameOf[i] /\ row[i].confirmed \in Nat
    BY <1>1 DEF HomeInv, ItemsHome, RowNamed, Sound, TypeOK, Row
  <2>3. JobNamed(w)'
    BY <1>1, <2>2 DEF JobNamed
  <2>4. cancelAsked[i] \/ WorkerHome(w)'
    BY <1>1, <2>1, <2>2 DEF WorkerHome
  <2> QED
    BY <1>1, <2>1, <2>3, <2>4, HomeMove
<1>2. ASSUME NEW r \in Requests, NEW i \in Items, NEW n \in 1 .. MaxChunk,
             StartCheckpoint(r, i, n)
      PROVE  HomeInv'
  <2>1. /\ row[i].state # "absent" /\ row[i].partial
        /\ UNCHANGED <<row, part, final, cancel, cancelAsked, acked>>
        /\ pc' = [pc EXCEPT ![r] = IF row[i].confirmed > 0 THEN "stat" ELSE "open"]
        /\ job'[r].item = i /\ job'[r].snap = row[i] /\ job'[r].dest = row[i].final
        /\ \A v \in Workers : v # r => job'[v] = job[v]
    BY <1>2 DEF StartCheckpoint, Goto, Sound, TypeOK, disk, Live
  <2> QED
    BY <1>1, <2>1
<1>3. ASSUME NEW r \in Requests, NEW c \in commits, StartReplay(r, c)
      PROVE  HomeInv'
  <2>1. c.item \in Items /\ c.end \in Nat /\ c.start \in Nat
    BY DEF Sound, TypeOK, Commit
  <2>2. row[c.item].state # "absent" /\ row[c.item].confirmed \in Nat
    <3>1. c.start < c.end /\ ItemOrdered(c.item)
      BY <2>1 DEF Sound, OrderInv, RecordsOrdered, ItemsOrdered
    <3> QED
      BY <2>1, <3>1 DEF ItemOrdered, Behind, Sound, TypeOK, Row
  <2>3. CASE row[c.item].confirmed = Size[c.item] /\ row[c.item].state # "ready"
    <3>1. /\ job' = [job EXCEPT ![r] = [NoJob EXCEPT !.item = c.item, !.snap = row[c.item],
                                                    !.dest = row[c.item].final]]
          /\ pc' = [pc EXCEPT ![r] = "probe"]
          /\ UNCHANGED <<row, part, final, cancel, cancelAsked, acked>>
      BY <1>3, <2>3 DEF StartReplay, Goto, disk
    <3>2. /\ job'[r].item = c.item /\ job'[r].snap = row[c.item]
          /\ job'[r].dest = row[c.item].final
          /\ \A v \in Workers : v # r => job'[v] = job[v]
      BY <3>1, InitialRecords DEF Sound, TypeOK, Job
    <3>3. cancelAsked[c.item] \/ row[c.item].partial
      BY <2>1, <2>2, <2>3 DEF HomeInv, ItemsHome, ItemHome
    <3> QED
      BY <1>1, <2>1, <2>2, <3>1, <3>2, <3>3
  <2>4. CASE ~ (row[c.item].confirmed = Size[c.item] /\ row[c.item].state # "ready")
    <3>1. /\ Answer(r, c.item, row[c.item].confirmed)
          /\ UNCHANGED <<row, part, final, cancel, cancelAsked, pc, job>>
      BY <1>3, <2>4 DEF StartReplay, disk
    <3>2. \A k \in Items : acked'[k] = acked[k] \/ (k = c.item /\ acked'[k] = row[k].confirmed)
      BY <2>1, <2>2, <3>1, AnswerKeeps DEF Sound
    <3>3. \A k \in Items : acked'[k] = acked[k] \/ acked'[k] <= row[k].confirmed
      BY <2>2, <3>2
    <3> QED
      BY <3>1, <3>3, HomeFrame
  <2> QED
    BY <2>3, <2>4
<1>4. ASSUME NEW i \in Items, VisitItem(i)
      PROVE  HomeInv'
  <2>1. /\ job' = [job EXCEPT ![Boot] = [NoJob EXCEPT !.item = i, !.snap = row[i],
                                                     !.dest = row[i].final]]
        /\ pc' = [pc EXCEPT ![Boot] = IF row[i].confirmed = Size[i] THEN "probe" ELSE "settle"]
        /\ UNCHANGED <<row, part, final, cancel, cancelAsked, acked>>
        /\ mode = "booting" /\ i \in todo
    BY <1>4 DEF VisitItem, Goto, disk
  <2>2. /\ job'[Boot].item = i /\ job'[Boot].snap = row[i]
        /\ job'[Boot].dest = row[i].final
        /\ \A v \in Workers : v # Boot => job'[v] = job[v]
    BY <2>1, InitialRecords DEF Sound, TypeOK, Job
  <2>3. row[i].state \in Live
    BY <2>1 DEF Sound, OrderInv, BootOrdered
  <2>4. row[i].state # "absent" /\ (cancelAsked[i] \/ row[i].partial)
    BY <2>3 DEF Live, HomeInv, ItemsHome, ItemHome
  <2> QED
    BY <1>1, <2>1, <2>2, <2>4
<1> QED
  BY <1>2, <1>3, <1>4

\* The steps of a writer touch its partial file only, while bytes are missing.
LEMMA HomeCheckpoint ==
  ASSUME NamesApart, Sound, HomeInv, NEW r \in Requests, CheckpointStep(r),
         ~ CommitCheckpoint(r)
  PROVE  HomeInv'
<1> DEFINE i == job[r].item
<1> r \in Workers /\ r # Boot /\ Boot \in Workers
  BY WorkersAssumption DEF Workers
<1>0. /\ i \in Items /\ job[r].snap.confirmed \in Nat /\ Size[i] \in Nat
      /\ row[i].confirmed \in Nat
  BY WorkerFacts DEF Sound
<1>1. pc[r] # "idle" => JobNamed(r) /\ (cancelAsked[i] \/ WorkerHome(r))
  BY DEF HomeInv, WorkersHome
<1>2. pc[r] \in Writing => row[i].confirmed # Size[i]
  BY <1>0, WriterNotPast DEF Sound
<1>3. ASSUME Finish(r), pc[r] # "idle",
             UNCHANGED <<row, final, cancel, cancelAsked>>,
             \A k \in Items : k # i \/ pc[r] \notin Writing => part'[k] = part[k],
             UNCHANGED acked \/ Answer(r, i, job[r].snap.confirmed)
      PROVE  HomeInv'
  <2>1. \A k \in Items : acked'[k] = acked[k] \/ (k = i /\ acked'[k] = job[r].snap.confirmed)
    BY <1>0, <1>3, AnswerKeeps DEF Sound
  <2>2. cancelAsked[i] \/ job[r].snap.confirmed <= row[i].confirmed
    BY <1>1, <1>3 DEF WorkerHome
  <2>3. \A k \in Items : part'[k].exists = part[k].exists \/ row[k].confirmed # Size[k]
    BY <1>2, <1>3
  <2> QED
    BY <1>3, <2>1, <2>2, <2>3, HomeFinish
<1>4. ASSUME NEW l, pc[r] # "idle",
             l \in Writing \union {"hash"}, pc' = [pc EXCEPT ![r] = l],
             UNCHANGED <<row, final, cancel, cancelAsked, acked>>,
             \A k \in Items : k # i \/ pc[r] \notin Writing => part'[k] = part[k],
             \A v \in Workers : /\ job'[v].item = job[v].item /\ job'[v].snap = job[v].snap
                                /\ job'[v].dest = job[v].dest
                                /\ v # r => job'[v] = job[v]
      PROVE  HomeInv'
  <2>1. pc'[r] = l /\ \A v \in Workers : v # r => pc'[v] = pc[v]
    BY <1>4 DEF Sound, TypeOK
  <2>2. JobNamed(r)'
    BY <1>1, <1>4 DEF JobNamed
  <2>3. l \notin {"rename", "record", "adopt", "settle", "reset"}
    BY <1>4 DEF Writing
  <2>4. cancelAsked[i] \/ WorkerHome(r)'
    BY <1>1, <1>4, <2>1, <2>3 DEF WorkerHome
  <2>5. \A k \in Items : part'[k].exists = part[k].exists \/ row[k].confirmed # Size[k]
    BY <1>2, <1>4
  <2> QED
    BY <1>0, <1>4, <2>1, <2>2, <2>4, <2>5, HomeMove
<1>5. CASE StatPartial(r)
  BY <1>3, <1>4, <1>5 DEF StatPartial, Goto, Writing, disk
<1>6. CASE OpenPartial(r)
  <2>1. /\ \A k \in Items : k # i => part'[k] = part[k]
        /\ \A v \in Workers : /\ job'[v].item = job[v].item /\ job'[v].snap = job[v].snap
                              /\ job'[v].dest = job[v].dest
                              /\ v # r => job'[v] = job[v]
    BY <1>6 DEF OpenPartial, Sound, TypeOK, Job
  <2> QED
    BY <1>4, <1>6, <2>1 DEF OpenPartial, Goto, Writing
<1>7. CASE ReceiveBody(r)
  <2>1. \A k \in Items : k # i => part'[k] = part[k]
    BY <1>7 DEF ReceiveBody, Sound, TypeOK
  <2> QED
    BY <1>4, <1>7, <2>1 DEF ReceiveBody, Goto, Writing
<1>8. CASE UndoWrite(r)
  <2>1. \A k \in Items : k # i => part'[k] = part[k]
    BY <1>8 DEF UndoWrite, Sound, TypeOK
  <2> QED
    BY <1>3, <1>8, <2>1 DEF UndoWrite, Writing
<1>9. CASE SyncPartial(r)
  <2>1. \A k \in Items : k # i => part'[k] = part[k]
    BY <1>9 DEF SyncPartial, Sound, TypeOK
  <2>2. CASE Finish(r)
    BY <1>3, <1>9, <2>1, <2>2 DEF SyncPartial, Writing
  <2>3. CASE ~ Finish(r)
    BY <1>4, <1>9, <2>1, <2>3 DEF SyncPartial, Goto, Writing
  <2> QED
    BY <2>2, <2>3
<1>10. CASE FailCommit(r)
  BY <1>4, <1>10 DEF FailCommit, Goto, Writing, disk
<1>11. CASE PublishProgress(r)
  <2>1. CASE Finish(r) /\ Answer(r, i, job[r].snap.confirmed)
    BY <1>3, <1>11, <2>1 DEF PublishProgress, disk
  <2>2. CASE Goto(r, "hash") /\ UNCHANGED <<writeLock, job, acked>>
    BY <1>4, <1>11, <2>2 DEF PublishProgress, Goto, disk
  <2> QED
    BY <1>11, <2>1, <2>2 DEF PublishProgress
<1>12. CASE FailPublish(r) \/ FailIO(r)
  BY <1>3, <1>12 DEF FailPublish, FailIO, disk
<1> QED
  BY <1>5, <1>6, <1>7, <1>8, <1>9, <1>10, <1>11, <1>12 DEF CheckpointStep

\* A commit raises the offset of an item whose bytes are in its partial file,
\* while nobody else works on that item.
LEMMA HomeCommit ==
  ASSUME NamesApart, Sound, HomeInv, NEW r \in Requests, CommitCheckpoint(r)
  PROVE  HomeInv'
<1> DEFINE i == job[r].item
           end == job[r].start + job[r].len
<1> r \in Workers /\ r # Boot /\ Boot \in Workers /\ Requests \subseteq Workers
  BY WorkersAssumption DEF Workers
<1>1. /\ i \in Items /\ job[r].start \in Nat /\ job[r].len \in Nat /\ Size[i] \in Nat
      /\ job[r].snap \in Row /\ row[i].confirmed \in Nat
  BY WorkerFacts DEF Sound
<1>2. pc[r] = "commit" /\ pc[r] \in Writing
  BY DEF CommitCheckpoint, Writing
<1>3. row' = [row EXCEPT ![i] = [job[r].snap EXCEPT !.confirmed = end, !.state = "transferring"]]
  BY DEF CommitCheckpoint
<1>4. /\ row'[i].confirmed = end /\ row'[i].state = "transferring"
      /\ row'[i].final = job[r].snap.final
      /\ row'[i].partial <=> job[r].snap.partial
      /\ \A j \in Items : j # i => row'[j] = row[j]
  BY <1>1, <1>3 DEF Sound, TypeOK, Row
<1>5. job'[r] = [job[r] EXCEPT !.snap = row'[i]]
  BY <1>1, <1>3 DEF CommitCheckpoint, Sound, TypeOK
<1>6. /\ pc'[r] = "publish" /\ job'[r].item = i /\ job'[r].snap = row'[i]
      /\ job'[r].dest = job[r].dest
      /\ \A v \in Workers : v # r => pc'[v] = pc[v] /\ job'[v] = job[v]
      /\ UNCHANGED <<part, final, cancel, cancelAsked, acked>>
  BY <1>1, <1>5 DEF CommitCheckpoint, Goto, Sound, TypeOK, Job
<1>7. \A v \in Workers : v # r /\ pc[v] # "idle" => job[v].item # i
  <2> SUFFICES ASSUME NEW v \in Workers, v # r, pc[v] # "idle"
               PROVE  job[v].item # i
    OBVIOUS
  <2>1. mode = "up" /\ v \in Requests /\ pc[v] \notin {"settle", "reset"}
    BY <1>2 DEF Sound, StoreInvariant, BootAlone, Workers
  <2>2. pc[v] \in Writing \union {"publish"} \union Completing
    BY <2>1 DEF Sound, TypeOK, PCs
  <2> QED
    BY <1>2, <2>1, <2>2, LockExcludes, WriterNotPast DEF Sound, Finishes
<1>8. JobNamed(r) /\ (cancelAsked[i] \/ (WorkerHome(r) /\ ItemHome(i) /\ WriterSound(r)
                                         /\ ItemSound(i)))
  BY <1>1, <1>2 DEF HomeInv, WorkersHome, ItemsHome, Sound, StoreInvariant
<1>9. PathsOwned'
  BY <1>6 DEF HomeInv, PathsOwned
<1>10. JobNamed(r)' /\ row'[i].final[1] = NameOf[i]
       /\ (cancel[i].step # "none" => cancel[i].snap.final[1] = NameOf[i])
  BY <1>1, <1>4, <1>6, <1>8 DEF HomeInv, ItemsHome, RowNamed, JobNamed
<1>11. ASSUME ~ cancelAsked[i], NEW k, k = i
       PROVE  ItemHome(k)' /\ WorkerHome(r)'
  <2>1. /\ WorkerHome(r) /\ ItemHome(i) /\ WriterSound(r) /\ ItemSound(i)
    BY <1>8, <1>11
  <2>2. /\ row[i] = job[r].snap /\ row[i].confirmed = job[r].start /\ job[r].len >= 1
        /\ end <= Size[i] /\ part[i].len = end /\ row[i].state \in Live
    BY <1>2, <2>1 DEF WriterSound
  <2>3. part[i].exists /\ row[i].confirmed # Size[i] /\ row[i].confirmed <= end
    BY <1>1, <2>1, <2>2 DEF ItemSound
  <2>4. \A p \in Paths : final[p].owner # i
    BY <2>1, <2>3 DEF ItemHome
  <2>5. acked[i] <= end /\ row[i].partial /\ Size[i] # 0
    BY <1>1, <2>1, <2>2, <2>3 DEF ItemHome, Sound, TypeOK
  <2>6. ItemHome(k)'
    BY <1>4, <1>6, <1>11, <2>2, <2>3, <2>4, <2>5 DEF ItemHome, Live
  <2>7. end \in Nat
    BY <1>1
  <2>8. WorkerHome(r)'
    <3> HIDE DEF i, end
    <3>1. /\ job'[r].item = i /\ row'[i].state # "absent"
          /\ job'[r].snap.final = row'[i].final
      BY <1>4, <1>6
    <3>2. job'[r].snap.partial
      BY <1>4, <1>6, <2>1 DEF WorkerHome
    <3>3. job'[r].snap.confirmed <= row'[i].confirmed
      BY <1>4, <1>6, <2>7
    <3> QED
      BY <1>6, <3>1, <3>2, <3>3 DEF WorkerHome
  <2> QED
    BY <2>6, <2>8
<1> HIDE DEF i, end
<1>12. ItemsHome'
  <2> SUFFICES ASSUME NEW k \in Items
               PROVE  RowNamed(k)' /\ (cancelAsked'[k] \/ ItemHome(k)')
    BY DEF ItemsHome
  <2>1. CASE k = i
    BY <1>6, <1>10, <1>11, <2>1 DEF RowNamed
  <2>2. CASE k # i
    BY <1>1, <1>4, <1>6, <2>2, HomeOther
  <2> QED
    BY <2>1, <2>2
<1>13. WorkersHome'
  <2> SUFFICES ASSUME NEW v \in Workers, pc'[v] # "idle"
               PROVE  JobNamed(v)' /\ (cancelAsked'[job'[v].item] \/ WorkerHome(v)')
    BY DEF WorkersHome
  <2>1. CASE v = r
    BY <1>6, <1>10, <1>11, <2>1
  <2>2. CASE v # r
    <3>1. pc[v] # "idle" /\ job[v].item # i /\ job[v].item \in Items
      BY <1>6, <1>7, <2>2, WorkerFacts DEF Sound
    <3> QED
      BY <1>1, <1>4, <1>6, <2>2, <3>1, HomeOtherWorker
  <2> QED
    BY <2>1, <2>2
<1> QED
  BY <1>9, <1>12, <1>13 DEF HomeInv

\* A new record takes a free path under its item's name.
LEMMA HomeRegister ==
  ASSUME NamesApart, Sound, HomeInv, NEW i \in Items, Register(i)
  PROVE  HomeInv'
<1>1. PICK q \in Paths :
        /\ Available(<<NameOf[i], 0, 0>>, q)
        /\ row' = [row EXCEPT ![i] =
                     [state |-> IF Size[i] = 0 THEN "ready" ELSE "pending",
                      confirmed |-> 0, partial |-> Size[i] # 0, final |-> q]]
        /\ final' = IF Size[i] = 0
                      THEN [final EXCEPT ![q] = [owner |-> i, len |-> 0, good |-> 0]]
                      ELSE final
  BY DEF Register
<1>2. /\ q[1] = NameOf[i] /\ final[q].owner = Nobody
  BY <1>1 DEF Available, Suffixed, Occupied
<1>3. /\ row'[i] = [state |-> IF Size[i] = 0 THEN "ready" ELSE "pending",
                    confirmed |-> 0, partial |-> Size[i] # 0, final |-> q]
      /\ \A j \in Items : j # i => row'[j] = row[j]
      /\ \A p \in Paths : p # q => final'[p] = final[p]
      /\ Size[i] = 0 => final'[q] = [owner |-> i, len |-> 0, good |-> 0]
      /\ Size[i] # 0 => final'[q] = final[q]
  BY <1>1 DEF Sound, TypeOK
<1>4. /\ row[i].state = "absent" /\ row[i].confirmed = 0
      /\ UNCHANGED <<part, pc, job, cancel, cancelAsked, acked>>
  BY DEF Register, Sound, OrderInv, ItemsOrdered, ItemOrdered
<1>5. \A p \in Paths : /\ p[1] # NameOf[i] => final'[p] = final[p]
                       /\ final'[p] = final[p] \/ (p = q /\ final'[p].owner = i)
  BY <1>2, <1>3
<1>6. PathsOwned'
  <2> SUFFICES ASSUME NEW p \in Paths, NEW j \in Items
               PROVE  /\ p[1] = NameOf[j] => final'[p].owner \in {j, Nobody}
                      /\ final'[p].owner = j => p[1] = NameOf[j]
    BY DEF PathsOwned
  <2> QED
    BY <1>2, <1>5 DEF HomeInv, PathsOwned, NamesApart
<1>7. RowNamed(i)'
  BY <1>2, <1>3, <1>4 DEF HomeInv, ItemsHome, RowNamed
<1>8. ASSUME ~ cancelAsked[i]
      PROVE  ItemHome(i)'
  <2>1. /\ \A p \in Paths : final[p].owner # i
        /\ acked[i] <= 0 /\ ~ part[i].exists
    BY <1>4, <1>8 DEF HomeInv, ItemsHome, ItemHome, Sound, StoreInvariant, ItemSound
  <2>2. \A p \in Paths : final'[p].owner = i => p = q /\ Size[i] = 0
    BY <1>2, <1>3, <2>1
  <2>3. CASE Size[i] = 0
    <3>1. /\ row'[i].state = "ready" /\ row'[i].confirmed = Size[i] /\ row'[i].final = q
      BY <1>3, <2>3
    <3>2. Delivered(i)'
      BY <1>3, <2>3, <3>1 DEF Delivered
    <3> QED
      BY <1>4, <2>1, <2>2, <2>3, <3>1, <3>2 DEF ItemHome, Live
  <2>4. CASE Size[i] # 0
    <3>1. row'[i].state = "pending" /\ row'[i].confirmed = 0
      BY <1>3, <2>4
    <3>2. row'[i].partial
      <4>1. row'[i] = [state |-> "pending", confirmed |-> 0, partial |-> TRUE, final |-> q]
        BY <1>3, <2>4
      <4> QED
        BY <4>1
    <3> QED
      BY <1>4, <2>1, <2>2, <2>4, <3>1, <3>2 DEF ItemHome, Live
  <2> QED
    BY <2>3, <2>4
<1>9. ItemsHome'
  <2> SUFFICES ASSUME NEW k \in Items
               PROVE  RowNamed(k)' /\ (cancelAsked'[k] \/ ItemHome(k)')
    BY DEF ItemsHome
  <2>1. CASE k = i
    BY <1>4, <1>7, <1>8, <2>1
  <2>2. CASE k # i
    BY <1>3, <1>4, <1>5, <2>2, HomeOther
  <2> QED
    BY <2>1, <2>2
<1>10. WorkersHome'
  <2> SUFFICES ASSUME NEW v \in Workers, pc[v] # "idle"
               PROVE  JobNamed(v)' /\ (cancelAsked'[job'[v].item] \/ WorkerHome(v)')
    BY <1>4 DEF WorkersHome
  <2>1. JobNamed(v) /\ (cancelAsked[job[v].item] \/ WorkerHome(v)) /\ job[v].item \in Items
    BY WorkerFacts DEF HomeInv, WorkersHome, Sound
  <2>2. CASE job[v].item = i
    BY <1>4, <2>1, <2>2 DEF WorkerHome, JobNamed
  <2>3. CASE job[v].item # i
    BY <1>3, <1>4, <1>5, <2>1, <2>3, HomeOtherWorker
  <2> QED
    BY <2>2, <2>3
<1> QED
  BY <1>6, <1>9, <1>10 DEF HomeInv

\* A file of the user is under nobody's name.
LEMMA HomeForeign ==
  ASSUME NamesApart, Sound, HomeInv, NEW q \in Paths, NEW n, DropForeignFile(q, n)
  PROVE  HomeInv'
<1>1. /\ \A i \in Items : q[1] # NameOf[i]
      /\ final'[q].owner = User
      /\ \A p \in Paths : p # q => final'[p] = final[p]
      /\ UNCHANGED <<row, part, pc, job, cancel, cancelAsked, acked>>
  BY DEF DropForeignFile, NamesApart, Sound, TypeOK
<1>2. \A i \in Items : User # i
  BY WorkersAssumption
<1>3. PathsOwned'
  BY <1>1, <1>2 DEF HomeInv, PathsOwned
<1>4. ASSUME NEW i \in Items, row[i].state # "absent"
      PROVE  final'[row[i].final] = final[row[i].final]
  <2>1. row[i].final \in Paths /\ row[i].final[1] = NameOf[i]
    BY <1>4, RowUpdates DEF Sound, TypeOK, HomeInv, ItemsHome, RowNamed
  <2> QED
    BY <1>1, <2>1
<1>5. ItemsHome'
  <2> SUFFICES ASSUME NEW i \in Items
               PROVE  RowNamed(i)' /\ (cancelAsked[i] \/ ItemHome(i)')
    BY <1>1 DEF ItemsHome
  <2>1. RowNamed(i)'
    BY <1>1 DEF HomeInv, ItemsHome, RowNamed
  <2>2. ASSUME ItemHome(i)
        PROVE  ItemHome(i)'
    <3>1. \A p \in Paths : final'[p].owner = i => final[p].owner = i
      BY <1>1, <1>2
    <3>2. row[i].state # "absent" => (Delivered(i) <=> Delivered(i)')
      BY <1>1, <1>4 DEF Delivered
    <3> QED
      BY <1>1, <2>2, <3>1, <3>2 DEF ItemHome, Live
  <2> QED
    BY <2>1, <2>2 DEF HomeInv, ItemsHome
<1>6. WorkersHome'
  <2> SUFFICES ASSUME NEW v \in Workers, pc[v] # "idle"
               PROVE  JobNamed(v)' /\ (cancelAsked[job[v].item] \/ WorkerHome(v)')
    BY <1>1 DEF WorkersHome
  <2>1. JobNamed(v) /\ (cancelAsked[job[v].item] \/ WorkerHome(v)) /\ job[v].item \in Items
    BY WorkerFacts DEF HomeInv, WorkersHome, Sound
  <2>2. JobNamed(v)'
    BY <1>1, <2>1 DEF JobNamed
  <2>3. ASSUME WorkerHome(v)
        PROVE  WorkerHome(v)'
    <3>1. final'[row[job[v].item].final] = final[row[job[v].item].final]
      BY <1>4, <2>1, <2>3 DEF WorkerHome
    <3> QED
      BY <1>1, <2>3, <3>1 DEF WorkerHome, Delivered
  <2> QED
    BY <2>1, <2>2, <2>3
<1> QED
  BY <1>3, <1>5, <1>6 DEF HomeInv

\* The rename puts the whole file at the registered path: while the partial file
\* is there nothing is at that path.
LEMMA HomeRename ==
  ASSUME NamesApart, Sound, HomeInv, NEW w \in Workers, RenamePartial(w),
         part[job[w].item].exists
  PROVE  HomeInv'
<1> DEFINE i == job[w].item
           d == job[w].dest
<1> Boot \in Workers /\ Requests \subseteq Workers
  BY DEF Workers
<1>1. i \in Items /\ d \in Paths
  BY WorkerFacts DEF Sound, Job
<1>2. /\ pc[w] = "rename" /\ Finishes(w)
      /\ final'[d] = [owner |-> i, len |-> part[i].len, good |-> part[i].good]
      /\ \A p \in Paths : p # d => final'[p] = final[p]
      /\ part'[i] = Gone
      /\ \A j \in Items : j # i => part'[j] = part[j]
      /\ pc'[w] = "record"
      /\ \A v \in Workers : v # w => pc'[v] = pc[v]
      /\ UNCHANGED <<row, job, cancel, cancelAsked, acked>>
  BY <1>1 DEF RenamePartial, Finishes, Completing, Finalizing, Goto, Sound, TypeOK
<1>3. JobNamed(w) /\ d[1] = NameOf[i]
  BY <1>2 DEF HomeInv, WorkersHome, JobNamed
<1>4. ASSUME ~ cancelAsked[i]
      PROVE  /\ d = row[i].final /\ ItemHome(i)
             /\ final'[d] = [owner |-> i, len |-> Size[i], good |-> Size[i]]
             /\ \A p \in Paths : final[p].owner # i
             /\ row[i].confirmed = Size[i]
  BY <1>1, <1>2, <1>4 DEF HomeInv, WorkersHome, WorkerHome, ItemsHome, ItemHome, Sound,
     StoreInvariant, FinisherSound, ItemSound
<1> HIDE DEF i, d
<1>5. PathsOwned'
  <2> SUFFICES ASSUME NEW p \in Paths, NEW j \in Items
               PROVE  /\ p[1] = NameOf[j] => final'[p].owner \in {j, Nobody}
                      /\ final'[p].owner = j => p[1] = NameOf[j]
    BY DEF PathsOwned
  <2>1. final'[d].owner = i
    BY <1>2
  <2> QED
    BY <1>1, <1>2, <1>3, <2>1 DEF HomeInv, PathsOwned, NamesApart
<1>6. \A p \in Paths : /\ p[1] # NameOf[i] => final'[p] = final[p]
                       /\ final'[p] = final[p] \/ final'[p].owner = i
  BY <1>2, <1>3
<1>7. ItemsHome'
  <2> SUFFICES ASSUME NEW k \in Items
               PROVE  RowNamed(k)' /\ (cancelAsked'[k] \/ ItemHome(k)')
    BY DEF ItemsHome
  <2>1. CASE k = i
    <3>1. RowNamed(k)'
      BY <1>2 DEF HomeInv, ItemsHome, RowNamed
    <3>2. ASSUME ~ cancelAsked[k]
          PROVE  ItemHome(k)'
      <4>1. Delivered(k)'
        BY <1>2, <1>4, <2>1, <3>2 DEF Delivered
      <4>2. \A p \in Paths : final'[p].owner = k => p = row[k].final
        BY <1>2, <1>4, <2>1, <3>2
      <4>3. ~ part'[k].exists /\ row'[k] = row[k] /\ row[k].state # "absent"
        BY <1>2, <1>4, <2>1, <3>2 DEF Gone, HomeInv, WorkersHome, WorkerHome, i
      <4> QED
        BY <1>2, <1>4, <2>1, <3>2, <4>1, <4>2, <4>3 DEF ItemHome, Live
    <3> QED
      BY <1>2, <3>1, <3>2
  <2>2. CASE k # i
    BY <1>1, <1>2, <1>6, <2>2, HomeOther
  <2> QED
    BY <2>1, <2>2
<1>8. WorkersHome'
  <2> SUFFICES ASSUME NEW v \in Workers, pc'[v] # "idle"
               PROVE  JobNamed(v)' /\ (cancelAsked'[job'[v].item] \/ WorkerHome(v)')
    BY DEF WorkersHome
  <2>1. pc[v] # "idle" /\ job[v].item \in Items
    BY <1>2, WorkerFacts DEF Sound
  <2>2. JobNamed(v) /\ (cancelAsked[job[v].item] \/ WorkerHome(v))
    BY <2>1 DEF HomeInv, WorkersHome
  <2>3. JobNamed(v)'
    BY <1>2, <2>2 DEF JobNamed
  <2>4. CASE job[v].item = i
    <3>1. ASSUME ~ cancelAsked[i]
          PROVE  WorkerHome(v)'
      <4>1. /\ Delivered(i) \/ TRUE
            /\ final'[row[i].final] = [owner |-> i, len |-> Size[i], good |-> Size[i]]
            /\ ~ part'[i].exists /\ d = row[i].final
        BY <1>2, <1>4, <3>1 DEF Gone
      <4>2. WorkerHome(v)
        BY <2>2, <2>4, <3>1
      <4>3. ~ (v = Boot /\ pc'[v] = "probePart")
        <5>1. v = Boot => w = Boot
          BY <1>2, <2>1 DEF Sound, StoreInvariant, BootAlone, Workers
        <5> QED
          BY <1>2, <5>1
      <4>4. pc'[v] = pc[v] \/ (v = w /\ pc'[v] = "record")
        BY <1>2
      <4> QED
        BY <1>2, <2>4, <4>1, <4>2, <4>3, <4>4 DEF WorkerHome, Delivered, d
    <3> QED
      BY <1>2, <2>3, <2>4, <3>1
  <2>5. CASE job[v].item # i
    <3>1. v # w /\ pc'[v] = pc[v]
      BY <1>2, <2>5 DEF i
    <3> QED
      BY <1>1, <1>2, <1>6, <2>1, <2>5, <3>1, HomeOtherWorker
  <2> QED
    BY <2>4, <2>5
<1> QED
  BY <1>5, <1>7, <1>8 DEF HomeInv

\* The record becomes ready only when the file is at the path it will name.
LEMMA HomeReady ==
  ASSUME NamesApart, Sound, HomeInv, NEW w \in Workers, RecordReady(w)
  PROVE  HomeInv'
<1> DEFINE i == job[w].item
<1>1. i \in Items /\ Size[i] \in Nat
  BY WorkerFacts DEF Sound
<1>2. /\ pc[w] \in {"record", "adopt"} /\ Finishes(w) /\ pc[w] # "idle"
      /\ row'[i] = [state |-> "ready", confirmed |-> Size[i], partial |-> FALSE,
                    final |-> IF pc[w] = "adopt" THEN job[w].snap.final ELSE job[w].dest]
      /\ \A j \in Items : j # i => row'[j] = row[j]
      /\ pc'[w] = "idle"
      /\ \A v \in Workers : v # w => pc'[v] = pc[v] /\ job'[v] = job[v]
      /\ UNCHANGED <<part, final, cancel, cancelAsked>>
  BY <1>1 DEF RecordReady, Finishes, Completing, Finalizing, Finish, Goto, Sound, TypeOK
<1>3. \A k \in Items : acked'[k] = acked[k] \/ (k = i /\ acked'[k] = Size[i])
  BY <1>1, AnswerKeeps DEF RecordReady, Sound
<1>4. JobNamed(w) /\ (cancelAsked[i] \/ WorkerHome(w))
  BY <1>2 DEF HomeInv, WorkersHome
<1>5. ASSUME ~ cancelAsked[i]
      PROVE  /\ ItemHome(i) /\ Delivered(i) /\ row[i].confirmed = Size[i]
             /\ row'[i].final = row[i].final
  BY <1>1, <1>2, <1>4, <1>5 DEF HomeInv, ItemsHome, WorkerHome, Sound, StoreInvariant, FinisherSound
<1>6. row'[i].final[1] = NameOf[i] /\ row'[i].state = "ready" /\ row'[i].confirmed = Size[i]
  BY <1>2, <1>4 DEF JobNamed
<1> HIDE DEF i
<1>7. PathsOwned'
  BY <1>2 DEF HomeInv, PathsOwned
<1>8. ItemsHome'
  <2> SUFFICES ASSUME NEW k \in Items
               PROVE  RowNamed(k)' /\ (cancelAsked'[k] \/ ItemHome(k)')
    BY DEF ItemsHome
  <2>1. CASE k = i
    <3>1. RowNamed(k)'
      BY <1>2, <1>6, <2>1 DEF HomeInv, ItemsHome, RowNamed
    <3>2. ASSUME ~ cancelAsked[k]
          PROVE  ItemHome(k)'
      <4>1. Delivered(k)'
        BY <1>2, <1>5, <2>1, <3>2 DEF Delivered
      <4>2. acked'[k] <= Size[k]
        BY <1>1, <1>3, <1>5, <2>1, <3>2 DEF ItemHome
      <4> QED
        BY <1>2, <1>5, <1>6, <2>1, <3>2, <4>1, <4>2 DEF ItemHome, Live
    <3> QED
      BY <1>2, <3>1, <3>2
  <2>2. CASE k # i
    BY <1>1, <1>2, <1>3, <2>2, HomeOther
  <2> QED
    BY <2>1, <2>2
<1>9. WorkersHome'
  <2> SUFFICES ASSUME NEW v \in Workers, pc'[v] # "idle"
               PROVE  JobNamed(v)' /\ (cancelAsked'[job'[v].item] \/ WorkerHome(v)')
    BY DEF WorkersHome
  <2>1. v # w /\ pc[v] # "idle" /\ pc'[v] = pc[v] /\ job'[v] = job[v] /\ job[v].item \in Items
    BY <1>2, WorkerFacts DEF Sound
  <2>2. JobNamed(v) /\ (cancelAsked[job[v].item] \/ WorkerHome(v))
    BY <2>1 DEF HomeInv, WorkersHome
  <2>3. JobNamed(v)'
    BY <2>1, <2>2 DEF JobNamed
  <2>4. CASE job[v].item = i
    <3>1. ASSUME ~ cancelAsked[i]
          PROVE  WorkerHome(v)'
      <4>1. WorkerHome(v) /\ row'[i].final = row[i].final /\ row'[i].confirmed = row[i].confirmed
        BY <1>5, <1>6, <2>2, <2>4, <3>1
      <4> QED
        BY <1>2, <1>6, <2>1, <2>4, <4>1 DEF WorkerHome, Delivered
    <3> QED
      BY <1>2, <2>1, <2>3, <2>4, <3>1
  <2>5. CASE job[v].item # i
    BY <1>1, <1>2, <2>1, <2>5, HomeOtherWorker
  <2> QED
    BY <2>4, <2>5
<1> QED
  BY <1>7, <1>8, <1>9 DEF HomeInv

\* The other steps of a completion look at the files and choose a path.
LEMMA HomeCompletion ==
  ASSUME NamesApart, Sound, HomeInv, NEW w \in Workers, CompletionStep(w)
  PROVE  HomeInv'
<1> DEFINE i == job[w].item
<1> Boot \in Workers /\ Requests \subseteq Workers /\ Boot \notin Requests
  BY WorkersAssumption DEF Workers
<1>0. /\ i \in Items /\ job[w].snap.confirmed \in Nat /\ row[i].confirmed \in Nat
      /\ job[w].snap.final \in Paths
  BY WorkerFacts, RowUpdates DEF Sound
<1>1. pc[w] # "idle" => JobNamed(w) /\ (cancelAsked[i] \/ (WorkerHome(w) /\ ItemHome(i)))
  BY <1>0 DEF HomeInv, WorkersHome, ItemsHome
<1>2. ASSUME Finish(w), pc[w] # "idle",
             UNCHANGED <<row, part, final, cancel, cancelAsked>>,
             UNCHANGED acked \/ Answer(w, i, job[w].snap.confirmed)
      PROVE  HomeInv'
  <2>1. \A k \in Items : acked'[k] = acked[k] \/ (k = i /\ acked'[k] = job[w].snap.confirmed)
    BY <1>0, <1>2, AnswerKeeps DEF Sound
  <2>2. cancelAsked[i] \/ job[w].snap.confirmed <= row[i].confirmed
    BY <1>1, <1>2 DEF WorkerHome
  <2> QED
    BY <1>2, <2>1, <2>2, HomeFinish
<1>3. ASSUME NEW l, pc[w] # "idle", pc' = [pc EXCEPT ![w] = l],
             UNCHANGED <<row, part, final, cancel, cancelAsked, acked, job>>,
             cancelAsked[i] \/ WorkerHome(w)'
      PROVE  HomeInv'
  <2>1. \A v \in Workers : v # w => pc'[v] = pc[v]
    BY <1>3 DEF Sound, TypeOK
  <2>2. JobNamed(w)'
    BY <1>1, <1>3 DEF JobNamed
  <2> QED
    BY <1>0, <1>3, <2>1, <2>2, HomeMove
<1>4. pc[w] \in Completing /\ ~ cancelAsked[i] =>
        /\ row[i].confirmed = Size[i] /\ ItemSound(i)
        /\ w = Boot => row[i].state \in Live
  <2>1. w = Boot /\ pc[w] \in Completing => row[i].state \in Live
    BY StepNames DEF Sound, OrderInv, BootOrdered
  <2> QED
    BY <1>0, <2>1 DEF Sound, StoreInvariant, Finishes, FinisherSound
<1>5. final[job[w].snap.final].owner \in {i, Nobody} \/ pc[w] = "idle"
  BY <1>0, <1>1 DEF JobNamed, HomeInv, PathsOwned
<1>6. CASE ProbeFinal(w)
  <2> DEFINE found == final[job[w].snap.final]
             l == IF found.owner # Nobody /\ found.len = Size[i] THEN "adopt" ELSE "probePart"
  <2>1. /\ pc[w] = "probe" /\ pc[w] \in Completing /\ pc' = [pc EXCEPT ![w] = l]
        /\ UNCHANGED <<row, part, final, cancel, cancelAsked, acked, job>>
    BY <1>6 DEF ProbeFinal, Goto, Completing, disk
  <2>2. pc'[w] = l
    BY <2>1 DEF Sound, TypeOK
  <2>3. ASSUME ~ cancelAsked[i]
        PROVE  WorkerHome(w)'
    <3>1. WorkerHome(w) /\ ItemHome(i) /\ job[w].snap.final = row[i].final
      BY <1>1, <2>1, <2>3 DEF WorkerHome
    <3>2. CASE found.owner # Nobody /\ found.len = Size[i]
      <4>1. found.owner = i
        BY <1>5, <2>1, <3>2
      <4>2. Delivered(i) /\ pc'[w] = "adopt"
        BY <1>0, <2>2, <3>1, <3>2, <4>1 DEF ItemHome
      <4> QED
        BY <2>1, <3>1, <4>2 DEF WorkerHome, Delivered
    <3>3. CASE ~ (found.owner # Nobody /\ found.len = Size[i])
      <4>1. ~ Delivered(i)
        BY <1>0, <3>1, <3>3, WorkersAssumption DEF Delivered
      <4>2. w = Boot => part[i].exists
        BY <1>4, <2>1, <2>3, <3>1, <4>1 DEF ItemHome
      <4>3. pc'[w] = "probePart"
        BY <2>2, <3>3
      <4> QED
        BY <2>1, <3>1, <4>2, <4>3 DEF WorkerHome
    <3> QED
      BY <3>2, <3>3
  <2> QED
    BY <1>3, <2>1, <2>3
<1>7. CASE ProbePartial(w)
  <2>1. pc[w] = "probePart" /\ pc[w] \in Completing
    BY <1>7 DEF ProbePartial, Completing
  <2>2. CASE Goto(w, "hash") /\ UNCHANGED <<writeLock, job, acked>>
    <3>1. /\ UNCHANGED <<row, part, final, cancel, cancelAsked, acked, job>>
          /\ pc' = [pc EXCEPT ![w] = "hash"] /\ pc'[w] = "hash"
      BY <1>7, <2>2 DEF ProbePartial, Goto, disk, Sound, TypeOK
    <3>2. ASSUME WorkerHome(w)
          PROVE  WorkerHome(w)'
      BY <3>1, <3>2 DEF WorkerHome
    <3> QED
      BY <1>1, <1>3, <2>1, <3>1, <3>2
  <2>3. CASE NothingRecovered(w) /\ ~ (job[w].snap.partial /\ part[i].exists /\ part[i].len = Size[i])
    <3>1. CASE w = Boot
      <4>1. /\ UNCHANGED <<row, part, final, cancel, cancelAsked, acked, job>>
            /\ pc' = [pc EXCEPT ![w] = "settle"]
        BY <1>7, <2>3, <3>1 DEF ProbePartial, NothingRecovered, Goto, disk
      <4>2. cancelAsked[i]
        <5> SUFFICES ASSUME ~ cancelAsked[i]
                     PROVE  FALSE
          OBVIOUS
        <5>1. WorkerHome(w) /\ row[i].confirmed = Size[i] /\ ItemSound(i)
          BY <1>1, <1>4, <2>1
        <5>2. job[w].snap.partial /\ part[i].exists
          BY <2>1, <3>1, <5>1 DEF WorkerHome
        <5> QED
          BY <2>3, <5>1, <5>2 DEF ItemSound
      <4> QED
        BY <1>3, <2>1, <4>1, <4>2
    <3>2. CASE w # Boot
      BY <1>2, <1>7, <2>1, <2>3, <3>2 DEF ProbePartial, NothingRecovered, disk
    <3> QED
      BY <3>1, <3>2
  <2> QED
    BY <1>7, <2>2, <2>3 DEF ProbePartial
<1>8. CASE HashPartial(w)
  <2>1. CASE Finish(w)
    BY <1>2, <1>8, <2>1 DEF HashPartial, disk
  <2>2. CASE Goto(w, "choose") /\ UNCHANGED <<writeLock, job>>
    <3>1. /\ UNCHANGED <<row, part, final, cancel, cancelAsked, acked, job>>
          /\ pc[w] = "hash" /\ pc' = [pc EXCEPT ![w] = "choose"] /\ pc'[w] = "choose"
      BY <1>8, <2>2 DEF HashPartial, Goto, disk, Sound, TypeOK
    <3>2. ASSUME WorkerHome(w)
          PROVE  WorkerHome(w)'
      BY <3>1, <3>2 DEF WorkerHome
    <3> QED
      BY <1>1, <1>3, <3>1, <3>2
  <2> QED
    BY <1>8, <2>1, <2>2 DEF HashPartial
<1>9. CASE ChooseFinalPath(w)
  <2>1. CASE Finish(w)
    BY <1>2, <1>9, <2>1 DEF ChooseFinalPath, disk
  <2>2. ASSUME NEW p \in Paths,
               IF Occupied(job[w].snap.final) THEN Available(job[w].snap.final, p)
                                              ELSE p = job[w].snap.final,
               job' = [job EXCEPT ![w].dest = p], Goto(w, "rename"), UNCHANGED writeLock
        PROVE  HomeInv'
    <3>1. /\ pc[w] = "choose" /\ pc'[w] = "rename"
          /\ \A v \in Workers : v # w => pc'[v] = pc[v] /\ job'[v] = job[v]
          /\ UNCHANGED <<row, part, final, cancel, cancelAsked, acked>>
          /\ job'[w].item = i /\ job'[w].snap = job[w].snap /\ job'[w].dest = p
      BY <1>9, <2>2 DEF ChooseFinalPath, Goto, disk, Sound, TypeOK, Job
    <3>2. p[1] = job[w].snap.final[1]
      BY <2>2 DEF Available, Suffixed
    <3>3. JobNamed(w)'
      BY <1>1, <3>1, <3>2 DEF JobNamed
    <3>4. ASSUME ~ cancelAsked[i]
          PROVE  WorkerHome(w)'
      <4>1. WorkerHome(w) /\ ItemHome(i) /\ job[w].snap.final = row[i].final
        BY <1>1, <3>1, <3>4 DEF WorkerHome
      <4>2. ASSUME part[i].exists
            PROVE  p = row[i].final
        <5>1. final[row[i].final].owner # i
          BY <1>0, <4>1, <4>2 DEF ItemHome
        <5>2. ~ Occupied(job[w].snap.final)
          BY <1>5, <3>1, <4>1, <5>1 DEF Occupied
        <5> QED
          BY <2>2, <4>1, <5>2
      <4> QED
        BY <3>1, <4>1, <4>2 DEF WorkerHome
    <3> QED
      BY <1>0, <3>1, <3>3, <3>4, HomeMove
  <2> QED
    BY <1>9, <2>1, <2>2 DEF ChooseFinalPath
<1>10. CASE RenamePartial(w)
  <2>1. CASE part[i].exists
    BY <1>10, <2>1, HomeRename
  <2>2. CASE ~ part[i].exists
    BY <1>2, <1>10, <2>2 DEF RenamePartial
  <2> QED
    BY <2>1, <2>2
<1> QED
  BY <1>6, <1>7, <1>8, <1>9, <1>10, HomeReady DEF CompletionStep

\* A cancellation ends what is said of its item, and keeps its path.
LEMMA HomeCancel ==
  ASSUME NamesApart, Sound, HomeInv, NEW i \in Items,
         StartCancel(i) \/ RemoveCancelled(i) \/ RecordCancelled(i)
  PROVE  HomeInv'
<1>1. CASE StartCancel(i)
  <2>1. /\ row[i].state # "absent" /\ cancel'[i].snap = row[i] /\ cancelAsked'[i]
        /\ \A j \in Items : j # i => cancel'[j] = cancel[j] /\ cancelAsked'[j] = cancelAsked[j]
        /\ \A j \in Items : cancelAsked[j] => cancelAsked'[j]
        /\ UNCHANGED <<row, part, final, pc, job, acked>>
    BY <1>1 DEF StartCancel, disk, Sound, TypeOK
  <2>2. PathsOwned'
    BY <2>1 DEF HomeInv, PathsOwned
  <2>3. ItemsHome'
    <3> SUFFICES ASSUME NEW k \in Items
                 PROVE  RowNamed(k)' /\ (cancelAsked'[k] \/ ItemHome(k)')
      BY DEF ItemsHome
    <3>1. CASE k = i
      BY <2>1, <3>1 DEF HomeInv, ItemsHome, RowNamed
    <3>2. CASE k # i
      BY <2>1, <3>2 DEF HomeInv, ItemsHome, RowNamed, ItemHome, Delivered
    <3> QED
      BY <3>1, <3>2
  <2>4. WorkersHome'
    <3> SUFFICES ASSUME NEW v \in Workers, pc[v] # "idle"
                 PROVE  JobNamed(v)' /\ (cancelAsked'[job[v].item] \/ WorkerHome(v)')
      BY <2>1 DEF WorkersHome
    <3>1. JobNamed(v) /\ (cancelAsked[job[v].item] \/ WorkerHome(v)) /\ job[v].item \in Items
      BY WorkerFacts DEF HomeInv, WorkersHome, Sound
    <3> QED
      BY <2>1, <3>1 DEF JobNamed, WorkerHome, Delivered
  <2> QED
    BY <2>2, <2>3, <2>4 DEF HomeInv
<1>2. CASE RemoveCancelled(i)
  <2>1. cancelAsked[i]
    BY <1>2 DEF RemoveCancelled, Sound, StoreInvariant, CancelKnown
  <2>2. \A k \in Items : /\ cancel'[k].snap = cancel[k].snap
                         /\ cancel'[k].step # "none" => cancel[k].step # "none"
                         /\ k # i => part'[k] = part[k]
    BY <1>2 DEF RemoveCancelled, Sound, TypeOK, Cancel
  <2>3. \A v \in Workers : /\ job'[v].item = job[v].item /\ job'[v].snap = job[v].snap
                           /\ job'[v].dest = job[v].dest
    BY <1>2 DEF RemoveCancelled, Sound, TypeOK, Job
  <2>4. UNCHANGED <<row, final, pc, cancelAsked, acked>>
    BY <1>2 DEF RemoveCancelled
  <2> QED
    BY <2>1, <2>2, <2>3, <2>4, HomeFrame
<1>3. CASE RecordCancelled(i)
  <2>1. /\ cancel[i].step # "none" /\ cancelAsked[i]
        /\ row'[i].final = cancel[i].snap.final /\ cancel'[i].step = "none"
        /\ \A j \in Items : j # i => row'[j] = row[j] /\ cancel'[j] = cancel[j]
        /\ UNCHANGED <<part, final, pc, job, cancelAsked, acked>>
    BY <1>3 DEF RecordCancelled, Sound, TypeOK, Cancel, Row, NoCancel, StoreInvariant, CancelKnown
  <2>2. PathsOwned'
    BY <2>1 DEF HomeInv, PathsOwned
  <2>3. ItemsHome'
    <3> SUFFICES ASSUME NEW k \in Items
                 PROVE  RowNamed(k)' /\ (cancelAsked'[k] \/ ItemHome(k)')
      BY DEF ItemsHome
    <3>1. CASE k = i
      BY <2>1, <3>1 DEF HomeInv, ItemsHome, RowNamed
    <3>2. CASE k # i
      BY <2>1, <3>2, HomeOther
    <3> QED
      BY <3>1, <3>2
  <2>4. WorkersHome'
    <3> SUFFICES ASSUME NEW v \in Workers, pc[v] # "idle"
                 PROVE  JobNamed(v)' /\ (cancelAsked'[job'[v].item] \/ WorkerHome(v)')
      BY <2>1 DEF WorkersHome
    <3>1. JobNamed(v) /\ (cancelAsked[job[v].item] \/ WorkerHome(v)) /\ job[v].item \in Items
      BY WorkerFacts DEF HomeInv, WorkersHome, Sound
    <3>2. CASE job[v].item = i
      BY <2>1, <3>1, <3>2 DEF JobNamed
    <3>3. CASE job[v].item # i
      BY <2>1, <3>1, <3>3, HomeOtherWorker
    <3> QED
      BY <3>2, <3>3
  <2> QED
    BY <2>2, <2>3, <2>4 DEF HomeInv
<1> QED
  BY <1>1, <1>2, <1>3

\* Startup finds at least the recorded bytes and records the offset it found.
LEMMA HomeSettle ==
  ASSUME NamesApart, Sound, HomeInv, SettlePartial
  PROVE  HomeInv'
<1> DEFINE i == job[Boot].item
           offset == job[Boot].snap.confirmed
<1> Boot \in Workers
  BY DEF Workers
<1>1. /\ i \in Items /\ offset \in Nat /\ row[i].confirmed \in Nat /\ part[i] \in File
      /\ job[Boot].snap \in Row
  BY WorkerFacts DEF Sound
<1>2. /\ pc[Boot] = "settle" /\ pc'[Boot] = "reset"
      /\ \A v \in Workers : v # Boot => pc'[v] = pc[v] /\ job'[v] = job[v]
      /\ \A k \in Items : k # i => part'[k] = part[k]
      /\ UNCHANGED <<row, final, cancel, cancelAsked, acked>>
  BY DEF SettlePartial, Goto, Sound, TypeOK
<1>3. JobNamed(Boot) /\ (cancelAsked[i] \/ (WorkerHome(Boot) /\ ItemSound(i) /\ offset = row[i].confirmed))
  BY <1>1, <1>2 DEF HomeInv, WorkersHome, Sound, StoreInvariant, BootSound
<1>4. part'[i].exists <=> part[i].exists
  BY <1>1 DEF SettlePartial, Truncated, Sound, TypeOK
<1>5. CASE part[i].len > offset
  <2>1. UNCHANGED job
    BY <1>5 DEF SettlePartial
  <2>2. JobNamed(Boot)'
    BY <1>3, <2>1 DEF JobNamed
  <2>3. cancelAsked[i] \/ WorkerHome(Boot)'
    BY <1>2, <1>3, <2>1 DEF WorkerHome
  <2> QED
    BY <1>1, <1>2, <1>4, <2>1, <2>2, <2>3, HomeMove
<1>6. CASE ~ (part[i].len > offset)
  <2>1. job' = [job EXCEPT ![Boot].snap.confirmed = part[i].len]
    BY <1>6 DEF SettlePartial
  <2>2. job'[Boot] = [job[Boot] EXCEPT !.snap = [job[Boot].snap EXCEPT !.confirmed = part[i].len]]
    BY <2>1 DEF Sound, TypeOK
  <2>3. /\ job'[Boot].item = i /\ job'[Boot].dest = job[Boot].dest
        /\ job'[Boot].snap = [job[Boot].snap EXCEPT !.confirmed = part[i].len]
    BY <2>2, WorkerFacts DEF Job, Sound
  <2>4. /\ job'[Boot].snap.confirmed = part[i].len
        /\ job'[Boot].snap.final = job[Boot].snap.final
        /\ job'[Boot].snap.partial <=> job[Boot].snap.partial
    BY <1>1, <2>3 DEF Row
  <2>5. JobNamed(Boot)'
    BY <1>3, <2>3, <2>4 DEF JobNamed
  <2>6. ASSUME ~ cancelAsked[i]
        PROVE  WorkerHome(Boot)'
    <3>1. /\ WorkerHome(Boot) /\ ItemSound(i) /\ offset = row[i].confirmed
          /\ row[i].confirmed # Size[i]
      BY <1>2, <1>3, <2>6 DEF WorkerHome
    <3>2. part[i].good >= row[i].confirmed /\ part[i].good <= part[i].len
      BY <1>1, <3>1 DEF ItemSound, Sound, StoreInvariant, FilesSound
    <3>3. part[i].len = row[i].confirmed
      BY <1>1, <1>6, <3>1, <3>2 DEF File
    <3> QED
      BY <1>1, <1>2, <2>3, <2>4, <3>1, <3>3 DEF WorkerHome
  <2> QED
    BY <1>1, <1>2, <1>4, <2>3, <2>5, <2>6, HomeMove
<1> QED
  BY <1>5, <1>6

\* The settled record keeps path and offset of an item nobody cancelled.
LEMMA HomeReset ==
  ASSUME NamesApart, Sound, HomeInv, ResetRow
  PROVE  HomeInv'
<1> DEFINE i == job[Boot].item
           offset == job[Boot].snap.confirmed
           settled == [job[Boot].snap EXCEPT
                         !.state = IF offset > 0 THEN "transferring" ELSE "pending"]
<1> Boot \in Workers
  BY DEF Workers
<1>1. i \in Items /\ row[i].confirmed \in Nat /\ job[Boot].snap \in Row
  BY WorkerFacts DEF Sound
<1>2. /\ settled.confirmed = offset /\ settled.state \in Live
      /\ settled.final = job[Boot].snap.final
      /\ settled.partial <=> job[Boot].snap.partial
  BY <1>1 DEF Row, Live
<1>3. /\ pc[Boot] = "reset" /\ row'[i] = settled
      /\ \A k \in Items : k # i => row'[k] = row[k]
      /\ UNCHANGED <<part, final, cancel, cancelAsked, acked>>
  BY <1>1 DEF ResetRow, Sound, TypeOK
<1>4. /\ \A v \in Workers : v # Boot => pc'[v] = pc[v]
      /\ \/ pc'[Boot] = "probe" /\ job'[Boot].item = i /\ job'[Boot].snap = settled
            /\ job'[Boot].dest = job[Boot].dest
         \/ pc'[Boot] = "idle"
  BY DEF ResetRow, Goto, Finish, Sound, TypeOK, Job
<1> HIDE DEF settled
<1>5. \A v \in Workers : v # Boot => pc'[v] = "idle"
  BY <1>3, <1>4 DEF Sound, StoreInvariant, BootAlone, Workers
<1>6. JobNamed(Boot) /\ (cancelAsked[i] \/ (WorkerHome(Boot) /\ ItemHome(i)))
  BY <1>1, <1>3 DEF HomeInv, WorkersHome, ItemsHome
<1>7. row[i].state \in Live
  BY <1>3 DEF Sound, OrderInv, BootOrdered
<1>8. ASSUME ~ cancelAsked[i]
      PROVE  /\ row'[i].final = row[i].final /\ row'[i].confirmed = row[i].confirmed
             /\ row'[i].partial /\ row'[i].state \in Live /\ ItemHome(i)
  BY <1>2, <1>3, <1>6, <1>8 DEF WorkerHome
<1>9. row'[i].final[1] = NameOf[i] /\ row'[i].state # "absent"
  BY <1>2, <1>3, <1>6 DEF JobNamed, Live
<1>10. PathsOwned'
  BY <1>3 DEF HomeInv, PathsOwned
<1>11. WorkersHome'
  <2> SUFFICES ASSUME pc'[Boot] = "probe"
               PROVE  JobNamed(Boot)' /\ (cancelAsked'[job'[Boot].item] \/ WorkerHome(Boot)')
    BY <1>4, <1>5 DEF WorkersHome
  <2>1. job'[Boot].item = i /\ job'[Boot].snap = row'[i] /\ job'[Boot].dest = job[Boot].dest
    BY <1>3, <1>4
  <2>2. JobNamed(Boot)'
    BY <1>6, <1>9, <2>1 DEF JobNamed
  <2>3. ASSUME ~ cancelAsked[i]
        PROVE  WorkerHome(Boot)'
    BY <1>1, <1>8, <1>9, <2>1, <2>3 DEF WorkerHome
  <2> QED
    BY <1>3, <2>1, <2>2, <2>3
<1> HIDE DEF i
<1>12. ItemsHome'
  <2> SUFFICES ASSUME NEW k \in Items
               PROVE  RowNamed(k)' /\ (cancelAsked'[k] \/ ItemHome(k)')
    BY DEF ItemsHome
  <2>1. CASE k = i
    <3>1. RowNamed(k)'
      BY <1>3, <1>9, <2>1 DEF HomeInv, ItemsHome, RowNamed
    <3>2. ASSUME ~ cancelAsked[k]
          PROVE  ItemHome(k)'
      <4>1. Delivered(k) <=> Delivered(k)'
        BY <1>3, <1>8, <2>1, <3>2 DEF Delivered
      <4> QED
        BY <1>3, <1>7, <1>8, <1>9, <2>1, <3>2, <4>1 DEF ItemHome, Live
    <3> QED
      BY <1>3, <3>1, <3>2
  <2>2. CASE k # i
    BY <1>1, <1>3, <2>2, HomeOther
  <2> QED
    BY <2>1, <2>2
<1> QED
  BY <1>10, <1>11, <1>12 DEF HomeInv

\* A crash empties the server of workers and keeps every file in being.
LEMMA HomeCrash ==
  ASSUME Sound, HomeInv, Crash \/ Restart \/ FinishBoot
  PROVE  HomeInv'
<1>1. CASE Crash
  <2>1. /\ \A v \in Workers : pc'[v] = "idle"
        /\ \A k \in Items : cancel'[k].step = "none"
        /\ \A k \in Items : part'[k].exists = part[k].exists
        /\ UNCHANGED <<row, final, cancelAsked, acked>>
    BY <1>1 DEF Crash, NoCancel, Survivor, Sound, TypeOK, File
  <2>2. PathsOwned' /\ WorkersHome'
    BY <2>1 DEF HomeInv, PathsOwned, WorkersHome
  <2>3. ItemsHome'
    BY <2>1 DEF HomeInv, ItemsHome, RowNamed, ItemHome, Delivered
  <2> QED
    BY <2>2, <2>3 DEF HomeInv
<1>2. CASE Restart \/ FinishBoot
  BY <1>2, HomeFrame DEF Restart, FinishBoot, disk
<1> QED
  BY <1>1, <1>2

\* No step takes a file, a record or a worker from home.
LEMMA HomeNext == NamesApart /\ Sound /\ HomeInv /\ [Next]_vars => HomeInv'
<1> SUFFICES ASSUME NamesApart, Sound, HomeInv, [Next]_vars
             PROVE  HomeInv'
  OBVIOUS
<1>1. ASSUME UNCHANGED <<row, final, part, pc, job, cancel, cancelAsked>>,
             \A k \in Items : acked'[k] = acked[k] \/ acked'[k] <= row[k].confirmed
      PROVE  HomeInv'
  BY <1>1, HomeFrame
<1>2. ASSUME NEW i \in Items, ReportStatus(i)
      PROVE  HomeInv'
  <2>1. row[i].confirmed \in Nat
    BY DEF Sound, TypeOK, Row
  <2>2. \A k \in Items : acked'[k] = acked[k] \/ (k = i /\ acked'[k] = row[i].confirmed)
    BY <1>2, <2>1, AnswerKeeps DEF ReportStatus, Sound
  <2>3. \A k \in Items : acked'[k] = acked[k] \/ acked'[k] <= row[k].confirmed
    BY <2>1, <2>2
  <2> QED
    BY <1>1, <1>2, <2>3 DEF ReportStatus, disk
<1>3. ASSUME NEW i \in Items, NEW cut, ForgetCommits(i, cut)
      PROVE  HomeInv'
  BY <1>1, <1>3 DEF ForgetCommits
<1>4. CASE UNCHANGED vars
  BY <1>1, <1>4 DEF vars
<1> QED
  BY <1>2, <1>3, <1>4, HomeRegister, HomeForeign, HomeStart, HomeCheckpoint, HomeCommit,
     HomeCompletion, HomeCancel, HomeSettle, HomeReset, HomeCrash DEF Next, BootStep

\* For items with names of their own every file is where its record says, and
\* every worker knows where that is.
THEOREM FilesAtHome ==
  ASSUME NamesApart
  PROVE  Spec => []HomeInv
<1>1. Init => HomeInv
  BY HomeInit
<1>2. Sound /\ HomeInv /\ [Next]_vars => HomeInv'
  BY HomeNext
<1>3. Spec => []Sound
  <2>1. TypeOK /\ StoreInvariant /\ OrderInv => Sound
    BY DEF Sound
  <2> QED
    BY <2>1, TypeCorrect, StoreIsSound, CommitsInOrder, PTL
<1> QED
  BY <1>1, <1>2, <1>3, PTL DEF Spec

\* An offset a sender was told of is never taken back while the item is not
\* cancelled, for items with names of their own: completion, a crash between
\* rename and commit, startup and stale records included.
THEOREM AckedKept ==
  ASSUME NamesApart
  PROVE  Spec => []AckedOffsetKept
<1>1. HomeInv => AckedOffsetKept
  BY DEF HomeInv, ItemsHome, ItemHome, AckedOffsetKept
<1> QED
  BY <1>1, FilesAtHome, PTL

\* A ready item with a name of its own has its complete file at its final path.
THEOREM ReadyDelivered ==
  ASSUME NamesApart
  PROVE  Spec => []ReadyIsDelivered
<1>1. HomeInv => ReadyIsDelivered
  BY DEF HomeInv, ItemsHome, ItemHome, ReadyIsDelivered
<1> QED
  BY <1>1, FilesAtHome, PTL

-----------------------------------------------------------------------------
(* The store implements the abstract upload: every step is one of the        *)
(* abstract steps for one item, or changes nothing a sender was promised.    *)

Phase == [i \in Items |-> AbstractPhase(i)]
Durable == [i \in Items |-> IF cancelAsked[i] THEN 0 ELSE row[i].confirmed]
Told == [i \in Items |-> IF cancelAsked[i] THEN 0 ELSE acked[i]]

\* With every file at home the phase follows from the record's state.
LEMMA PhaseValues ==
  ASSUME HomeInv, NEW i \in Items
  PROVE  Phase[i] = IF cancelAsked[i] THEN "released"
                    ELSE IF row[i].state = "absent" THEN "none"
                    ELSE IF row[i].state \in Live THEN "open" ELSE "complete"
<1>1. CASE cancelAsked[i]
  BY <1>1 DEF Phase, AbstractPhase
<1>2. CASE ~ cancelAsked[i]
  <2>1. ItemHome(i)
    BY <1>2 DEF HomeInv, ItemsHome
  <2>2. CASE row[i].state = "absent"
    BY <1>2, <2>2 DEF Phase, AbstractPhase, Live
  <2>3. CASE row[i].state \in Live
    BY <1>2, <2>3 DEF Phase, AbstractPhase, Live
  <2>4. CASE row[i].state = "ready"
    BY <1>2, <2>1, <2>4 DEF Phase, AbstractPhase, Live, ItemHome
  <2> QED
    BY <2>1, <2>2, <2>3, <2>4 DEF ItemHome
<1> QED
  BY <1>1, <1>2

\* The same after a step.
LEMMA PhaseValuesNext ==
  ASSUME HomeInv', NEW i \in Items
  PROVE  Phase'[i] = IF cancelAsked'[i] THEN "released"
                     ELSE IF row'[i].state = "absent" THEN "none"
                     ELSE IF row'[i].state \in Live THEN "open" ELSE "complete"
<1>1. CASE cancelAsked'[i]
  BY <1>1 DEF Phase, AbstractPhase
<1>2. CASE ~ cancelAsked'[i]
  <2>1. ItemHome(i)'
    BY <1>2 DEF HomeInv, ItemsHome
  <2>2. CASE row'[i].state = "absent"
    BY <1>2, <2>2 DEF Phase, AbstractPhase, Live
  <2>3. CASE row'[i].state \in Live
    BY <1>2, <2>3 DEF Phase, AbstractPhase, Live
  <2>4. CASE row'[i].state = "ready"
    BY <1>2, <2>1, <2>4 DEF Phase, AbstractPhase, Live, ItemHome
  <2> QED
    BY <2>1, <2>2, <2>3, <2>4 DEF ItemHome
<1> QED
  BY <1>1, <1>2

\* The abstract steps, in terms of the mapped variables.
LEMMA PromiseSteps ==
  ASSUME NEW i \in Items
  PROVE  /\ \A n : /\ Phase[i] \in {"open", "complete"} /\ n \in Told[i] + 1 .. Durable[i]
                   /\ Told' = [Told EXCEPT ![i] = n] /\ Phase' = Phase /\ Durable' = Durable
                   => Promise!ANext
         /\ /\ Phase[i] = "none"
            /\ Phase' = [Phase EXCEPT ![i] = IF Size[i] = 0 THEN "complete" ELSE "open"]
            /\ Durable' = Durable /\ Told' = Told
            => Promise!ANext
         /\ \A n : /\ Phase[i] = "open" /\ n \in Durable[i] + 1 .. Size[i]
                   /\ Durable' = [Durable EXCEPT ![i] = n] /\ Phase' = Phase /\ Told' = Told
                   => Promise!ANext
         /\ /\ Phase[i] = "open" /\ Durable[i] = Size[i]
            /\ Phase' = [Phase EXCEPT ![i] = "complete"]
            /\ Told' = [Told EXCEPT ![i] = Size[i]] \/ Told' = Told
            /\ Durable' = Durable
            => Promise!ANext
         /\ /\ Phase[i] # "none" /\ Phase' = [Phase EXCEPT ![i] = "released"]
            /\ Durable' = [Durable EXCEPT ![i] = 0] /\ Told' = [Told EXCEPT ![i] = 0]
            => Promise!ANext
BY DEF Promise!ANext, Promise!Tell, Promise!Open, Promise!Advance, Promise!Complete,
       Promise!Release, Phase, Durable, Told

\* What leaves the mapped variables alone is a stutter.
LEMMA PromiseStutter ==
  Phase' = Phase /\ Durable' = Durable /\ Told' = Told => UNCHANGED Promise!avars
BY DEF Promise!avars, Phase, Durable, Told

\* A step in which every item not cancelled keeps its phase and offset, and at
\* most one is told more.
LEMMA RefineTell ==
  ASSUME TypeOK, TypeOK', HomeInv, HomeInv', UNCHANGED cancelAsked, NEW i \in Items,
         \A k \in Items : ~ cancelAsked[k] =>
           /\ row'[k].confirmed = row[k].confirmed
           /\ row'[k].state = row[k].state \/ (row'[k].state \in Live /\ row[k].state \in Live)
           /\ acked'[k] = acked[k] \/ (k = i /\ acked'[k] > acked[k]),
         row[i].state # "absent" \/ acked'[i] = acked[i]
  PROVE  [Promise!ANext]_(Promise!avars)
<1>1. \A k \in Items : Phase'[k] = Phase[k] /\ Durable'[k] = Durable[k]
  <2> SUFFICES ASSUME NEW k \in Items
               PROVE  Phase'[k] = Phase[k] /\ Durable'[k] = Durable[k]
    OBVIOUS
  <2> QED
    BY PhaseValues, PhaseValuesNext DEF Durable, Live
<1>2. Phase' = Phase /\ Durable' = Durable
  BY <1>1 DEF Phase, Durable
<1>3. CASE cancelAsked[i] \/ acked'[i] = acked[i]
  <2>1. \A k \in Items : Told'[k] = Told[k]
    BY <1>3 DEF Told
  <2>2. Told' = Told
    BY <2>1 DEF Told
  <2> QED
    BY <1>2, <2>2, PromiseStutter
<1>4. CASE ~ cancelAsked[i] /\ acked'[i] # acked[i]
  <2>1. /\ acked'[i] > acked[i] /\ acked'[i] <= row[i].confirmed
        /\ acked'[i] \in Nat /\ acked[i] \in Nat /\ row[i].confirmed \in Nat
    BY <1>4 DEF HomeInv, ItemsHome, ItemHome, TypeOK, Row
  <2>2. Told[i] = acked[i] /\ Durable[i] = row[i].confirmed
    BY <1>4 DEF Told, Durable
  <2>3. acked'[i] \in Told[i] + 1 .. Durable[i]
    BY <2>1, <2>2
  <2>4. Phase[i] \in {"open", "complete"}
    BY <1>4, PhaseValues
  <2>5. Told' = [Told EXCEPT ![i] = acked'[i]]
    <3>1. \A k \in Items : Told'[k] = [Told EXCEPT ![i] = acked'[i]][k]
      BY <1>4 DEF Told
    <3> QED
      BY <3>1 DEF Told
  <2> QED
    BY <1>2, <2>3, <2>4, <2>5, PromiseSteps
<1> QED
  BY <1>3, <1>4

\* A step that writes no record tells at most one sender more.
LEMMA RefineQuiet ==
  ASSUME Sound, TypeOK', HomeInv, HomeInv', UNCHANGED <<row, cancelAsked>>,
         UNCHANGED acked \/ \E w : \E i \in Items, n \in Nat : Answer(w, i, n)
  PROVE  [Promise!ANext]_(Promise!avars)
<1>1. CASE UNCHANGED acked
  BY <1>1, RefineTell, ItemsAssumption DEF Sound
<1>2. ASSUME NEW w, NEW i \in Items, NEW n \in Nat, Answer(w, i, n)
      PROVE  [Promise!ANext]_(Promise!avars)
  <2>1. \A k \in Items : acked'[k] = acked[k] \/ (k = i /\ acked'[k] > acked[k])
    BY <1>2 DEF Answer, Greater, Sound, TypeOK
  <2>2. CASE row[i].state # "absent" \/ acked'[i] = acked[i]
    BY <2>1, <2>2, RefineTell DEF Sound
  <2>3. CASE row[i].state = "absent" /\ acked'[i] # acked[i]
    <3>1. row[i].confirmed = 0 /\ acked[i] \in Nat /\ acked'[i] \in Nat
      BY <2>3 DEF Sound, OrderInv, ItemsOrdered, ItemOrdered, TypeOK
    <3>2. cancelAsked[i]
      BY <2>1, <2>3, <3>1 DEF HomeInv, ItemsHome, ItemHome
    <3>3. \A k \in Items : ~ cancelAsked[k] => acked'[k] = acked[k]
      BY <2>1, <3>2
    <3>4. Phase' = Phase
      <4>1. \A k \in Items : Phase'[k] = Phase[k]
        BY PhaseValues, PhaseValuesNext
      <4> QED
        BY <4>1 DEF Phase
    <3>5. Durable' = Durable
      BY DEF Durable
    <3>6. Told' = Told
      <4>1. \A k \in Items : Told'[k] = Told[k]
        BY <3>3 DEF Told
      <4> QED
        BY <4>1 DEF Told
    <3> QED
      BY <3>4, <3>5, <3>6, PromiseStutter
  <2> QED
    BY <2>2, <2>3
<1> QED
  BY <1>1, <1>2

\* Registration opens the item; an empty one is complete at once.
LEMMA RefineRegister ==
  ASSUME Sound, TypeOK', HomeInv, HomeInv', NEW i \in Items, Register(i)
  PROVE  [Promise!ANext]_(Promise!avars)
<1>1. PICK q \in Paths :
        row' = [row EXCEPT ![i] =
                  [state |-> IF Size[i] = 0 THEN "ready" ELSE "pending",
                   confirmed |-> 0, partial |-> Size[i] # 0, final |-> q]]
  BY DEF Register
<1>2. /\ row'[i].state = (IF Size[i] = 0 THEN "ready" ELSE "pending")
      /\ row'[i].confirmed = 0
      /\ \A k \in Items : k # i => row'[k] = row[k]
  BY <1>1 DEF Sound, TypeOK
<1>3. /\ row[i].state = "absent" /\ row[i].confirmed = 0
      /\ UNCHANGED <<cancelAsked, acked>>
  BY DEF Register, Sound, OrderInv, ItemsOrdered, ItemOrdered
<1>4. CASE cancelAsked[i]
  BY <1>2, <1>3, <1>4, RefineTell DEF Sound
<1>5. CASE ~ cancelAsked[i]
  <2>1. Phase[i] = "none"
    BY <1>3, <1>5, PhaseValues
  <2>2. Phase'[i] = IF Size[i] = 0 THEN "complete" ELSE "open"
    BY <1>2, <1>3, <1>5, PhaseValuesNext DEF Live
  <2>3. \A k \in Items : k # i => Phase'[k] = Phase[k]
    BY <1>2, <1>3, PhaseValues, PhaseValuesNext
  <2>4. Phase' = [Phase EXCEPT ![i] = IF Size[i] = 0 THEN "complete" ELSE "open"]
    BY <2>2, <2>3 DEF Phase
  <2>5. \A k \in Items : Durable'[k] = Durable[k] /\ Told'[k] = Told[k]
    BY <1>2, <1>3 DEF Durable, Told
  <2>6. Durable' = Durable /\ Told' = Told
    BY <2>5 DEF Durable, Told
  <2> QED
    BY <2>1, <2>4, <2>6, PromiseSteps
<1> QED
  BY <1>4, <1>5

\* A commit makes a later offset durable.
LEMMA RefineCommit ==
  ASSUME Sound, TypeOK', HomeInv, HomeInv', NEW r \in Requests, CommitCheckpoint(r)
  PROVE  [Promise!ANext]_(Promise!avars)
<1> DEFINE i == job[r].item
           end == job[r].start + job[r].len
<1> r \in Workers
  BY DEF Workers
<1>1. /\ i \in Items /\ job[r].start \in Nat /\ job[r].len \in Nat /\ Size[i] \in Nat
      /\ job[r].snap \in Row
  BY WorkerFacts DEF Sound
<1>2. /\ row'[i].confirmed = end /\ row'[i].state = "transferring"
      /\ \A k \in Items : k # i => row'[k] = row[k]
      /\ UNCHANGED <<cancelAsked, acked>>
  BY <1>1 DEF CommitCheckpoint, Sound, TypeOK, Row
<1>3. cancelAsked[i] \/ WriterSound(r)
  BY DEF CommitCheckpoint, Writing, Sound, StoreInvariant
<1>4. ASSUME ~ cancelAsked[i]
      PROVE  row[i].state \in Live /\ end \in row[i].confirmed + 1 .. Size[i]
  BY <1>1, <1>3, <1>4 DEF WriterSound
<1> HIDE DEF i, end
<1>5. CASE cancelAsked[i]
  BY <1>1, <1>2, <1>5, RefineTell DEF Sound
<1>6. CASE ~ cancelAsked[i]
  <2>1. Phase[i] = "open"
    BY <1>1, <1>4, <1>6, PhaseValues DEF Live
  <2>2. \A k \in Items : Phase'[k] = Phase[k]
    <3>1. Phase'[i] = "open"
      BY <1>1, <1>2, <1>6, PhaseValuesNext DEF Live
    <3>2. \A k \in Items : k # i => Phase'[k] = Phase[k]
      BY <1>2, PhaseValues, PhaseValuesNext
    <3> QED
      BY <2>1, <3>1, <3>2
  <2>3. Phase' = Phase
    BY <2>2 DEF Phase
  <2>4. Told' = Told
    BY <1>2 DEF Told
  <2>5. Durable' = [Durable EXCEPT ![i] = end]
    <3>1. \A k \in Items : Durable'[k] = [Durable EXCEPT ![i] = end][k]
      BY <1>1, <1>2, <1>6 DEF Durable
    <3> QED
      BY <3>1 DEF Durable
  <2>6. end \in Durable[i] + 1 .. Size[i]
    BY <1>1, <1>4, <1>6 DEF Durable
  <2> QED
    BY <1>1, <2>1, <2>3, <2>4, <2>5, <2>6, PromiseSteps
<1> QED
  BY <1>5, <1>6

\* A record that becomes ready completes the item, and may tell the sender.
LEMMA RefineReady ==
  ASSUME Sound, TypeOK', HomeInv, HomeInv', NEW w \in Workers, RecordReady(w)
  PROVE  [Promise!ANext]_(Promise!avars)
<1> DEFINE i == job[w].item
<1>1. i \in Items /\ Size[i] \in Nat
  BY WorkerFacts DEF Sound
<1>2. /\ row'[i].state = "ready" /\ row'[i].confirmed = Size[i]
      /\ \A k \in Items : k # i => row'[k] = row[k]
      /\ UNCHANGED cancelAsked
      /\ UNCHANGED acked \/ Answer(w, i, Size[i])
      /\ Finishes(w)
  BY <1>1 DEF RecordReady, Sound, TypeOK, Finishes, Completing, Finalizing
<1>3. ASSUME ~ cancelAsked[i]
      PROVE  row[i].confirmed = Size[i] /\ acked[i] <= Size[i] /\ ItemHome(i)
  BY <1>1, <1>2, <1>3 DEF Sound, StoreInvariant, FinisherSound, HomeInv, ItemsHome, ItemHome
<1>4. \A k \in Items : acked'[k] = acked[k] \/ (k = i /\ acked'[k] > acked[k] /\ acked'[k] = Size[i])
  BY <1>1, <1>2 DEF Answer, Greater, Sound, TypeOK
<1>5. row[i].state # "absent"
  BY <1>2 DEF Sound, OrderInv, FinishersApart, Past, Live
<1> HIDE DEF i
<1>6. CASE cancelAsked[i] \/ row[i].state = "ready"
  <2>1. \A k \in Items : ~ cancelAsked[k] =>
          row'[k].confirmed = row[k].confirmed /\ row'[k].state = row[k].state
    BY <1>2, <1>3, <1>6
  <2> QED
    BY <1>1, <1>2, <1>4, <1>5, <2>1, RefineTell DEF Sound
<1>7. CASE ~ cancelAsked[i] /\ row[i].state # "ready"
  <2>1. row[i].state \in Live /\ Phase[i] = "open"
    BY <1>1, <1>3, <1>5, <1>7, PhaseValues DEF ItemHome
  <2>2. Phase' = [Phase EXCEPT ![i] = "complete"]
    <3>1. Phase'[i] = "complete"
      BY <1>1, <1>2, <1>7, PhaseValuesNext DEF Live
    <3>2. \A k \in Items : k # i => Phase'[k] = Phase[k]
      BY <1>2, PhaseValues, PhaseValuesNext
    <3> QED
      BY <3>1, <3>2 DEF Phase
  <2>3. Durable' = Durable /\ Durable[i] = Size[i]
    <3>1. \A k \in Items : Durable'[k] = Durable[k]
      BY <1>1, <1>2, <1>3, <1>7 DEF Durable
    <3>2. Durable[i] = Size[i]
      BY <1>1, <1>3, <1>7 DEF Durable
    <3> QED
      BY <3>1, <3>2 DEF Durable
  <2>4. Told' = [Told EXCEPT ![i] = Size[i]] \/ Told' = Told
    <3>1. CASE acked'[i] = acked[i]
      <4>1. \A k \in Items : Told'[k] = Told[k]
        BY <1>2, <1>4, <3>1 DEF Told
      <4> QED
        BY <4>1 DEF Told
    <3>2. CASE acked'[i] # acked[i]
      <4>1. \A k \in Items : Told'[k] = [Told EXCEPT ![i] = Size[i]][k]
        BY <1>1, <1>2, <1>4, <1>7, <3>2 DEF Told
      <4> QED
        BY <4>1 DEF Told
    <3> QED
      BY <3>1, <3>2
  <2> QED
    BY <1>1, <2>1, <2>2, <2>3, <2>4, PromiseSteps
<1> QED
  BY <1>6, <1>7

\* The first request to cancel releases the item.
LEMMA RefineCancel ==
  ASSUME Sound, TypeOK', HomeInv, HomeInv', NEW i \in Items, StartCancel(i)
  PROVE  [Promise!ANext]_(Promise!avars)
<1>1. /\ row[i].state # "absent" /\ cancelAsked'[i]
      /\ \A k \in Items : k # i => cancelAsked'[k] = cancelAsked[k]
      /\ UNCHANGED <<row, acked>>
      /\ cancelAsked' = [cancelAsked EXCEPT ![i] = TRUE]
  BY DEF StartCancel, disk, Sound, TypeOK
<1>2. CASE cancelAsked[i]
  <2>1. UNCHANGED cancelAsked
    BY <1>1, <1>2 DEF Sound, TypeOK
  <2> QED
    BY <1>1, <2>1, RefineQuiet
<1>3. CASE ~ cancelAsked[i]
  <2>1. Phase[i] # "none"
    BY <1>1, <1>3, PhaseValues
  <2>2. Phase'[i] = "released" /\ Durable'[i] = 0 /\ Told'[i] = 0
    BY <1>1, PhaseValuesNext DEF Durable, Told
  <2>3. \A k \in Items : k # i => /\ Phase'[k] = Phase[k] /\ Durable'[k] = Durable[k]
                                  /\ Told'[k] = Told[k]
    BY <1>1, PhaseValues, PhaseValuesNext DEF Durable, Told
  <2>4. Phase' = [Phase EXCEPT ![i] = "released"]
    BY <2>2, <2>3 DEF Phase
  <2>5. Durable' = [Durable EXCEPT ![i] = 0]
    BY <2>2, <2>3 DEF Durable
  <2>6. Told' = [Told EXCEPT ![i] = 0]
    BY <2>2, <2>3 DEF Told
  <2> QED
    BY <2>1, <2>4, <2>5, <2>6, PromiseSteps
<1> QED
  BY <1>2, <1>3

\* Recording a cancellation and settling a record after a crash change nothing
\* the store still promises.
LEMMA RefineRewrite ==
  ASSUME Sound, TypeOK', HomeInv, HomeInv',
         ResetRow \/ \E i \in Items : RecordCancelled(i)
  PROVE  [Promise!ANext]_(Promise!avars)
<1>1. ASSUME NEW i \in Items, RecordCancelled(i)
      PROVE  [Promise!ANext]_(Promise!avars)
  <2>1. /\ cancelAsked[i] /\ UNCHANGED <<cancelAsked, acked>>
        /\ \A k \in Items : k # i => row'[k] = row[k]
    BY <1>1 DEF RecordCancelled, Sound, TypeOK, StoreInvariant, CancelKnown
  <2> QED
    BY <2>1, RefineTell DEF Sound
<1>2. CASE ResetRow
  <2> DEFINE i == job[Boot].item
  <2> Boot \in Workers
    BY DEF Workers
  <2>1. i \in Items /\ job[Boot].snap \in Row
    BY WorkerFacts DEF Sound
  <2>2. /\ pc[Boot] = "reset" /\ UNCHANGED <<cancelAsked, acked>>
        /\ row'[i].confirmed = job[Boot].snap.confirmed /\ row'[i].state \in Live
        /\ \A k \in Items : k # i => row'[k] = row[k]
    BY <1>2, <2>1 DEF ResetRow, Sound, TypeOK, Row, Live
  <2>3. row[i].state \in Live
    BY <2>2 DEF Sound, OrderInv, BootOrdered
  <2>4. cancelAsked[i] \/ job[Boot].snap.confirmed = row[i].confirmed
    BY <2>2 DEF HomeInv, WorkersHome, WorkerHome
  <2> QED
    BY <2>1, <2>2, <2>3, <2>4, RefineTell DEF Sound
<1> QED
  BY <1>1, <1>2

\* Every step of the store maps to a step of the abstract upload, or to none.
LEMMA RefineNext ==
  ASSUME Sound, TypeOK', HomeInv, HomeInv', [Next]_vars
  PROVE  [Promise!ANext]_(Promise!avars)
<1>1. ASSUME UNCHANGED <<row, cancelAsked>>,
             UNCHANGED acked \/ \E w : \E i \in Items, n \in Nat : Answer(w, i, n)
      PROVE  [Promise!ANext]_(Promise!avars)
  BY <1>1, RefineQuiet
<1>2. \A i \in Items : row[i].confirmed \in Nat
  BY DEF Sound, TypeOK, Row
<1>3. \A w \in Workers : job[w].item \in Items /\ job[w].snap.confirmed \in Nat
  BY WorkerFacts DEF Sound
<1>4. ASSUME NEW i \in Items, ReportStatus(i) \/ RemoveCancelled(i)
      PROVE  [Promise!ANext]_(Promise!avars)
  BY <1>1, <1>2, <1>4 DEF ReportStatus, RemoveCancelled, disk
<1>5. ASSUME NEW i, NEW n, ForgetCommits(i, n) \/ DropForeignFile(i, n)
      PROVE  [Promise!ANext]_(Promise!avars)
  BY <1>1, <1>5 DEF ForgetCommits, DropForeignFile
<1>6. ASSUME NEW r \in Requests, NEW i \in Items, NEW n, StartCheckpoint(r, i, n)
      PROVE  [Promise!ANext]_(Promise!avars)
  BY <1>1, <1>6 DEF StartCheckpoint, disk
<1>7. ASSUME NEW r \in Requests, NEW c \in commits, StartReplay(r, c)
      PROVE  [Promise!ANext]_(Promise!avars)
  <2>1. c.item \in Items
    BY DEF Sound, TypeOK, Commit
  <2> QED
    BY <1>1, <1>2, <1>7, <2>1 DEF StartReplay, disk
<1>8. ASSUME NEW r \in Requests, CheckpointStep(r), ~ CommitCheckpoint(r)
      PROVE  [Promise!ANext]_(Promise!avars)
  <2>1. r \in Workers
    BY DEF Workers
  <2>2. UNCHANGED <<row, cancelAsked>>
    BY <1>8 DEF CheckpointStep, StatPartial, OpenPartial, ReceiveBody, UndoWrite, SyncPartial,
       FailCommit, PublishProgress, FailPublish, FailIO, disk
  <2>3. UNCHANGED acked \/ Answer(r, job[r].item, job[r].snap.confirmed)
    BY <1>8 DEF CheckpointStep, StatPartial, OpenPartial, ReceiveBody, UndoWrite, SyncPartial,
       FailCommit, PublishProgress, FailPublish, FailIO
  <2> QED
    BY <1>1, <1>3, <2>1, <2>2, <2>3
<1>9. ASSUME NEW w \in Workers, CompletionStep(w), ~ RecordReady(w)
      PROVE  [Promise!ANext]_(Promise!avars)
  <2>1. UNCHANGED <<row, cancelAsked>>
    BY <1>9 DEF CompletionStep, ProbeFinal, ProbePartial, HashPartial, ChooseFinalPath,
       RenamePartial, disk
  <2>2. UNCHANGED acked \/ Answer(w, job[w].item, job[w].snap.confirmed)
    BY <1>9 DEF CompletionStep, ProbeFinal, ProbePartial, NothingRecovered, HashPartial,
       ChooseFinalPath, RenamePartial
  <2> QED
    BY <1>1, <1>3, <2>1, <2>2
<1>10. ASSUME Crash \/ Restart \/ BootStep, ~ ResetRow
       PROVE  [Promise!ANext]_(Promise!avars)
  BY <1>1, <1>10 DEF Crash, Restart, BootStep, VisitItem, SettlePartial, FinishBoot, disk
<1>11. CASE UNCHANGED vars
  BY <1>1, <1>11 DEF vars
<1> QED
  BY <1>4, <1>5, <1>6, <1>7, <1>8, <1>9, <1>10, <1>11, RefineRegister, RefineCommit,
     RefineReady, RefineCancel, RefineRewrite DEF Next, BootStep

\* The store of uploads with files, locks, crashes and retries is an
\* implementation of the abstract upload, for items with names of their own.
THEOREM StoreImplementsUpload ==
  ASSUME NamesApart
  PROVE  Spec => ImplementsDurableUpload
<1>1. ASSUME Init
      PROVE  Promise!AInit
  <2>1. \A i \in Items : Phase[i] = "none" /\ Durable[i] = 0 /\ Told[i] = 0
    <3> SUFFICES ASSUME NEW i \in Items
                 PROVE  Phase[i] = "none" /\ Durable[i] = 0 /\ Told[i] = 0
      OBVIOUS
    <3>1. row[i].state = "absent" /\ row[i].confirmed = 0 /\ ~ cancelAsked[i] /\ acked[i] = 0
      BY <1>1 DEF Init, NoRow
    <3>2. AbstractPhase(i) = "none"
      BY <3>1 DEF AbstractPhase, Live
    <3> QED
      BY <3>1, <3>2 DEF Phase, Durable, Told
  <2>2. /\ Phase = [i \in Items |-> "none"]
        /\ Durable = [i \in Items |-> 0]
        /\ Told = [i \in Items |-> 0]
    BY <2>1 DEF Phase, Durable, Told
  <2> QED
    BY <2>2 DEF Promise!AInit, Phase, Durable, Told
<1>2. Sound /\ HomeInv /\ TypeOK' /\ HomeInv' /\ [Next]_vars => [Promise!ANext]_(Promise!avars)
  BY RefineNext
<1>3. TypeOK /\ StoreInvariant /\ OrderInv => Sound
  BY DEF Sound
<1> QED
  BY <1>1, <1>2, <1>3, TypeCorrect, StoreIsSound, CommitsInOrder, FilesAtHome, PTL
     DEF Spec, ImplementsDurableUpload, Promise!Spec

=============================================================================
