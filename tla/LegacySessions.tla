--------------------------- MODULE LegacySessions ---------------------------
(***************************************************************************)
(* A session of the legacy routes (/api/local), which the tests enable:    *)
(* the store and its chunk uploads (localSessionStore.ts,                  *)
(* uploadStorage.ts), range downloads (rangeDownload.ts), and the browsers *)
(* that upload (apps/web/src/api/client.ts).                               *)
(*                                                                         *)
(* All files have the same length; a file is the sequence of its bytes, 1  *)
(* to Size, and a hash is the bytes it was updated with.  Of a send        *)
(* session the user's own sources can be downloaded at once, other files   *)
(* are uploaded by the page first.  Time is left open: a live session may  *)
(* expire at any moment.  Left out: tokens and tickets, empty files, names *)
(* and their collisions (UploadStore has them), changed sources            *)
(* (SourceReads has them), the disk space, the progress numbers, and what  *)
(* the desktop page downloads of an upload session.                        *)
(***************************************************************************)
EXTENDS ByteRanges, Sequences, SequencesExt, FiniteSets

CONSTANTS
  Uploaders, Browsers, Files,
  Size,          \* bytes of a file
  Chunk,         \* browserUploadChunkSize and uploadChunkSize
  MaxFiles,      \* limits.maxFiles
  MaxAttempts,   \* attempts at a chunk: 3
  MaxPolls,      \* fileReadyPollAttempts
  MaxStarts,     \* bound on the uploads of a page
  MaxDownloads   \* bound on the requests of a browser

ASSUME LegacyBounds ==
  /\ Size \in Nat \ {0} /\ Chunk \in Nat \ {0} /\ Size <= MaxSafe
  /\ MaxFiles \in Nat /\ MaxAttempts \in Nat \ {0} /\ MaxPolls \in Nat
  /\ MaxStarts \in Nat /\ MaxDownloads \in Nat
  /\ Files # {} /\ "nobody" \notin Uploaders

VARIABLES
  session,   \* its kind, whether it lives, and how far its removal has come
  recs,      \* session.files, each with the chunk that is written to it
  wire,      \* the PUT request of each page that has not arrived
  page,      \* the uploads of the pages
  dl         \* the downloads of the browsers

vars == <<session, recs, wire, page, dl>>

-----------------------------------------------------------------------------

Content == [b \in 1 .. Size |-> b]
Bodies == UNION {[1 .. n -> 0 .. Size] : n \in 0 .. Size}

\* The chunk at work holds the lock of its file; back is rollbackHash.
NoPut == [step |-> "none", by |-> "nobody", start |-> 0, end |-> 0, back |-> <<>>]

\* A record; sum is its sha256, stored the file at its destination.
Record(f) == [file |-> f, received |-> 0, ready |-> FALSE, partial |-> <<>>,
              hash |-> <<>>, sum |-> <<>>, stored |-> <<>>, put |-> NoPut]
Source(f) == [Record(f) EXCEPT !.received = Size, !.ready = TRUE, !.sum = Content,
                               !.stored = Content]

NoMessage == [rec |-> 0, start |-> 0, end |-> 0]
Ended == {"idle", "done", "failed"}
NoUpload == [step |-> "idle", file |-> "none", rec |-> 0, offset |-> 0,
             ready |-> FALSE, attempt |-> 0, polls |-> 0, starts |-> 0]
NoDownload == [step |-> "idle", rec |-> 0, first |-> Omitted, last |-> Omitted,
               range |-> NoRange, got |-> {}, complete |-> FALSE, asked |-> 0]

TypeOK ==
  /\ session \in [kind : {"upload", "send", "source"},
                  step : {"live", "removing", "left", "gone"}, cleaned : Nat]
  /\ \A r \in DOMAIN recs :
       /\ recs[r].file \in Files /\ recs[r].received \in 0 .. Size /\ recs[r].ready \in BOOLEAN
       /\ {recs[r].partial, recs[r].hash, recs[r].sum, recs[r].stored} \subseteq Bodies
       /\ recs[r].put.step \in {"none", "stat", "stream", "sync", "rename"}
  /\ wire \in [Uploaders -> [rec : Nat, start : Int, end : Int]]
  /\ \A u \in Uploaders :
       page[u].step \in Ended \union {"register", "adding", "send", "sent", "look", "wait"}
  /\ \A d \in Browsers : dl[d].step \in {"idle", "stream", "done", "refused"}

Init ==
  /\ \E kind \in {"upload", "send", "source"} :
       /\ session = [kind |-> kind, step |-> "live", cleaned |-> 0]
       /\ recs = CASE kind = "upload" -> <<>>
                   [] kind = "send" -> <<Record(CHOOSE f \in Files : TRUE)>>
                   [] kind = "source" -> <<Source(CHOOSE f \in Files : TRUE)>>
  /\ wire = [u \in Uploaders |-> NoMessage]
  /\ page = [u \in Uploaders |-> NoUpload]
  /\ dl = [d \in Browsers |-> NoDownload]

Live == session.step = "live"

-----------------------------------------------------------------------------
(* Chunks on the server.                                                    *)

\* The page that waits for this chunk is answered.
Told(r, ok) ==
  page' = [u \in Uploaders |->
    IF u # recs[r].put.by THEN page[u]
    ELSE IF ok THEN [page[u] EXCEPT !.step = "send", !.attempt = 0,
                       !.offset = recs'[r].received, !.ready = recs'[r].ready]
    ELSE [page[u] EXCEPT !.step = "look", !.attempt = @ + 1]]

Answered(r, rec, ok) ==
  /\ recs' = [recs EXCEPT ![r] = [rec EXCEPT !.put = NoPut]] /\ Told(r, ok)

Accepts(rec, message) ==
  /\ Live /\ ~rec.ready
  /\ ContentRange(message.start, message.end, Size)
  /\ message.end - message.start + 1 <= Chunk
  /\ message.start = rec.received /\ rec.put.step = "none"

\* appendUploadChunk up to its first await: the lock is taken.  A chunk at the
\* start empties the partial file, another first looks at its length.
PutArrives(u) ==
  LET m == wire[u]
      rec == recs[m.rec]
      put == [step |-> IF m.start = 0 THEN "stream" ELSE "stat",
              by |-> IF page[u].step = "sent" THEN u ELSE "nobody",
              start |-> m.start, end |-> m.end, back |-> rec.hash]
  IN  /\ m # NoMessage /\ wire' = [wire EXCEPT ![u] = NoMessage]
      /\ IF Accepts(rec, m)
         THEN /\ recs' = [recs EXCEPT ![m.rec].put = put,
                            ![m.rec].partial = IF m.start = 0 THEN <<>> ELSE @]
              /\ UNCHANGED page
         ELSE /\ \/ /\ page[u].step = "sent"
                    /\ page' = [page EXCEPT ![u].step = "look", ![u].attempt = @ + 1]
                 \/ page[u].step # "sent" /\ UNCHANGED page
              /\ UNCHANGED recs
      /\ UNCHANGED <<session, dl>>

StatPartial(r) ==
  /\ recs[r].put.step = "stat"
  /\ IF Len(recs[r].partial) = recs[r].put.start
     THEN recs' = [recs EXCEPT ![r].put.step = "stream"] /\ UNCHANGED page
     ELSE Answered(r, recs[r], FALSE)
  /\ UNCHANGED <<session, wire, dl>>

\* Variant: the stream does not watch the signal of the session.
NeverAborted == FALSE

Aborted == ~Live

\* A byte of the body passes the counter, which hashes it, to the file.
PassByte(r) ==
  LET at == Len(recs[r].hash) + 1
  IN  /\ recs[r].put.step = "stream" /\ ~Aborted /\ Len(recs[r].hash) <= recs[r].put.end
      /\ recs' = [recs EXCEPT ![r].hash = Append(@, at), ![r].partial = Append(@, at)]
      /\ UNCHANGED <<session, wire, page, dl>>

\* Variant: the hash keeps the bytes of a chunk that broke off.
HashKept(rec) == rec.hash

HashAfterBreak(rec) == rec.put.back

\* truncate() to the old offset; it fills a file that is shorter with zeros.
Truncated(partial, length) ==
  [b \in 1 .. length |-> IF b <= Len(partial) THEN partial[b] ELSE 0]

\* The body ends early, the browser goes away, a write fails or the session is
\* removed: the chunk is undone.  An error of truncate() is ignored.
BreakOff(r) ==
  LET rec == recs[r]
  IN  /\ rec.put.step = "stream"
      /\ \E partial \in {rec.partial, Truncated(rec.partial, rec.put.start)} :
           Answered(r, [rec EXCEPT !.partial = partial, !.hash = HashAfterBreak(rec),
                                   !.received = rec.put.start], FALSE)
      /\ UNCHANGED <<session, wire, dl>>

EndChunk(r) ==
  LET rec == [recs[r] EXCEPT !.received = recs[r].put.end + 1]
  IN  /\ rec.put.step = "stream" /\ ~Aborted /\ Len(rec.hash) = rec.received
      /\ IF rec.received = Size
         THEN recs' = [recs EXCEPT ![r] = [rec EXCEPT !.put.step = "sync"]] /\ UNCHANGED page
         ELSE Answered(r, rec, TRUE)
      /\ UNCHANGED <<session, wire, dl>>

\* finalizeUpload: fsync, the name, rename.  When one fails the request fails
\* and the bytes stay received.
SyncPartial(r) ==
  /\ recs[r].put.step = "sync"
  /\ \/ recs[r].partial # <<>> /\ recs' = [recs EXCEPT ![r].put.step = "rename"] /\ UNCHANGED page
     \/ Answered(r, recs[r], FALSE)
  /\ UNCHANGED <<session, wire, dl>>

RenamePartial(r) ==
  /\ recs[r].put.step = "rename"
  /\ \/ /\ recs[r].partial # <<>>
        /\ Answered(r, [recs[r] EXCEPT !.stored = recs[r].partial, !.partial = <<>>,
                          !.sum = recs[r].hash, !.hash = <<>>, !.ready = TRUE], TRUE)
     \/ Answered(r, recs[r], FALSE)
  /\ UNCHANGED <<session, wire, dl>>

-----------------------------------------------------------------------------
(* Pages that upload.                                                       *)

Step(u, step) == page' = [page EXCEPT ![u].step = step]
Finish(u, step) ==
  page' = [page EXCEPT ![u] = [NoUpload EXCEPT !.step = step, !.starts = page[u].starts]]

\* A file is chosen, or Resume upload after a failure.  The files of a send
\* session were registered when it was created, and the page uploads them once.
StartUpload(u, f) ==
  /\ page[u].step \in Ended /\ page[u].starts < MaxStarts /\ session.kind # "source"
  /\ session.kind = "send" => recs[1].file = f /\ \A v \in Uploaders : page[v].starts = 0
  /\ page' = [page EXCEPT ![u] = [NoUpload EXCEPT !.file = f, !.starts = page[u].starts + 1,
                !.step = IF session.kind = "send" THEN "send" ELSE "register",
                !.rec = IF session.kind = "send" THEN 1 ELSE 0]]
  /\ UNCHANGED <<session, recs, wire, dl>>

Unfinished(f) == {r \in DOMAIN recs : recs[r].file = f /\ ~recs[r].ready}

\* assertFilesWithinLimits, of which we keep the number of files.
WithinLimits == Len(recs) < MaxFiles

\* addUploadedFile up to its first await: an unfinished file is continued.
Register(u) ==
  LET open == Unfinished(page[u].file)
  IN  /\ page[u].step = "register"
      /\ \/ /\ Live
            /\ \E r \in open :
                 /\ \A s \in open : r <= s
                 /\ page' = [page EXCEPT ![u].step = "send", ![u].rec = r,
                                         ![u].offset = recs[r].received]
         \/ Live /\ open = {} /\ WithinLimits /\ Step(u, "adding")
         \/ Finish(u, "failed")
      /\ UNCHANGED <<session, recs, wire, dl>>

\* After its awaits the record is added, whatever was added or removed meanwhile.
AddRecord(u) ==
  /\ page[u].step = "adding"
  /\ \/ /\ recs' = Append(recs, Record(page[u].file))
        /\ \/ page' = [page EXCEPT ![u].step = "send", ![u].rec = Len(recs) + 1]
           \/ Finish(u, "failed")
     \/ Finish(u, "failed") /\ UNCHANGED recs
  /\ UNCHANGED <<session, wire, dl>>

\* The loop of uploadFileChunks: the next chunk, or the end of it.
SendChunk(u) ==
  LET range == NextChunk(Size, page[u].offset, Chunk)
  IN  /\ page[u].step = "send"
      /\ IF range # NoRange
         THEN /\ Step(u, "sent")
              /\ wire' = [wire EXCEPT ![u] = [rec |-> page[u].rec, start |-> range.start,
                                              end |-> range.end]]
         ELSE /\ IF page[u].ready THEN Finish(u, "done") ELSE Step(u, "wait")
              /\ UNCHANGED wire
      /\ UNCHANGED <<session, recs, dl>>

\* The connection fails under the page: the request may still arrive, or be at
\* work; nobody waits for its answer.
GiveUp(u) ==
  /\ page[u].step = "sent"
  /\ page' = [page EXCEPT ![u].step = "look", ![u].attempt = @ + 1]
  /\ recs' = [r \in DOMAIN recs |->
                IF recs[r].put.by = u THEN [recs[r] EXCEPT !.put.by = "nobody"] ELSE recs[r]]
  /\ wire' \in {wire, [wire EXCEPT ![u] = NoMessage]}
  /\ UNCHANGED <<session, dl>>

\* Variant: the offset of the server is taken over when it is not ahead, too.
NotBehind(rec, offset) == rec.received >= offset

Ahead(rec, offset) == rec.received > offset \/ rec.ready

\* After a failed chunk the page asks the session, which may fail as well.
Look(u) ==
  LET rec == recs[page[u].rec]
  IN  /\ page[u].step = "look"
      /\ \/ /\ Live /\ Ahead(rec, page[u].offset)
            /\ page' = [page EXCEPT ![u].step = "send", ![u].attempt = 0,
                          ![u].offset = rec.received, ![u].ready = rec.ready]
         \/ page[u].attempt < MaxAttempts /\ Step(u, "send")
         \/ page[u].attempt >= MaxAttempts /\ Finish(u, "failed")
      /\ UNCHANGED <<session, recs, wire, dl>>

\* waitForFileReady
Poll(u) ==
  LET rec == recs[page[u].rec]
  IN  /\ page[u].step = "wait"
      /\ \/ Live /\ rec.ready /\ Finish(u, "done")
         \/ /\ Live /\ ~rec.ready /\ page[u].polls < MaxPolls
            /\ page' = [page EXCEPT ![u].polls = @ + 1]
         \/ (~rec.ready => page[u].polls >= MaxPolls \/ ~Live) /\ Finish(u, "failed")
      /\ UNCHANGED <<session, recs, wire, dl>>

-----------------------------------------------------------------------------
(* Downloads and the end of the session.                                    *)

\* sendSessionFile: the range of the header, or the whole file.
Download(d, r, first, last) ==
  LET whole == first = Omitted /\ last = Omitted
      range == IF whole THEN [start |-> 0, end |-> Size - 1] ELSE ByteRange(first, last, Size)
  IN  /\ Live /\ session.kind # "upload" /\ recs[r].ready
      /\ dl[d].step # "stream" /\ dl[d].asked < MaxDownloads
      /\ dl' = [dl EXCEPT ![d] = [NoDownload EXCEPT
                  !.step = IF range = NoRange THEN "refused" ELSE "stream", !.rec = r,
                  !.first = first, !.last = last, !.range = range, !.asked = dl[d].asked + 1]]
      /\ UNCHANGED <<session, recs, wire, page>>

\* The stream has passed what the file has of its range; flush() tells the
\* desktop page that the file is complete when the last byte was asked for.
EndDownload(d) ==
  /\ dl[d].step = "stream" /\ Live
  /\ dl' = [dl EXCEPT ![d].step = "done",
                      ![d].got = Bytes(dl[d].range) \intersect (0 .. Size - 1),
                      ![d].complete = (dl[d].range.end = Size - 1)]
  /\ UNCHANGED <<session, recs, wire, page>>

\* The browser goes away, or the session is removed.
CutOff(d) ==
  /\ dl[d].step = "stream"
  /\ dl' = [dl EXCEPT ![d] = [NoDownload EXCEPT !.asked = dl[d].asked]]
  /\ UNCHANGED <<session, recs, wire, page>>

\* delete, or the end of its time seen by get() or sweepExpired: the session is
\* forgotten and its streams are aborted.
RemoveSession ==
  /\ Live /\ session' = [session EXCEPT !.step = "removing"]
  /\ UNCHANGED <<recs, wire, page, dl>>

\* deleteTemporaryFiles, file by file; files added meanwhile have their turn.
Owned == session.kind = "send"
Cleaned(rec) == [rec EXCEPT !.partial = <<>>, !.stored = IF Owned THEN <<>> ELSE @]

DeleteTemporary ==
  /\ session.step = "removing"
  /\ IF session.cleaned < Len(recs)
     THEN /\ session' = [session EXCEPT !.cleaned = @ + 1]
          /\ recs' = [recs EXCEPT ![session.cleaned + 1] = Cleaned(@)]
     ELSE /\ session' = [session EXCEPT !.step = "gone"]
          /\ recs' = IF Owned THEN [r \in DOMAIN recs |-> Cleaned(recs[r])] ELSE recs
  /\ UNCHANGED <<wire, page, dl>>

\* An rm rejects, and so does the removal: what it had not reached stays.
DeletionFails ==
  /\ session.step = "removing"
  /\ session' = [session EXCEPT !.step = "left", !.cleaned = 0]
  /\ UNCHANGED <<recs, wire, page, dl>>

\* A later sweep removes old partial files that no session claims.
SweepPartials ==
  /\ ~Live /\ recs' = [r \in DOMAIN recs |-> [recs[r] EXCEPT !.partial = <<>>]]
  /\ UNCHANGED <<session, wire, page, dl>>

-----------------------------------------------------------------------------

ChunkStep(r) ==
  StatPartial(r) \/ PassByte(r) \/ BreakOff(r) \/ EndChunk(r) \/ SyncPartial(r) \/ RenamePartial(r)

PageStep(u) == Register(u) \/ AddRecord(u) \/ SendChunk(u) \/ Look(u) \/ Poll(u)

Records == 1 .. MaxFiles + Cardinality(Uploaders)
Header == {Omitted} \union (0 .. Size)

Next ==
  \/ \E r \in Records \intersect DOMAIN recs :
       \/ ChunkStep(r)
       \/ \E d \in Browsers, first, last \in Header : Download(d, r, first, last)
  \/ \E u \in Uploaders : PageStep(u) \/ PutArrives(u) \/ GiveUp(u)
  \/ \E u \in Uploaders, f \in Files : StartUpload(u, f)
  \/ \E d \in Browsers : EndDownload(d) \/ CutOff(d)
  \/ RemoveSession \/ DeleteTemporary \/ DeletionFails \/ SweepPartials

Spec == Init /\ [][Next]_vars

\* Files and requests are worked on, and requests arrive, fail or are answered;
\* the user need not do anything, and a connection need not fail.
Fairness ==
  /\ \A u \in Uploaders : WF_vars(PageStep(u) \/ PutArrives(u))
  /\ WF_vars(\E r \in DOMAIN recs : ChunkStep(r))

FairSpec == Spec /\ Fairness

-----------------------------------------------------------------------------
(* Properties.                                                              *)

\* What was received is on disk and in the hash, in order, and a finished file
\* is whole with the digest of its bytes, over chunks that break off at any
\* byte, late and repeated requests, two pages at one file and truncations that
\* fail (appendUploadChunk, finalizeUpload).
ReceivedIsKept ==
  \A r \in DOMAIN recs :
    LET rec == recs[r]
        kept == SubSeq(Content, 1, rec.received)
    IN  /\ rec.ready => rec.sum = Content /\ rec.stored \in {Content, <<>>}
        /\ ~rec.ready /\ rec.put.step # "stream" =>
             rec.hash = kept /\ (Live => IsPrefix(kept, rec.partial))

\* After a removal that no rm cut short nothing of an unfinished file is left on
\* disk, whatever was under way; a partial file that a late chunk made again holds
\* zeros only (removeSession, the abort signal).
NoBytesLeft ==
  session.step = "gone" =>
    \A r \in DOMAIN recs :
      /\ ToSet(recs[r].partial) \subseteq {0}
      /\ Owned => recs[r].stored = <<>>

\* A browser gets the bytes that its header asks for, as many as announced, is
\* refused only when there are none, and the file counts as complete when its
\* last byte was among them (parseByteRange, sendSessionFile).
RangesServed ==
  \A d \in Browsers :
    LET wanted == IF dl[d].first = Omitted /\ dl[d].last = Omitted THEN 0 .. Size - 1
                  ELSE Wanted(dl[d].first, dl[d].last, Size)
    IN  /\ dl[d].step = "done" =>
             /\ dl[d].got = wanted
             /\ Cardinality(wanted) = dl[d].range.end - dl[d].range.start + 1
             /\ dl[d].complete = (Size - 1 \in wanted)
        /\ dl[d].step = "refused" => wanted = {}

\* Every upload ends, saved or failed, however often requests are refused or
\* lost: each offset that is taken over is further on (uploadFileChunks).
UploadsEnd == \A u \in Uploaders : page[u].step \notin Ended ~> page[u].step \in Ended

=============================================================================
