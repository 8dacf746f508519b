------------------------ MODULE LegacySessionsProofs ------------------------
(***************************************************************************)
(* Proofs about the sessions of the legacy routes, for any pages, browsers *)
(* and files, sizes of file and chunk, and bounds.                         *)
(*                                                                         *)
(* RecOK says how the hash, the partial file and the offset of a record    *)
(* belong together at every step of a chunk: while the session lives, what *)
(* was received is on disk; while a chunk streams, the hash to go back to  *)
(* is kept beside it; from the fsync on, the partial file is whole or has  *)
(* been deleted, so that a late rename brings no bytes back.               *)
(***************************************************************************)
EXTENDS LegacySessions, FiniteSetTheorems, SequenceTheorems, TLAPS

-----------------------------------------------------------------------------
(* The range arithmetic of ByteRanges, for every size up to MAX_SAFE_INTEGER *)
(* where TLC runs it on a file of two or three bytes.                        *)

\* A range that survives the judgement is the part of it that the file has, and
\* one that does not has no byte of the file.
LEMMA JudgedIsCut ==
  ASSUME NEW size \in Nat, NEW start \in Nat, NEW end \in Int
  PROVE  Bytes(Judged([start |-> start, end |-> end], size))
           = {b \in 0 .. size - 1 : start <= b /\ b <= end}
<1> DEFINE range == [start |-> start, end |-> end]
<1>1. CASE start < size /\ start <= end
  <2>1. Judged(range, size) = [start |-> start, end |-> Lesser(end, size - 1)]
    BY <1>1 DEF Judged
  <2>2. Bytes(Judged(range, size)) = start .. Lesser(end, size - 1)
    BY <2>1 DEF Bytes
  <2> QED BY <2>2, SMT DEF Lesser
<1>2. CASE ~(start < size /\ start <= end)
  <2>1. Judged(range, size) = NoRange
    BY <1>2 DEF Judged
  <2>2. Bytes(Judged(range, size)) = {}
    BY <2>1 DEF Bytes, NoRange
  <2> QED BY <2>2, <1>2, SMT
<1> QED BY <1>1, <1>2

\* For every size and every header that carries a number, the bytes served are
\* those the header asks for and the file has; a suffix longer than the file is
\* the file, and an empty answer is given only when no byte is asked for
\* (parseByteRange).
THEOREM ServedRangesAreExact == RangesAreExact
<1> USE MaxSafeIsNat
<1> SUFFICES ASSUME NEW size \in 0 .. MaxSafe,
                    NEW first \in {Omitted} \union (0 .. MaxSafe),
                    NEW last \in {Omitted} \union (0 .. MaxSafe)
             PROVE  Bytes(ByteRange(first, last, size)) = Wanted(first, last, size)
  BY DEF RangesAreExact
<1>1. CASE size = 0
  <2>1. ByteRange(first, last, size) = NoRange
    BY <1>1 DEF ByteRange
  <2>2. Bytes(NoRange) = {}
    BY DEF Bytes, NoRange
  <2>3. Wanted(first, last, size) = {}
    BY <1>1, SMT DEF Wanted
  <2> QED BY <2>1, <2>2, <2>3
<1>2. CASE size > 0 /\ first = Omitted /\ last <= 0
  <2>1. ByteRange(first, last, size) = NoRange
    BY <1>2, SMT DEF ByteRange, Omitted
  <2>2. Bytes(NoRange) = {}
    BY DEF Bytes, NoRange
  <2>3. Wanted(first, last, size) = {}
    BY <1>2, SMT DEF Wanted, Omitted
  <2> QED BY <2>1, <2>2, <2>3
<1>3. CASE size > 0 /\ (first = Omitted => last > 0)
  <2> DEFINE start == IF first = Omitted THEN Greater(0, size - last) ELSE first
             end == IF first # Omitted /\ last # Omitted THEN last ELSE size - 1
  <2>1. start \in Nat /\ end \in Int
    BY <1>3, SMT DEF Greater, Omitted
  <2>2. Resolved(first, last, size) = [start |-> start, end |-> end]
    BY DEF Resolved
  <2>3. Safe(size) /\ Safe(first) /\ Safe(last)
    BY SMT DEF Safe, Omitted
  <2>4. ByteRange(first, last, size) = Judged([start |-> start, end |-> end], size)
    BY <1>3, <2>2, <2>3 DEF ByteRange
  <2>5. Bytes(ByteRange(first, last, size)) = {b \in 0 .. size - 1 : start <= b /\ b <= end}
    BY <2>1, <2>4, JudgedIsCut
  <2>6. {b \in 0 .. size - 1 : start <= b /\ b <= end} = Wanted(first, last, size)
    BY <1>3, SMT DEF Wanted, Greater, Omitted
  <2> QED BY <2>5, <2>6
<1> QED BY <1>1, <1>2, <1>3, SMT DEF Omitted

\* For every file and chunk size the chunks follow one another without a gap or
\* a byte sent twice, none is longer than allowed, and the server takes their
\* Content-Range (nextChunkRange, parseContentRange).
THEOREM ChunksAreExact == ChunksFollow
<1> USE MaxSafeIsNat
<1> SUFFICES ASSUME NEW total \in 0 .. MaxSafe, NEW chunk \in 0 .. MaxSafe,
                    NEW offset \in 0 .. MaxSafe, chunk > 0, offset <= total
             PROVE  LET range == NextChunk(total, offset, chunk)
                    IN  /\ Bytes(range) = {b \in offset .. total - 1 : b < offset + chunk}
                        /\ offset < total => ContentRange(range.start, range.end, total)
  BY DEF ChunksFollow
<1>1. CASE offset = total
  <2>1. Bytes(NextChunk(total, offset, chunk)) = {}
    BY <1>1 DEF NextChunk, Bytes, NoRange
  <2> QED BY <1>1, <2>1, SMT
<1>2. CASE offset < total
  <2> DEFINE end == Lesser(total, offset + chunk) - 1
  <2>1. NextChunk(total, offset, chunk) = [start |-> offset, end |-> end]
    BY <1>2 DEF NextChunk
  <2>2. offset .. end = {b \in offset .. total - 1 : b < offset + chunk}
    BY SMT DEF Lesser
  <2>3. ContentRange(offset, end, total)
    BY <1>2, SMT DEF ContentRange, Safe, Lesser
  <2> QED BY <2>1, <2>2, <2>3 DEF Bytes
<1> QED BY <1>1, <1>2, SMT

-----------------------------------------------------------------------------
(* The inductive invariant of the sessions.                                  *)

Upto(n) == [b \in 1 .. n |-> b]

Steps == {"none", "stat", "stream", "sync", "rename"}
PutType == [step : Steps, by : Uploaders \union {"nobody"}, start : Nat, end : Nat,
            back : Bodies]
RecType == [file : Files, received : 0 .. Size, ready : BOOLEAN, partial : Bodies,
            hash : Bodies, sum : Bodies, stored : Bodies, put : PutType]

\* The first n bytes of the file are on disk.
Holds(partial, n) == Len(partial) >= n /\ \A b \in 1 .. n : partial[b] = b

\* The hash and, in a live session, the partial file have got to n.
Streaming(rec, live) ==
  \E n \in rec.received .. rec.put.end + 1 :
    rec.hash = Upto(n) /\ (live => rec.partial = Upto(n))

\* An unfinished record, by the step of the chunk that is written to it.
Pending(rec, live) ==
  /\ rec.stored = <<>>
  /\ live => Holds(rec.partial, rec.received)
  /\ rec.put.step # "stream" => rec.hash = Upto(rec.received)
  /\ rec.put.step \in {"stat", "stream"} =>
       /\ rec.put.start = rec.received /\ rec.put.start <= rec.put.end /\ rec.put.end < Size
       /\ rec.put.back = Upto(rec.received)
  /\ rec.put.step = "stream" => Streaming(rec, live)
  /\ rec.put.step \in {"sync", "rename"} =>
       rec.received = Size /\ rec.partial \in {Content, <<>>}

Finished(rec) ==
  /\ rec.put.step = "none" /\ rec.sum = Content /\ rec.stored \in {Content, <<>>}
  /\ rec.partial = <<>>

RecOK(rec, live) ==
  /\ rec \in RecType
  /\ rec.ready => Finished(rec)
  /\ ~ rec.ready => Pending(rec, live)

Emptied(rec) == ToSet(rec.partial) \subseteq {0} /\ (Owned => rec.stored = <<>>)

\* The records that the removal of the session has been at.
Removed(r) ==
  session.step = "gone" \/ (session.step = "removing" /\ r <= session.cleaned)

SessionType == [kind : {"upload", "send", "source"}, step : {"live", "removing", "left", "gone"},
                cleaned : Nat]
SessionInv ==
  /\ session \in SessionType
  /\ Live => session.cleaned = 0
  /\ session.step = "removing" => session.cleaned <= Len(recs)

RecsInv ==
  /\ recs \in Seq(RecType)
  /\ session.kind = "send" => recs # <<>>
  /\ \A r \in DOMAIN recs : RecOK(recs[r], Live) /\ (Removed(r) => Emptied(recs[r]))

MessageType == [rec : Nat, start : Nat, end : Nat]
Busy == {"send", "sent", "look", "wait"}
PageType == [step : Ended \union Busy \union {"register", "adding"}, file : Files \union {"none"},
             rec : Nat, offset : 0 .. Size, ready : BOOLEAN, attempt : Nat, polls : Nat,
             starts : Nat]

\* A page, its request and the chunk that it waits for are about one record.
PageOK(u) ==
  /\ page[u].step \in {"register", "adding"} => page[u].file \in Files
  /\ page[u].step \in Busy => page[u].rec \in DOMAIN recs
  /\ wire[u] # NoMessage => wire[u].rec \in DOMAIN recs
  /\ page[u].step = "sent" => wire[u] = NoMessage \/ wire[u].rec = page[u].rec
  /\ \A r \in DOMAIN recs :
       recs[r].put.by = u => page[u].step = "sent" /\ page[u].rec = r /\ wire[u] = NoMessage

PagesInv ==
  /\ wire \in [Uploaders -> MessageType] /\ page \in [Uploaders -> PageType]
  /\ \A u \in Uploaders : PageOK(u)

RangeOf(first, last) ==
  IF first = Omitted /\ last = Omitted THEN [start |-> 0, end |-> Size - 1]
  ELSE ByteRange(first, last, Size)

DownloadType ==
  [step : {"idle", "stream", "done", "refused"}, rec : Nat, first : Header, last : Header,
   range : [start : Int, end : Int], got : SUBSET Int, complete : BOOLEAN, asked : Nat]

\* What a download streams or has got is the range of its header.
Served(get) ==
  /\ get.step # "idle" => get.range = RangeOf(get.first, get.last)
  /\ get.step \in {"stream", "done"} => get.range # NoRange
  /\ get.step = "refused" => get.range = NoRange
  /\ get.step = "done" =>
       /\ get.got = Bytes(get.range) \intersect (0 .. Size - 1)
       /\ get.complete <=> get.range.end = Size - 1

DownloadsInv ==
  dl \in [Browsers -> DownloadType] /\ \A d \in Browsers : Served(dl[d])

LegacyInv == SessionInv /\ RecsInv /\ PagesInv /\ DownloadsInv

-----------------------------------------------------------------------------
(* Bytes.                                                                   *)

\* The bodies are the sequences of bytes that are no longer than a file.
LEMMA BodiesAreSeqs ==
  ASSUME NEW s
  PROVE  s \in Bodies <=> s \in Seq(0 .. Size) /\ Len(s) <= Size
<1>1. ASSUME s \in Bodies
      PROVE  s \in Seq(0 .. Size) /\ Len(s) <= Size
  <2>1. PICK n \in 0 .. Size : s \in [1 .. n -> 0 .. Size]
    BY <1>1 DEF Bodies
  <2> QED
    BY <2>1, LegacyBounds
<1>2. ASSUME s \in Seq(0 .. Size), Len(s) <= Size
      PROVE  s \in Bodies
  <2>1. Len(s) \in 0 .. Size /\ s \in [1 .. Len(s) -> 0 .. Size]
    BY <1>2, LegacyBounds
  <2> QED
    BY <2>1 DEF Bodies
<1> QED
  BY <1>1, <1>2

\* A body has a length, and a byte at each place.
LEMMA BodyFacts ==
  ASSUME NEW s \in Bodies
  PROVE  /\ s \in Seq(0 .. Size) /\ Len(s) \in 0 .. Size /\ DOMAIN s = 1 .. Len(s)
         /\ \A b \in 1 .. Len(s) : s[b] \in 0 .. Size
         /\ ToSet(s) = {s[b] : b \in 1 .. Len(s)}
<1>1. s \in Seq(0 .. Size) /\ Len(s) <= Size
  BY BodiesAreSeqs
<1>2. Len(s) \in Nat /\ DOMAIN s = 1 .. Len(s)
  BY <1>1
<1> QED
  BY <1>1, <1>2, LegacyBounds DEF ToSet

\* The first n bytes of the file are a body of length n; the file is Upto(Size).
LEMMA UptoIsBody ==
  ASSUME NEW n \in 0 .. Size
  PROVE  /\ Upto(n) \in Bodies /\ Len(Upto(n)) = n
         /\ \A b \in 1 .. n : Upto(n)[b] = b
<1>1. Upto(n) \in [1 .. n -> 0 .. Size]
  BY LegacyBounds DEF Upto
<1>2. Upto(n) \in Bodies
  BY <1>1 DEF Bodies
<1>3. Len(Upto(n)) \in Nat /\ DOMAIN Upto(n) = 1 .. Len(Upto(n)) /\ DOMAIN Upto(n) = 1 .. n
  BY <1>1, <1>2, BodyFacts
<1>4. n \in Nat
  BY LegacyBounds
<1>5. \A k, m \in Nat : 1 .. k = 1 .. m => k = m
  <2> SUFFICES ASSUME NEW k \in Nat, NEW m \in Nat, 1 .. k = 1 .. m
               PROVE  k <= m /\ m <= k
    BY SMT
  <2>1. k > 0 => k \in 1 .. k
    BY SMT
  <2>2. m > 0 => m \in 1 .. m
    BY SMT
  <2>3. (k > 0 => k \in 1 .. m) /\ (m > 0 => m \in 1 .. k)
    BY <2>1, <2>2
  <2> QED
    BY <2>3, SMT
<1>6. Len(Upto(n)) = n
  BY <1>3, <1>4, <1>5
<1> QED
  BY <1>2, <1>6 DEF Upto

LEMMA ContentIsUpto == Content = Upto(Size) /\ Content \in Bodies /\ Content # <<>>
                       /\ 0 \in 0 .. Size /\ Size \in 0 .. Size /\ <<>> \in Bodies
                       /\ <<>> = Upto(0)
<1>1. 0 \in 0 .. Size /\ Size \in 0 .. Size
  BY LegacyBounds
<1>2. Content = Upto(Size)
  BY DEF Content, Upto
<1>3. Upto(Size) \in Bodies /\ Len(Upto(Size)) = Size
  BY <1>1, UptoIsBody
<1>4. Upto(0) \in Bodies /\ Len(Upto(0)) = 0
  BY <1>1, UptoIsBody
<1>5. Upto(0) = <<>>
  BY <1>4, BodyFacts
<1>6. Content # <<>>
  BY <1>2, <1>3, LegacyBounds
<1> QED
  BY <1>1, <1>2, <1>3, <1>4, <1>5, <1>6

\* One byte more.
LEMMA UptoGrows ==
  ASSUME NEW n \in 0 .. Size - 1
  PROVE  Append(Upto(n), Len(Upto(n)) + 1) = Upto(n + 1)
<1>1. n \in 0 .. Size /\ n + 1 \in 0 .. Size /\ n + 1 \in 1 .. Size
  BY LegacyBounds
<1>2. Upto(n) \in Seq(0 .. Size) /\ Len(Upto(n)) = n /\ Upto(n + 1) \in Seq(0 .. Size)
      /\ Len(Upto(n + 1)) = n + 1
  BY <1>1, UptoIsBody, BodyFacts
<1>3. /\ Append(Upto(n), n + 1) \in Seq(0 .. Size)
      /\ Len(Append(Upto(n), n + 1)) = n + 1
      /\ \A b \in 1 .. n : Append(Upto(n), n + 1)[b] = Upto(n)[b]
      /\ Append(Upto(n), n + 1)[n + 1] = n + 1
  BY <1>1, <1>2, AppendProperties
<1>4. \A b \in 1 .. n + 1 : Append(Upto(n), n + 1)[b] = Upto(n + 1)[b]
  <2> SUFFICES ASSUME NEW b \in 1 .. n + 1
               PROVE  Append(Upto(n), n + 1)[b] = Upto(n + 1)[b]
    OBVIOUS
  <2>1. Upto(n + 1)[b] = b
    BY <1>1, UptoIsBody
  <2>2. CASE b = n + 1
    BY <1>3, <2>1, <2>2
  <2>3. CASE b \in 1 .. n
    BY <1>1, <1>3, <2>1, <2>3, UptoIsBody
  <2> HIDE DEF Upto
  <2>4. b = n + 1 \/ b \in 1 .. n
    BY <1>1, LegacyBounds, SMT
  <2> QED
    BY <2>2, <2>3, <2>4
<1>5. Append(Upto(n), n + 1) = Upto(n + 1)
  BY <1>2, <1>3, <1>4, SeqEqual
<1> QED
  BY <1>2, <1>5

\* What is held is a prefix of the partial file.
LEMMA HeldIsPrefix ==
  ASSUME NEW partial \in Bodies, NEW n \in 0 .. Size
  PROVE  /\ SubSeq(Content, 1, n) = Upto(n)
         /\ Holds(partial, n) => IsPrefix(Upto(n), partial)
<1>1. n \in Int /\ n \in Nat /\ Size \in Nat
  BY LegacyBounds
<1>2. \A b \in 1 .. n : Content[b] = b
  BY <1>1 DEF Content
<1>3. SubSeq(Content, 1, n) = Upto(n)
  BY <1>1, <1>2, SMT DEF Upto
<1>4. ASSUME Holds(partial, n)
      PROVE  IsPrefix(Upto(n), partial)
  <2>1. Len(Upto(n)) = n /\ Len(partial) \in Nat
    BY UptoIsBody, BodyFacts
  <2>2. SubSeq(Upto(n), 1, n) = Upto(n)
    BY <1>1, SMT DEF Upto
  <2>3. SubSeq(partial, 1, n) = Upto(n)
    BY <1>1, <1>4, SMT DEF Upto, Holds
  <2> QED
    BY <1>4, <2>1, <2>2, <2>3 DEF IsPrefix, Holds
<1> QED
  BY <1>3, <1>4

\* A partial file that is no longer than what it holds is that.
LEMMA HeldIsAll ==
  ASSUME NEW partial \in Bodies, NEW n \in 0 .. Size, Holds(partial, n), Len(partial) = n
  PROVE  partial = Upto(n)
<1>1. partial \in Seq(0 .. Size) /\ Upto(n) \in Seq(0 .. Size) /\ Len(Upto(n)) = n
  BY BodyFacts, UptoIsBody
<1>2. \A b \in 1 .. n : partial[b] = Upto(n)[b]
  BY UptoIsBody DEF Holds
<1> QED
  BY <1>1, <1>2, SeqEqual

\* truncate() gives a body of that length, which keeps the bytes of the file
\* and turns nothing into bytes of the file.
LEMMA TruncatedBody ==
  ASSUME NEW partial \in Bodies, NEW n \in 0 .. Size
  PROVE  /\ Truncated(partial, n) \in Bodies
         /\ Holds(partial, n) => Truncated(partial, n) = Upto(n)
         /\ ToSet(partial) \subseteq {0} => ToSet(Truncated(partial, n)) \subseteq {0}
<1> DEFINE cut == Truncated(partial, n)
<1>1. Len(partial) \in 0 .. Size /\ \A b \in 1 .. Len(partial) : partial[b] \in 0 .. Size
  BY BodyFacts
<1>2. cut \in [1 .. n -> 0 .. Size]
  BY <1>1, LegacyBounds DEF Truncated
<1>3. cut \in Bodies
  BY <1>2 DEF Bodies
<1>4. ASSUME Holds(partial, n)
      PROVE  cut = Upto(n)
  BY <1>1, <1>4, LegacyBounds DEF Truncated, Upto, Holds
<1>5. ASSUME ToSet(partial) \subseteq {0}
      PROVE  ToSet(cut) \subseteq {0}
  <2>1. \A b \in 1 .. Len(partial) : partial[b] = 0
    BY <1>5, BodyFacts
  <2>2. DOMAIN cut = 1 .. n /\ \A b \in 1 .. n : cut[b] = 0
    BY <1>1, <2>1, LegacyBounds DEF Truncated
  <2> HIDE DEF cut
  <2> QED
    BY <2>2 DEF ToSet
<1> QED
  BY <1>3, <1>4, <1>5

\* A partial file that holds the file, or nothing, and only zeros is empty.
LEMMA ZerosAreNotContent ==
  ASSUME NEW partial \in {Content, <<>>}, ToSet(partial) \subseteq {0}
  PROVE  partial = <<>>
<1>1. CASE partial = Content
  <2>1. 1 \in 1 .. Size /\ Content[1] = 1 /\ 1 \in DOMAIN Content
    BY LegacyBounds DEF Content
  <2>2. 1 \in ToSet(Content)
    BY <2>1 DEF ToSet
  <2> QED
    BY <1>1, <2>2
<1> QED
  BY <1>1

-----------------------------------------------------------------------------
(* One record is written.                                                   *)

\* What the invariant says of one record.
LEMMA RecordFacts ==
  ASSUME LegacyInv, NEW r \in DOMAIN recs
  PROVE  /\ recs[r] \in RecType /\ recs[r].put \in PutType
         /\ RecOK(recs[r], Live) /\ (Removed(r) => Emptied(recs[r]))
         /\ Len(recs) \in Nat /\ DOMAIN recs = 1 .. Len(recs) /\ r \in 1 .. Len(recs)
<1>1. recs \in Seq(RecType)
  BY DEF LegacyInv, RecsInv
<1>2. Len(recs) \in Nat /\ DOMAIN recs = 1 .. Len(recs) /\ recs[r] \in RecType
  BY <1>1
<1>3. recs[r].put \in PutType
  BY <1>2 DEF RecType
<1> QED
  BY <1>2, <1>3 DEF LegacyInv, RecsInv

\* A record that is right replaces another.
LEMMA RecordWritten ==
  ASSUME LegacyInv, NEW r \in DOMAIN recs, NEW new,
         recs' = [recs EXCEPT ![r] = new], RecOK(new, Live),
         Removed(r) => Emptied(new), UNCHANGED session
  PROVE  /\ SessionInv' /\ RecsInv' /\ DOMAIN recs' = DOMAIN recs /\ recs'[r] = new
         /\ \A k \in DOMAIN recs \ {r} : recs'[k] = recs[k]
<1>1. recs \in Seq(RecType) /\ new \in RecType /\ r \in 1 .. Len(recs)
  BY RecordFacts DEF LegacyInv, RecsInv, RecOK
<1>2. recs' \in Seq(RecType) /\ Len(recs') = Len(recs)
  BY <1>1, ExceptSeq
<1>3. DOMAIN recs' = DOMAIN recs /\ recs'[r] = new
      /\ \A k \in DOMAIN recs \ {r} : recs'[k] = recs[k]
  OBVIOUS
<1>4. SessionInv'
  BY <1>2 DEF LegacyInv, SessionInv, Live
<1>5. (session.kind = "send" => recs # <<>>)'
  <2>1. recs # <<>> /\ recs' # <<>>
    BY <1>1, <1>2
  <2> QED
    BY <2>1
<1>6. \A k \in DOMAIN recs' : RecOK(recs'[k], Live) /\ (Removed(k) => Emptied(recs'[k]))
  BY <1>3 DEF LegacyInv, RecsInv
<1>7. (Live <=> Live') /\ (\A k : Removed(k) <=> Removed(k)') /\ (Owned <=> Owned')
  BY DEF Live, Removed, Owned
<1>8. \A k \in DOMAIN recs' : RecOK(recs'[k], Live') /\ (Removed(k)' => Emptied(recs[k])')
  <2> SUFFICES ASSUME NEW k \in DOMAIN recs'
               PROVE  RecOK(recs'[k], Live') /\ (Removed(k)' => Emptied(recs[k])')
    OBVIOUS
  <2>1. Live' = Live
    BY DEF Live
  <2>2. Emptied(recs'[k]) => Emptied(recs[k])'
    BY <1>7 DEF Emptied
  <2> QED
    BY <1>6, <1>7, <2>1, <2>2
<1> QED
  BY <1>2, <1>3, <1>4, <1>5, <1>8 DEF RecsInv

\* Records and session that stay as they are.
LEMMA SessionStays ==
  ASSUME LegacyInv, UNCHANGED <<session, recs>>
  PROVE  SessionInv' /\ RecsInv'
<1>1. (Live <=> Live') /\ (Owned <=> Owned') /\ \A r : Removed(r) <=> Removed(r)'
  BY DEF Live, Owned, Removed
<1>2. Live' = Live
  BY DEF Live
<1>3. \A r : Emptied(recs[r]) <=> Emptied(recs[r])'
  BY <1>1 DEF Emptied
<1> QED
  BY <1>1, <1>2, <1>3 DEF LegacyInv, SessionInv, RecsInv

\* Every record is replaced by one that is right, and the session may end.
LEMMA RecordsMapped ==
  ASSUME LegacyInv, recs' = [r \in DOMAIN recs |-> recs'[r]],
         session' \in SessionType, session'.kind = session.kind,
         session'.step = "live" => session'.cleaned = 0,
         session'.step = "removing" => session'.cleaned <= Len(recs),
         \A r \in DOMAIN recs :
           RecOK(recs'[r], session'.step = "live") /\ (Removed(r)' => Emptied(recs'[r]))
  PROVE  SessionInv' /\ RecsInv' /\ DOMAIN recs' = DOMAIN recs
<1>1. recs \in Seq(RecType) /\ Len(recs) \in Nat /\ DOMAIN recs = 1 .. Len(recs)
      /\ (session.kind = "send" => Len(recs) # 0)
  BY DEF LegacyInv, RecsInv
<1>2. DOMAIN recs' = DOMAIN recs
  OBVIOUS
<1>3. \A r \in 1 .. Len(recs) : recs'[r] \in RecType
  BY <1>1 DEF RecOK
<1>4. recs' \in Seq(RecType) /\ Len(recs') = Len(recs)
  BY <1>1, <1>2, <1>3
<1>5. (session.kind = "send" => recs # <<>>)'
  <2>1. Len(recs) # 0 => recs' # <<>>
    BY <1>4
  <2> QED
    BY <1>1, <2>1
<1>6. \A r \in DOMAIN recs : Emptied(recs'[r]) <=> Emptied(recs[r])'
  BY DEF Emptied, Owned
<1>7. \A r \in DOMAIN recs' : RecOK(recs'[r], Live') /\ (Removed(r)' => Emptied(recs[r])')
  BY <1>2, <1>6 DEF Live
<1>8. SessionInv'
  BY <1>4 DEF SessionInv, Live
<1> QED
  BY <1>2, <1>4, <1>5, <1>7, <1>8 DEF RecsInv

\* A page that goes on, or counts an attempt or a poll, keeps its type.
LEMMA PageMoves ==
  ASSUME NEW p \in PageType
  PROVE  /\ \A offset \in 0 .. Size, ready \in BOOLEAN :
              [p EXCEPT !.step = "send", !.attempt = 0, !.offset = offset, !.ready = ready]
                \in PageType
         /\ [p EXCEPT !.step = "look", !.attempt = @ + 1] \in PageType
         /\ [p EXCEPT !.polls = @ + 1] \in PageType
<1>1. \A offset \in 0 .. Size, ready \in BOOLEAN :
        [p EXCEPT !.step = "send", !.attempt = 0, !.offset = offset, !.ready = ready]
          \in PageType
  BY DEF PageType, Busy
<1>2. [p EXCEPT !.step = "look", !.attempt = @ + 1] \in PageType
  <2>1. p.attempt + 1 \in Nat
    BY DEF PageType
  <2>2. \A n \in Nat : [p EXCEPT !.step = "look", !.attempt = n] \in PageType
    BY DEF PageType, Busy
  <2>3. [p EXCEPT !.step = "look", !.attempt = p.attempt + 1] \in PageType
    BY <2>1, <2>2, Zenon
  <2>4. [p EXCEPT !.step = "look", !.attempt = @ + 1]
          = [p EXCEPT !.step = "look", !.attempt = p.attempt + 1]
    BY DEF PageType
  <2> QED
    BY <2>3, <2>4, Zenon
<1>3. [p EXCEPT !.polls = @ + 1] \in PageType
  <2>1. p.polls + 1 \in Nat
    BY DEF PageType
  <2>2. \A n \in Nat : [p EXCEPT !.polls = n] \in PageType
    BY DEF PageType, Busy
  <2>3. [p EXCEPT !.polls = p.polls + 1] \in PageType
    BY <2>1, <2>2, Zenon
  <2>4. [p EXCEPT !.polls = @ + 1] = [p EXCEPT !.polls = p.polls + 1]
    BY DEF PageType
  <2> QED
    BY <2>3, <2>4, Zenon
<1> QED
  BY <1>1, <1>2, <1>3

\* The chunk that a page waits for is over: the page goes on.
LEMMA ToldKeeps ==
  ASSUME LegacyInv, NEW r \in DOMAIN recs, NEW ok \in BOOLEAN, Told(r, ok), UNCHANGED wire,
         DOMAIN recs' = DOMAIN recs, recs'[r] \in RecType, recs'[r].put.by = "nobody",
         \A k \in DOMAIN recs \ {r} : recs'[k] = recs[k]
  PROVE  PagesInv'
<1>1. PICK offset \in 0 .. Size, ready \in BOOLEAN :
        recs'[r].received = offset /\ recs'[r].ready = ready
  BY DEF RecType
<1>2. wire \in [Uploaders -> MessageType] /\ page \in [Uploaders -> PageType]
      /\ \A u \in Uploaders : PageOK(u)
  BY DEF LegacyInv, PagesInv
<1>3. ASSUME NEW u \in Uploaders
      PROVE  page'[u] \in PageType /\ PageOK(u)'
  <2>1. page[u] \in PageType /\ PageOK(u)
    BY <1>2
  <2>2. CASE u # recs[r].put.by
    <3>1. page'[u] = page[u]
      BY <2>2 DEF Told
    <3>2. recs'[r].put.by # u
      BY LegacyBounds
    <3> QED
      BY <2>1, <3>1, <3>2 DEF PageOK
  <2>3. CASE u = recs[r].put.by
    <3>1. page[u].step = "sent" /\ page[u].rec = r /\ wire[u] = NoMessage
      BY <2>1, <2>3 DEF PageOK
    <3>2. \A k \in DOMAIN recs : recs'[k].put.by # u
      BY <2>1, <3>1, LegacyBounds DEF PageOK
    <3>3. CASE ok
      <4>1. page'[u] = [page[u] EXCEPT !.step = "send", !.attempt = 0,
                          !.offset = offset, !.ready = ready]
        BY <1>1, <2>3, <3>3 DEF Told
      <4>2. page'[u].step = "send" /\ page'[u].rec = r
        BY <2>1, <3>1, <4>1 DEF PageType
      <4>3. [page[u] EXCEPT !.step = "send", !.attempt = 0, !.offset = offset,
                            !.ready = ready] \in PageType
        BY <1>1, <2>1, PageMoves
      <4>4. page'[u] \in PageType
        BY <4>1, <4>3, Zenon
      <4> QED
        BY <3>1, <3>2, <4>2, <4>4 DEF PageOK, Busy
    <3>4. CASE ~ ok
      <4>1. page'[u] = [page[u] EXCEPT !.step = "look", !.attempt = @ + 1]
        BY <2>3, <3>4 DEF Told
      <4>2. page'[u].step = "look" /\ page'[u].rec = r
        BY <2>1, <3>1, <4>1 DEF PageType
      <4>3. page'[u] \in PageType
        BY <2>1, <4>1, PageMoves, Zenon
      <4> QED
        BY <3>1, <3>2, <4>2, <4>3 DEF PageOK, Busy
    <3> QED
      BY <3>3, <3>4
  <2> QED
    BY <2>2, <2>3
<1>4. page' \in [Uploaders -> PageType]
  <2>1. page' = [u \in Uploaders |-> page'[u]]
    BY DEF Told
  <2> QED
    BY <1>3, <2>1
<1> QED
  BY <1>2, <1>3, <1>4 DEF PagesInv

\* A step of a chunk writes its record and may tell the page.
LEMMA ChunkKeeps ==
  ASSUME LegacyInv, NEW r \in DOMAIN recs, NEW new,
         recs' = [recs EXCEPT ![r] = new], RecOK(new, Live),
         Removed(r) => Emptied(new), UNCHANGED <<session, wire, dl>>,
         \/ UNCHANGED page /\ new.put.by = recs[r].put.by
         \/ new.put.by = "nobody" /\ \E ok \in BOOLEAN : Told(r, ok)
  PROVE  LegacyInv'
<1>1. /\ SessionInv' /\ RecsInv' /\ DOMAIN recs' = DOMAIN recs /\ recs'[r] = new
      /\ \A k \in DOMAIN recs \ {r} : recs'[k] = recs[k]
  BY RecordWritten
<1>2. DownloadsInv'
  BY DEF LegacyInv, DownloadsInv
<1>3. CASE UNCHANGED page /\ new.put.by = recs[r].put.by
  <2>1. \A u \in Uploaders : PageOK(u)'
    BY <1>1, <1>3 DEF LegacyInv, PagesInv, PageOK
  <2> QED
    BY <1>1, <1>2, <1>3, <2>1 DEF LegacyInv, PagesInv
<1>4. CASE new.put.by = "nobody" /\ \E ok \in BOOLEAN : Told(r, ok)
  <2>1. PagesInv'
    BY <1>1, <1>4, ToldKeeps DEF RecOK
  <2> QED
    BY <1>1, <1>2, <2>1 DEF LegacyInv
<1> QED
  BY <1>3, <1>4

\* The same for a chunk that is answered.
LEMMA AnsweredKeeps ==
  ASSUME LegacyInv, NEW r \in DOMAIN recs, NEW rec, NEW ok \in BOOLEAN,
         Answered(r, rec, ok), rec \in RecType,
         RecOK([rec EXCEPT !.put = NoPut], Live),
         Removed(r) => Emptied(rec), UNCHANGED <<session, wire, dl>>
  PROVE  LegacyInv'
<1> DEFINE new == [rec EXCEPT !.put = NoPut]
<1>1. recs' = [recs EXCEPT ![r] = new] /\ Told(r, ok)
  BY DEF Answered
<1>2. new.put.by = "nobody" /\ new.partial = rec.partial /\ new.stored = rec.stored
  BY DEF RecType, NoPut
<1>3. Removed(r) => Emptied(new)
  BY <1>2 DEF Emptied
<1>4. RecOK(new, Live)
  OBVIOUS
<1> HIDE DEF new
<1> QED
  BY <1>1, <1>2, <1>3, <1>4, ChunkKeeps

\* A chunk that fails before its stream, or after it, leaves the record as it was.
LEMMA FailureKeeps ==
  ASSUME LegacyInv, NEW r \in DOMAIN recs, ~ recs[r].ready,
         recs[r].put.step \in {"stat", "sync", "rename"},
         Answered(r, recs[r], FALSE), UNCHANGED <<session, wire, dl>>
  PROVE  LegacyInv'
<1> DEFINE new == [recs[r] EXCEPT !.put = NoPut]
<1>1. recs[r] \in RecType /\ RecOK(recs[r], Live) /\ (Removed(r) => Emptied(recs[r]))
  BY RecordFacts
<1>2. NoPut \in PutType
  BY ContentIsUpto DEF NoPut, PutType, Steps
<1>3. new \in RecType
  BY <1>1, <1>2 DEF RecType
<1>4. /\ new.ready = recs[r].ready /\ new.put.step = "none" /\ new.stored = recs[r].stored
      /\ new.partial = recs[r].partial /\ new.received = recs[r].received
      /\ new.hash = recs[r].hash
  BY <1>1 DEF RecType, NoPut
<1>5. RecOK(new, Live)
  BY <1>1, <1>3, <1>4 DEF RecOK, Pending
<1> QED
  BY <1>1, <1>5, AnsweredKeeps

-----------------------------------------------------------------------------
(* The steps of a chunk.                                                    *)

\* The length of the partial file is that of what was received.
LEMMA StatKeeps ==
  ASSUME LegacyInv, NEW r \in DOMAIN recs, StatPartial(r)
  PROVE  LegacyInv'
<1> DEFINE rec == recs[r]
           new == [rec EXCEPT !.put = [rec.put EXCEPT !.step = "stream"]]
<1>1. rec \in RecType /\ rec.put \in PutType /\ RecOK(rec, Live) /\ (Removed(r) => Emptied(rec))
  BY RecordFacts
<1>2. rec.put.step = "stat" /\ ~ rec.ready /\ UNCHANGED <<session, wire, dl>>
  BY <1>1 DEF StatPartial, RecOK, Finished
<1>3. CASE Len(rec.partial) = rec.put.start
  <2>1. recs' = [recs EXCEPT ![r] = new] /\ UNCHANGED page
    BY <1>2, <1>3 DEF StatPartial
  <2>2. [rec.put EXCEPT !.step = "stream"] \in PutType
    BY <1>1 DEF PutType, Steps
  <2>3. new \in RecType
    BY <1>1, <2>2 DEF RecType
  <2>4. /\ new.ready = rec.ready /\ new.stored = rec.stored /\ new.partial = rec.partial
        /\ new.received = rec.received /\ new.hash = rec.hash /\ new.put.step = "stream"
        /\ new.put.start = rec.put.start /\ new.put.end = rec.put.end
        /\ new.put.back = rec.put.back /\ new.put.by = rec.put.by
    BY <1>1 DEF RecType, PutType
  <2>5. rec.received \in 0 .. Size /\ rec.put.end \in Nat /\ rec.partial \in Bodies
    BY <1>1 DEF RecType, PutType
  <2>6. Pending(rec, Live) /\ rec.put.start = rec.received /\ rec.hash = Upto(rec.received)
        /\ rec.received <= rec.put.end /\ rec.put.end < Size
        /\ rec.put.back = Upto(rec.received)
    BY <1>1, <1>2 DEF RecOK, Pending
  <2>7. Live => rec.partial = Upto(rec.received)
    <3> SUFFICES ASSUME Live
                 PROVE  rec.partial = Upto(rec.received)
      OBVIOUS
    <3>1. Holds(rec.partial, rec.received) /\ Len(rec.partial) = rec.received
      BY <1>3, <2>6 DEF Pending
    <3> QED
      BY <2>5, <3>1, HeldIsAll
  <2>8. rec.received \in rec.received .. rec.put.end + 1
    BY <2>5, <2>6, LegacyBounds
  <2>9. Streaming(new, Live)
    BY <2>4, <2>6, <2>7, <2>8 DEF Streaming
  <2>10. RecOK(new, Live)
    BY <1>2, <2>3, <2>4, <2>6, <2>9 DEF RecOK, Pending
  <2>11. Removed(r) => Emptied(new)
    BY <1>1, <2>4 DEF Emptied
  <2> HIDE DEF new
  <2> QED
    BY <1>2, <2>1, <2>4, <2>10, <2>11, ChunkKeeps
<1>4. CASE Len(rec.partial) # rec.put.start
  BY <1>2, <1>4, FailureKeeps DEF StatPartial
<1> QED
  BY <1>3, <1>4

\* A byte goes to the hash and to the partial file, while the session lives.
LEMMA PassKeeps ==
  ASSUME LegacyInv, NEW r \in DOMAIN recs, PassByte(r)
  PROVE  LegacyInv'
<1> DEFINE rec == recs[r]
           at == Len(rec.hash) + 1
           new == [rec EXCEPT !.hash = Append(@, at), !.partial = Append(@, at)]
<1>1. rec \in RecType /\ rec.put \in PutType /\ RecOK(rec, Live) /\ (Removed(r) => Emptied(rec))
  BY RecordFacts
<1>2. rec.put.step = "stream" /\ Live /\ Len(rec.hash) <= rec.put.end /\ ~ rec.ready
      /\ UNCHANGED <<session, wire, page, dl>>
  BY <1>1 DEF PassByte, RecOK, Finished, Aborted
<1>3. recs' = [recs EXCEPT ![r] = new]
  BY DEF PassByte
<1>4. rec.received \in 0 .. Size /\ rec.put.end \in Nat
  BY <1>1 DEF RecType, PutType
<1>5. Pending(rec, TRUE) /\ rec.put.end < Size
  BY <1>1, <1>2 DEF RecOK, Pending
<1>6. PICK n \in rec.received .. rec.put.end + 1 : rec.hash = Upto(n) /\ rec.partial = Upto(n)
  BY <1>2, <1>5 DEF Pending, Streaming
<1>7. n \in 0 .. Size
  BY <1>4, <1>5, LegacyBounds
<1>8. Len(rec.hash) = n
  BY <1>6, <1>7, UptoIsBody
<1>9. n \in 0 .. Size - 1 /\ n + 1 \in 0 .. Size /\ n + 1 \in rec.received .. rec.put.end + 1
      /\ n + 1 >= rec.received
  <2>1. n <= rec.put.end
    BY <1>2, <1>8
  <2>2. rec.received \in Nat /\ n \in Nat /\ Size \in Nat
    BY <1>4, <1>7, LegacyBounds
  <2>3. rec.received <= n
    BY <1>4, <1>6, <2>2
  <2> HIDE DEF rec, at, new
  <2> QED
    BY <1>4, <1>5, <2>1, <2>2, <2>3
<1>10. Append(rec.hash, at) = Upto(n + 1) /\ Append(rec.partial, at) = Upto(n + 1)
  BY <1>6, <1>8, <1>9, UptoGrows
<1>11. new = [rec EXCEPT !.hash = Upto(n + 1), !.partial = Upto(n + 1)]
  BY <1>10
<1>12. Upto(n + 1) \in Bodies /\ Holds(Upto(n + 1), rec.received)
  BY <1>4, <1>9, UptoIsBody, LegacyBounds DEF Holds
<1>13. new \in RecType
  BY <1>1, <1>11, <1>12 DEF RecType
<1>14. /\ new.ready = rec.ready /\ new.stored = rec.stored /\ new.partial = Upto(n + 1)
       /\ new.received = rec.received /\ new.hash = Upto(n + 1) /\ new.put = rec.put
  BY <1>1, <1>11 DEF RecType
<1>15. Streaming(new, Live)
  BY <1>9, <1>14 DEF Streaming
<1>16. RecOK(new, Live)
  BY <1>2, <1>5, <1>12, <1>13, <1>14, <1>15 DEF RecOK, Pending
<1>17. ~ Removed(r)
  BY <1>2 DEF Live, Removed
<1> HIDE DEF new
<1> QED
  BY <1>2, <1>3, <1>14, <1>16, <1>17, ChunkKeeps

\* A chunk that breaks off goes back to where it started.
LEMMA BreakKeeps ==
  ASSUME LegacyInv, NEW r \in DOMAIN recs, BreakOff(r)
  PROVE  LegacyInv'
<1> DEFINE rec == recs[r]
<1>1. rec \in RecType /\ rec.put \in PutType /\ RecOK(rec, Live) /\ (Removed(r) => Emptied(rec))
  BY RecordFacts
<1>2. rec.put.step = "stream" /\ ~ rec.ready /\ UNCHANGED <<session, wire, dl>>
  BY <1>1 DEF BreakOff, RecOK, Finished
<1>3. rec.received \in 0 .. Size /\ rec.put.end \in Nat /\ rec.partial \in Bodies
  BY <1>1 DEF RecType, PutType
<1>4. Pending(rec, Live) /\ rec.put.start = rec.received /\ rec.put.back = Upto(rec.received)
      /\ rec.put.end < Size /\ Streaming(rec, Live)
  BY <1>1, <1>2 DEF RecOK, Pending
<1>5. PICK partial \in {rec.partial, Truncated(rec.partial, rec.put.start)} :
        Answered(r, [rec EXCEPT !.partial = partial, !.hash = HashAfterBreak(rec),
                                !.received = rec.put.start], FALSE)
  BY <1>2 DEF BreakOff
<1> DEFINE undone == [rec EXCEPT !.partial = partial, !.hash = Upto(rec.received),
                                 !.received = rec.received]
           new == [undone EXCEPT !.put = NoPut]
<1>6. Answered(r, undone, FALSE)
  BY <1>4, <1>5 DEF HashAfterBreak
<1>7. partial \in Bodies /\ (ToSet(rec.partial) \subseteq {0} => ToSet(partial) \subseteq {0})
  BY <1>3, <1>4, TruncatedBody
<1>8. Live => Holds(partial, rec.received)
  <2> SUFFICES ASSUME Live
               PROVE  Holds(partial, rec.received)
    OBVIOUS
  <2>1. Holds(rec.partial, rec.received)
    BY <1>4 DEF Pending
  <2>2. CASE partial = rec.partial
    BY <2>1, <2>2
  <2>3. CASE partial = Truncated(rec.partial, rec.put.start)
    <3>1. partial = Upto(rec.received)
      BY <1>3, <1>4, <2>1, <2>3, TruncatedBody
    <3> QED
      BY <1>3, <3>1, UptoIsBody, LegacyBounds DEF Holds
  <2> QED
    BY <2>2, <2>3
<1>9. Upto(rec.received) \in Bodies /\ NoPut \in PutType
  BY <1>3, UptoIsBody, ContentIsUpto DEF NoPut, PutType, Steps
<1>10. undone \in RecType
  BY <1>1, <1>3, <1>7, <1>9 DEF RecType
<1>11. new \in RecType
  BY <1>9, <1>10 DEF RecType
<1>12. /\ new.ready = rec.ready /\ new.stored = rec.stored /\ new.partial = partial
       /\ new.received = rec.received /\ new.hash = Upto(rec.received) /\ new.put.step = "none"
       /\ undone.partial = partial /\ undone.stored = rec.stored
  BY <1>1 DEF RecType, NoPut
<1>13. RecOK(new, Live)
  BY <1>2, <1>4, <1>8, <1>11, <1>12 DEF RecOK, Pending
<1>14. Removed(r) => Emptied(undone)
  BY <1>1, <1>7, <1>12 DEF Emptied
<1> HIDE DEF undone
<1> QED
  BY <1>2, <1>6, <1>10, <1>13, <1>14, AnsweredKeeps

\* A whole chunk counts as received; the last one goes on to the fsync.
LEMMA EndKeeps ==
  ASSUME LegacyInv, NEW r \in DOMAIN recs, EndChunk(r)
  PROVE  LegacyInv'
<1> DEFINE rec == recs[r]
           ended == [rec EXCEPT !.received = rec.put.end + 1]
<1>1. rec \in RecType /\ rec.put \in PutType /\ RecOK(rec, Live)
  BY RecordFacts
<1>2. rec.put.step = "stream" /\ Live /\ ~ rec.ready /\ UNCHANGED <<session, wire, dl>>
  BY <1>1 DEF EndChunk, RecOK, Finished, Aborted
<1>3. rec.received \in 0 .. Size /\ rec.put.end \in Nat
  BY <1>1 DEF RecType, PutType
<1>4. Pending(rec, TRUE) /\ rec.put.end < Size /\ rec.put.start <= rec.put.end
  BY <1>1, <1>2 DEF RecOK, Pending
<1>5. PICK n \in rec.received .. rec.put.end + 1 : rec.hash = Upto(n) /\ rec.partial = Upto(n)
  BY <1>2, <1>4 DEF Pending, Streaming
<1>6. n \in 0 .. Size
  BY <1>3, <1>4, LegacyBounds
<1>7. Len(rec.hash) = n
  BY <1>5, <1>6, UptoIsBody
<1>8. ended.received = rec.put.end + 1 /\ ended.hash = rec.hash
  BY <1>1 DEF RecType
<1>9. n = rec.put.end + 1
  BY <1>7, <1>8 DEF EndChunk
<1>10. ended \in RecType
  BY <1>1, <1>6, <1>9 DEF RecType
<1>11. /\ ended.ready = rec.ready /\ ended.stored = rec.stored /\ ended.partial = Upto(n)
       /\ ended.received = n /\ ended.hash = Upto(n) /\ ended.put = rec.put
  BY <1>1, <1>5, <1>9 DEF RecType
<1>12. Holds(Upto(n), n) /\ ~ Removed(r)
  BY <1>2, <1>6, UptoIsBody, LegacyBounds DEF Holds, Live, Removed
<1>13. CASE n = Size
  <2> DEFINE new == [ended EXCEPT !.put = [ended.put EXCEPT !.step = "sync"]]
  <2>1. recs' = [recs EXCEPT ![r] = new] /\ UNCHANGED page
    BY <1>9, <1>11, <1>13 DEF EndChunk
  <2>2. [ended.put EXCEPT !.step = "sync"] \in PutType
    BY <1>1, <1>11 DEF PutType, Steps
  <2>3. new \in RecType
    BY <1>10, <2>2 DEF RecType
  <2>4. /\ new.ready = rec.ready /\ new.stored = rec.stored /\ new.partial = Upto(n)
        /\ new.received = n /\ new.hash = Upto(n) /\ new.put.step = "sync"
        /\ new.put.by = rec.put.by
    BY <1>1, <1>10, <1>11 DEF RecType, PutType
  <2>5. RecOK(new, Live)
    BY <1>2, <1>4, <1>12, <1>13, <2>3, <2>4, ContentIsUpto DEF RecOK, Pending
  <2> HIDE DEF new
  <2> QED
    BY <1>2, <1>12, <2>1, <2>4, <2>5, ChunkKeeps
<1>14. CASE n # Size
  <2> DEFINE new == [ended EXCEPT !.put = NoPut]
  <2>1. Answered(r, ended, TRUE)
    BY <1>9, <1>11, <1>14 DEF EndChunk
  <2>2. NoPut \in PutType
    BY ContentIsUpto DEF NoPut, PutType, Steps
  <2>3. new \in RecType
    BY <1>10, <2>2 DEF RecType
  <2>4. /\ new.ready = rec.ready /\ new.stored = rec.stored /\ new.partial = Upto(n)
        /\ new.received = n /\ new.hash = Upto(n) /\ new.put.step = "none"
    BY <1>10, <1>11 DEF RecType, NoPut
  <2>5. RecOK(new, Live)
    BY <1>2, <1>4, <1>12, <2>3, <2>4 DEF RecOK, Pending
  <2> HIDE DEF ended
  <2> QED
    BY <1>2, <1>10, <1>12, <2>1, <2>5, AnsweredKeeps
<1> QED
  BY <1>13, <1>14

\* The file is on disk, or the request fails and the bytes stay received.
LEMMA SyncKeeps ==
  ASSUME LegacyInv, NEW r \in DOMAIN recs, SyncPartial(r)
  PROVE  LegacyInv'
<1> DEFINE rec == recs[r]
           new == [rec EXCEPT !.put = [rec.put EXCEPT !.step = "rename"]]
<1>1. rec \in RecType /\ rec.put \in PutType /\ RecOK(rec, Live) /\ (Removed(r) => Emptied(rec))
  BY RecordFacts
<1>2. rec.put.step = "sync" /\ ~ rec.ready /\ UNCHANGED <<session, wire, dl>>
  BY <1>1 DEF SyncPartial, RecOK, Finished
<1>3. CASE recs' = [recs EXCEPT ![r] = new] /\ UNCHANGED page
  <2>1. [rec.put EXCEPT !.step = "rename"] \in PutType
    BY <1>1 DEF PutType, Steps
  <2>2. new \in RecType
    BY <1>1, <2>1 DEF RecType
  <2>3. /\ new.ready = rec.ready /\ new.stored = rec.stored /\ new.partial = rec.partial
        /\ new.received = rec.received /\ new.hash = rec.hash /\ new.put.step = "rename"
        /\ new.put.by = rec.put.by
    BY <1>1 DEF RecType, PutType
  <2>4. RecOK(new, Live)
    BY <1>1, <1>2, <2>2, <2>3 DEF RecOK, Pending
  <2>5. Removed(r) => Emptied(new)
    BY <1>1, <2>3 DEF Emptied
  <2> HIDE DEF new
  <2> QED
    BY <1>2, <1>3, <2>3, <2>4, <2>5, ChunkKeeps
<1>4. CASE Answered(r, rec, FALSE)
  BY <1>2, <1>4, FailureKeeps
<1> QED
  BY <1>2, <1>3, <1>4 DEF SyncPartial

\* The rename delivers the whole file, unless a removal has deleted it.
LEMMA RenameKeeps ==
  ASSUME LegacyInv, NEW r \in DOMAIN recs, RenamePartial(r)
  PROVE  LegacyInv'
<1> DEFINE rec == recs[r]
           saved == [rec EXCEPT !.stored = rec.partial, !.partial = <<>>,
                                !.sum = rec.hash, !.hash = <<>>, !.ready = TRUE]
           new == [saved EXCEPT !.put = NoPut]
<1>1. rec \in RecType /\ rec.put \in PutType /\ RecOK(rec, Live) /\ (Removed(r) => Emptied(rec))
  BY RecordFacts
<1>2. rec.put.step = "rename" /\ ~ rec.ready /\ UNCHANGED <<session, wire, dl>>
  BY <1>1 DEF RenamePartial, RecOK, Finished
<1>3. CASE rec.partial # <<>> /\ Answered(r, saved, TRUE)
  <2>1. rec.partial = Content /\ rec.hash = Content
    BY <1>1, <1>2, <1>3, ContentIsUpto DEF RecOK, Pending
  <2>2. ~ Removed(r)
    BY <1>1, <1>3, <2>1, ZerosAreNotContent DEF Emptied
  <2>3. saved \in RecType
    BY <1>1, <2>1, ContentIsUpto DEF RecType
  <2>4. NoPut \in PutType
    BY ContentIsUpto DEF NoPut, PutType, Steps
  <2>5. new \in RecType
    BY <2>3, <2>4 DEF RecType
  <2>6. /\ new.ready = TRUE /\ new.stored = Content /\ new.partial = <<>>
        /\ new.sum = Content /\ new.put.step = "none"
    BY <1>1, <2>1 DEF RecType, NoPut
  <2>7. RecOK(new, Live)
    BY <2>5, <2>6 DEF RecOK, Finished
  <2> HIDE DEF saved
  <2> QED
    BY <1>2, <1>3, <2>2, <2>3, <2>7, AnsweredKeeps
<1>4. CASE Answered(r, rec, FALSE)
  BY <1>2, <1>4, FailureKeeps
<1> QED
  BY <1>2, <1>3, <1>4 DEF RenamePartial

-----------------------------------------------------------------------------
(* Requests and pages.                                                      *)

\* A chunk arrives and is taken: its record is at work for the page that sent
\* it, as long as that page waits.
LEMMA PutKeeps ==
  ASSUME LegacyInv, NEW u \in Uploaders, PutArrives(u)
  PROVE  LegacyInv'
<1> DEFINE m == wire[u]
           rec == recs[m.rec]
           put == [step |-> IF m.start = 0 THEN "stream" ELSE "stat",
                   by |-> IF page[u].step = "sent" THEN u ELSE "nobody",
                   start |-> m.start, end |-> m.end, back |-> rec.hash]
           new == [rec EXCEPT !.put = put,
                              !.partial = IF m.start = 0 THEN <<>> ELSE rec.partial]
<1>1. /\ m # NoMessage /\ m \in MessageType /\ m.rec \in DOMAIN recs
      /\ wire' = [wire EXCEPT ![u] = NoMessage] /\ UNCHANGED <<session, dl>>
      /\ page[u] \in PageType /\ NoMessage \in MessageType
  BY LegacyBounds DEF PutArrives, LegacyInv, PagesInv, PageOK, NoMessage, MessageType
<1>2. wire' \in [Uploaders -> MessageType]
  BY <1>1 DEF LegacyInv, PagesInv
<1>3. \A v \in Uploaders : PageOK(v) /\ page[v] \in PageType
  BY DEF LegacyInv, PagesInv
<1>4. DownloadsInv'
  BY <1>1 DEF LegacyInv, DownloadsInv
<1>5. \A k \in DOMAIN recs : recs[k].put.by # u
  BY <1>1, <1>3 DEF PageOK
<1>6. CASE Accepts(rec, m)
  <2>1. recs' = [recs EXCEPT ![m.rec] = new] /\ UNCHANGED page
    BY <1>6 DEF PutArrives
  <2>2. rec \in RecType /\ rec.put \in PutType /\ RecOK(rec, Live)
    BY <1>1, RecordFacts
  <2>3. /\ Live /\ ~ rec.ready /\ rec.put.step = "none" /\ m.start = rec.received
        /\ m.start <= m.end /\ m.end < Size
    BY <1>6 DEF Accepts, ContentRange
  <2>4. m.start \in Nat /\ m.end \in Nat /\ m.rec \in Nat
    BY <1>1 DEF MessageType
  <2>5. rec.hash \in Bodies /\ rec.received \in 0 .. Size /\ rec.partial \in Bodies
    BY <2>2 DEF RecType
  <2>6. put \in PutType
    BY <2>4, <2>5 DEF PutType, Steps
  <2>7. (IF m.start = 0 THEN <<>> ELSE rec.partial) \in Bodies
    BY <2>5, ContentIsUpto
  <2> HIDE DEF put
  <2>8. new \in RecType
    BY <2>2, <2>6, <2>7 DEF RecType
  <2>9. /\ new.ready = rec.ready /\ new.stored = rec.stored /\ new.received = rec.received
        /\ new.hash = rec.hash /\ new.put = put
        /\ new.partial = IF m.start = 0 THEN <<>> ELSE rec.partial
    BY <2>2 DEF RecType
  <2>10. /\ put.start = m.start /\ put.end = m.end /\ put.back = rec.hash
         /\ put.step = (IF m.start = 0 THEN "stream" ELSE "stat")
         /\ put.by = (IF page[u].step = "sent" THEN u ELSE "nobody")
    BY DEF put
  <2>11. Pending(rec, TRUE) /\ rec.hash = Upto(rec.received)
    BY <2>2, <2>3 DEF RecOK, Pending
  <2> HIDE DEF new
  <2>12. RecOK(new, Live)
    <3>1. CASE m.start = 0
      <4>1. new.partial = Upto(0) /\ new.received = 0 /\ new.hash = Upto(0)
            /\ new.put.step = "stream"
        BY <2>3, <2>9, <2>10, <2>11, <3>1, ContentIsUpto
      <4>2. 0 \in new.received .. new.put.end + 1
        BY <2>4, <2>9, <2>10, <4>1
      <4>3. Streaming(new, Live)
        BY <4>1, <4>2 DEF Streaming
      <4>4. Holds(new.partial, new.received)
        BY <4>1, ContentIsUpto DEF Holds
      <4> QED
        BY <2>3, <2>8, <2>9, <2>10, <2>11, <4>1, <4>3, <4>4 DEF RecOK, Pending
    <3>2. CASE m.start # 0
      BY <2>3, <2>8, <2>9, <2>10, <2>11, <3>2 DEF RecOK, Pending
    <3> QED
      BY <3>1, <3>2
  <2>13. ~ Removed(m.rec)
    BY <2>3 DEF Live, Removed
  <2>14. /\ SessionInv' /\ RecsInv' /\ DOMAIN recs' = DOMAIN recs /\ recs'[m.rec] = new
         /\ \A k \in DOMAIN recs \ {m.rec} : recs'[k] = recs[k]
    BY <1>1, <2>1, <2>12, <2>13, RecordWritten
  <2>15. ASSUME NEW v \in Uploaders
         PROVE  PageOK(v)'
    <3>1. CASE v = u
      <4>1. wire'[u] = NoMessage
        BY <1>1 DEF LegacyInv, PagesInv
      <4>2. \A k \in DOMAIN recs' : recs'[k].put.by = u
              => k = m.rec /\ page[u].step = "sent" /\ page[u].rec = m.rec
        BY <1>1, <1>3, <1>5, <2>9, <2>10, <2>14, LegacyBounds DEF PageOK
      <4> QED
        BY <1>3, <2>1, <2>14, <3>1, <4>1, <4>2 DEF PageOK
    <3>2. CASE v # u
      <4>1. wire'[v] = wire[v]
        BY <1>1, <3>2
      <4>2. \A k \in DOMAIN recs' : recs'[k].put.by = v => recs[k].put.by = v
        BY <2>9, <2>10, <2>14, <3>2, LegacyBounds
      <4> QED
        BY <1>3, <2>1, <2>14, <4>1, <4>2 DEF PageOK
    <3> QED
      BY <3>1, <3>2
  <2> QED
    BY <1>2, <1>4, <2>1, <2>14, <2>15 DEF LegacyInv, PagesInv
<1>7. CASE ~ Accepts(rec, m)
  <2> DEFINE moved == IF page[u].step # "sent" THEN page[u]
                      ELSE [page[u] EXCEPT !.step = "look", !.attempt = @ + 1]
  <2>1. UNCHANGED recs /\ page' = [page EXCEPT ![u] = moved]
    <3>1. CASE page[u].step # "sent"
      BY <1>1, <1>7, <3>1 DEF PutArrives, LegacyInv, PagesInv
    <3>2. CASE page[u].step = "sent"
      <4>1. UNCHANGED recs /\ page' = [page EXCEPT ![u].step = "look", ![u].attempt = @ + 1]
        BY <1>7, <3>2 DEF PutArrives
      <4>2. page' = [page EXCEPT ![u] = [page[u] EXCEPT !.step = "look", !.attempt = @ + 1]]
        BY <4>1 DEF LegacyInv, PagesInv
      <4> QED
        BY <3>2, <4>1, <4>2
    <3> QED
      BY <3>1, <3>2
  <2>2. moved \in PageType
    BY <1>1, PageMoves
  <2>3. /\ moved.rec = page[u].rec /\ moved.file = page[u].file
        /\ moved.step = (IF page[u].step # "sent" THEN page[u].step ELSE "look")
    BY <1>1 DEF PageType
  <2> HIDE DEF moved
  <2>4. page' \in [Uploaders -> PageType] /\ page'[u] = moved
        /\ \A v \in Uploaders \ {u} : page'[v] = page[v]
    BY <2>1, <2>2 DEF LegacyInv, PagesInv
  <2>5. ASSUME NEW v \in Uploaders
        PROVE  PageOK(v)'
    <3>1. CASE v = u
      <4>1. wire'[u] = NoMessage
        BY <1>1 DEF LegacyInv, PagesInv
      <4> QED
        BY <1>3, <1>5, <2>1, <2>3, <2>4, <3>1, <4>1 DEF PageOK, Busy
    <3>2. CASE v # u
      <4>1. wire'[v] = wire[v] /\ page'[v] = page[v]
        BY <1>1, <2>4, <3>2 DEF LegacyInv, PagesInv
      <4> QED
        BY <1>3, <2>1, <4>1 DEF PageOK
    <3> QED
      BY <3>1, <3>2
  <2>6. SessionInv' /\ RecsInv'
    BY <1>1, <2>1, SessionStays
  <2> QED
    BY <1>2, <1>4, <2>4, <2>5, <2>6 DEF LegacyInv, PagesInv
<1> QED
  BY <1>6, <1>7

\* A page takes a step, or starts, while its request is where it was: what it
\* says of its record must hold.
LEMMA PageKeeps ==
  ASSUME LegacyInv, NEW u \in Uploaders, NEW p \in PageType,
         page' = [page EXCEPT ![u] = p], UNCHANGED <<session, recs, wire, dl>>,
         page[u].step # "sent", p.step # "sent",
         p.step \in {"register", "adding"} => p.file \in Files,
         p.step \in Busy => p.rec \in DOMAIN recs
  PROVE  LegacyInv'
<1>1. /\ \A v \in Uploaders : PageOK(v)
      /\ wire \in [Uploaders -> MessageType] /\ page \in [Uploaders -> PageType]
  BY DEF LegacyInv, PagesInv
<1>2. page' \in [Uploaders -> PageType] /\ page'[u] = p
      /\ \A v \in Uploaders \ {u} : page'[v] = page[v]
  BY <1>1
<1>3. \A v \in Uploaders : PageOK(v)'
  BY <1>1, <1>2 DEF PageOK
<1>4. SessionInv' /\ RecsInv' /\ DownloadsInv'
  BY SessionStays DEF LegacyInv, DownloadsInv
<1> QED
  BY <1>1, <1>2, <1>3, <1>4 DEF LegacyInv, PagesInv

\* A page without an upload.
LEMMA NoUploadIsPage == NoUpload \in PageType
BY LegacyBounds DEF PageType, NoUpload, Ended

\* An upload that is over, and a step that changes nothing else of the page.
LEMMA FinishedPage ==
  ASSUME NEW p \in PageType, NEW step \in Ended
  PROVE  /\ [NoUpload EXCEPT !.step = step, !.starts = p.starts] \in PageType
         /\ [NoUpload EXCEPT !.step = step, !.starts = p.starts].step = step
<1>1. NoUpload \in PageType
  BY NoUploadIsPage
<1> QED
  BY <1>1 DEF PageType

LEMMA SteppedPage ==
  ASSUME NEW p \in PageType, NEW step \in Busy \union {"register", "adding"}
  PROVE  LET q == [p EXCEPT !.step = step]
         IN  q \in PageType /\ q.step = step /\ q.rec = p.rec /\ q.file = p.file
BY DEF PageType, Busy

\* The page gives up, or is done.
LEMMA FinishKeeps ==
  ASSUME LegacyInv, NEW u \in Uploaders, NEW step \in Ended, Finish(u, step),
         page[u].step # "sent", UNCHANGED <<session, recs, wire, dl>>
  PROVE  LegacyInv'
<1> DEFINE p == [NoUpload EXCEPT !.step = step, !.starts = page[u].starts]
<1>1. page[u] \in PageType
  BY DEF LegacyInv, PagesInv
<1>2. p \in PageType /\ p.step = step
  BY <1>1, FinishedPage
<1>3. page' = [page EXCEPT ![u] = p]
  BY DEF Finish
<1> HIDE DEF p
<1> QED
  BY <1>2, <1>3, PageKeeps DEF Ended, Busy

\* The page goes to another step, with its record.
LEMMA StepKeeps ==
  ASSUME LegacyInv, NEW u \in Uploaders, NEW step \in Busy \ {"sent"}, Step(u, step),
         page[u].step \in Busy \ {"sent"}, UNCHANGED <<session, recs, wire, dl>>
  PROVE  LegacyInv'
<1> DEFINE p == [page[u] EXCEPT !.step = step]
<1>1. page[u] \in PageType /\ page \in [Uploaders -> PageType] /\ page[u].rec \in DOMAIN recs
  BY DEF LegacyInv, PagesInv, PageOK
<1>2. p \in PageType /\ p.step = step /\ p.rec = page[u].rec
  BY <1>1, SteppedPage
<1>3. page' = [page EXCEPT ![u] = p]
  BY <1>1 DEF Step
<1> HIDE DEF p
<1> QED
  BY <1>1, <1>2, <1>3, PageKeeps DEF Busy

\* A file is chosen.
LEMMA StartKeeps ==
  ASSUME LegacyInv, NEW u \in Uploaders, NEW f \in Files, StartUpload(u, f)
  PROVE  LegacyInv'
<1> DEFINE p == [NoUpload EXCEPT !.file = f, !.starts = page[u].starts + 1,
                   !.step = IF session.kind = "send" THEN "send" ELSE "register",
                   !.rec = IF session.kind = "send" THEN 1 ELSE 0]
<1>1. page[u] \in PageType /\ page[u].starts + 1 \in Nat
  BY DEF LegacyInv, PagesInv, PageType
<1>2. page' = [page EXCEPT ![u] = p] /\ page[u].step \in Ended
      /\ UNCHANGED <<session, recs, wire, dl>>
  BY DEF StartUpload
<1>3. \A n \in Nat : [NoUpload EXCEPT !.file = f, !.starts = n,
                        !.step = IF session.kind = "send" THEN "send" ELSE "register",
                        !.rec = IF session.kind = "send" THEN 1 ELSE 0] \in PageType
  BY NoUploadIsPage DEF PageType, Busy
<1>4. p \in PageType
  BY <1>1, <1>3, Zenon
<1>5. /\ p.file = f /\ p.step = (IF session.kind = "send" THEN "send" ELSE "register")
      /\ p.rec = (IF session.kind = "send" THEN 1 ELSE 0)
  BY DEF NoUpload
<1>6. session.kind = "send" => 1 \in DOMAIN recs
  BY DEF LegacyInv, RecsInv
<1> HIDE DEF p
<1> QED
  BY <1>2, <1>4, <1>5, <1>6, PageKeeps DEF Ended, Busy

\* A file is registered again, or is new.
LEMMA RegisterKeeps ==
  ASSUME LegacyInv, NEW u \in Uploaders, Register(u)
  PROVE  LegacyInv'
<1>1. page[u] \in PageType /\ page[u].file \in Files /\ page[u].step = "register"
      /\ UNCHANGED <<session, recs, wire, dl>>
  BY DEF LegacyInv, PagesInv, PageOK, Register
<1>2. ASSUME NEW r \in Unfinished(page[u].file),
             page' = [page EXCEPT ![u].step = "send", ![u].rec = r,
                                  ![u].offset = recs[r].received]
      PROVE  LegacyInv'
  <2> DEFINE p == [page[u] EXCEPT !.step = "send", !.rec = r, !.offset = recs[r].received]
  <2>1. r \in DOMAIN recs
    BY DEF Unfinished
  <2>2. r \in Nat /\ recs[r].received \in 0 .. Size
    BY <2>1, RecordFacts DEF RecType
  <2>3. p \in PageType /\ p.step = "send" /\ p.rec = r
    BY <1>1, <2>2 DEF PageType, Busy
  <2>4. page' = [page EXCEPT ![u] = p]
    BY <1>2 DEF LegacyInv, PagesInv
  <2> HIDE DEF p
  <2> QED
    BY <1>1, <2>1, <2>3, <2>4, PageKeeps
<1>3. CASE Step(u, "adding")
  <2>1. page' = [page EXCEPT ![u] = [page[u] EXCEPT !.step = "adding"]]
    BY <1>3 DEF Step, LegacyInv, PagesInv
  <2>2. LET q == [page[u] EXCEPT !.step = "adding"]
        IN  q \in PageType /\ q.step = "adding" /\ q.rec = page[u].rec /\ q.file = page[u].file
    BY <1>1, SteppedPage
  <2> QED
    BY <1>1, <2>1, <2>2, PageKeeps DEF Busy
<1>4. CASE Finish(u, "failed")
  BY <1>1, <1>4, FinishKeeps DEF Ended
<1> QED
  BY <1>2, <1>3, <1>4 DEF Register

\* The record of a new file, and its page.
LEMMA AddKeeps ==
  ASSUME LegacyInv, NEW u \in Uploaders, AddRecord(u)
  PROVE  LegacyInv'
<1>1. /\ page[u] \in PageType /\ page[u].file \in Files /\ page[u].step = "adding"
      /\ UNCHANGED <<session, wire, dl>> /\ page \in [Uploaders -> PageType]
  BY DEF LegacyInv, PagesInv, PageOK, AddRecord
<1>2. CASE UNCHANGED recs /\ Finish(u, "failed")
  BY <1>1, <1>2, FinishKeeps DEF Ended
<1>3. CASE /\ recs' = Append(recs, Record(page[u].file))
           /\ \/ page' = [page EXCEPT ![u].step = "send", ![u].rec = Len(recs) + 1]
              \/ Finish(u, "failed")
  <2> DEFINE new == Record(page[u].file)
  <2>1. recs \in Seq(RecType) /\ Len(recs) \in Nat /\ DOMAIN recs = 1 .. Len(recs)
    BY DEF LegacyInv, RecsInv
  <2>2. NoPut \in PutType
    BY ContentIsUpto DEF NoPut, PutType, Steps
  <2>3. new \in RecType
    BY <1>1, <2>2, ContentIsUpto DEF Record, RecType
  <2>4. /\ new.ready = FALSE /\ new.stored = <<>> /\ new.partial = <<>> /\ new.hash = <<>>
        /\ new.received = 0 /\ new.put.step = "none" /\ new.put.by = "nobody"
    BY DEF Record, NoPut
  <2> HIDE DEF new
  <2>5. Holds(<<>>, 0) /\ ToSet(<<>>) \subseteq {0}
    BY DEF Holds, ToSet
  <2>6. RecOK(new, Live) /\ Emptied(new)
    BY <2>3, <2>4, <2>5, ContentIsUpto DEF RecOK, Pending, Emptied
  <2>7. /\ recs' \in Seq(RecType) /\ Len(recs') = Len(recs) + 1
        /\ recs'[Len(recs) + 1] = new
        /\ \A k \in 1 .. Len(recs) : recs'[k] = recs[k]
        /\ DOMAIN recs' = 1 .. Len(recs) + 1 /\ recs' # <<>>
    <3>1. recs' = Append(recs, new)
      BY <1>3 DEF new
    <3>2. /\ recs' \in Seq(RecType) /\ recs' # <<>> /\ Len(recs') = Len(recs) + 1
          /\ recs'[Len(recs) + 1] = new /\ \A k \in 1 .. Len(recs) : recs'[k] = recs[k]
      BY <2>1, <2>3, <3>1, AppendProperties
    <3>3. DOMAIN recs' = 1 .. Len(recs')
      BY <3>2
    <3> QED
      BY <3>2, <3>3
  <2>8. /\ (Live <=> Live') /\ Live' = Live /\ (Owned <=> Owned')
        /\ \A r : Removed(r) <=> Removed(r)'
    BY <1>1 DEF Live, Owned, Removed
  <2>9. \A k \in DOMAIN recs' : RecOK(recs'[k], Live) /\ (Removed(k) => Emptied(recs'[k]))
    BY <2>1, <2>6, <2>7 DEF LegacyInv, RecsInv
  <2>10. \A k : Emptied(recs'[k]) <=> Emptied(recs[k])'
    BY <2>8 DEF Emptied
  <2>11. RecsInv'
    BY <2>7, <2>8, <2>9, <2>10 DEF RecsInv
  <2>12. SessionInv'
    BY <1>1, <2>1, <2>7 DEF LegacyInv, SessionInv, SessionType, Live
  <2>13. PICK p \in PageType :
           /\ page' = [page EXCEPT ![u] = p]
           /\ p.step \in {"send", "failed"} /\ (p.step = "send" => p.rec = Len(recs) + 1)
    <3>1. CASE page' = [page EXCEPT ![u].step = "send", ![u].rec = Len(recs) + 1]
      <4> DEFINE p == [page[u] EXCEPT !.step = "send", !.rec = Len(recs) + 1]
      <4>1. \A n \in Nat : [page[u] EXCEPT !.step = "send", !.rec = n] \in PageType
        BY <1>1 DEF PageType, Busy
      <4>2. p \in PageType
        <5>1. Len(recs) + 1 \in Nat
          BY <2>1
        <5> QED
          BY <4>1, <5>1, Zenon
      <4>3. page' = [page EXCEPT ![u] = p] /\ p.step = "send" /\ p.rec = Len(recs) + 1
        BY <1>1, <3>1 DEF PageType
      <4> QED
        BY <4>2, <4>3
    <3>2. CASE Finish(u, "failed")
      BY <1>1, <3>2, FinishedPage DEF Finish, Ended
    <3> QED
      BY <1>3, <3>1, <3>2
  <2>14. page' \in [Uploaders -> PageType] /\ page'[u] = p
         /\ \A v \in Uploaders \ {u} : page'[v] = page[v]
    BY <1>1, <2>13
  <2>15. ASSUME NEW v \in Uploaders
         PROVE  PageOK(v)'
    <3>1. PageOK(v)
      BY DEF LegacyInv, PagesInv
    <3>2. \A k \in DOMAIN recs' : recs'[k].put.by = v => k \in DOMAIN recs /\ recs[k].put.by = v
      BY <2>1, <2>4, <2>7, LegacyBounds
    <3>3. DOMAIN recs \subseteq DOMAIN recs' /\ Len(recs) + 1 \in DOMAIN recs'
      BY <2>1, <2>7
    <3>4. CASE v = u
      BY <1>1, <2>13, <2>14, <3>1, <3>2, <3>3, <3>4 DEF PageOK, Busy
    <3>5. CASE v # u
      BY <1>1, <2>14, <3>1, <3>2, <3>3, <3>5 DEF PageOK
    <3> QED
      BY <3>4, <3>5
  <2>16. PagesInv' /\ DownloadsInv'
    BY <1>1, <2>14, <2>15 DEF LegacyInv, PagesInv, DownloadsInv
  <2> QED
    BY <2>11, <2>12, <2>16 DEF LegacyInv
<1> QED
  BY <1>2, <1>3 DEF AddRecord

\* The same while the session stays as it is.
LEMMA RecordsReplaced ==
  ASSUME LegacyInv, recs' = [r \in DOMAIN recs |-> recs'[r]], UNCHANGED session,
         \A r \in DOMAIN recs : RecOK(recs'[r], Live) /\ (Removed(r) => Emptied(recs'[r]))
  PROVE  SessionInv' /\ RecsInv' /\ DOMAIN recs' = DOMAIN recs
<1>1. \A r \in DOMAIN recs :
        RecOK(recs'[r], session'.step = "live") /\ (Removed(r)' => Emptied(recs'[r]))
  BY DEF Live, Removed
<1>2. /\ session' \in SessionType /\ session'.kind = session.kind
      /\ session'.step = "live" => session'.cleaned = 0
      /\ session'.step = "removing" => session'.cleaned <= Len(recs)
  BY DEF LegacyInv, SessionInv, Live
<1> QED
  BY <1>1, <1>2, RecordsMapped

\* The next chunk goes out, or the page waits for the end.
LEMMA SendKeeps ==
  ASSUME LegacyInv, NEW u \in Uploaders, SendChunk(u)
  PROVE  LegacyInv'
<1> DEFINE range == NextChunk(Size, page[u].offset, Chunk)
<1>1. /\ page[u] \in PageType /\ page[u].step = "send" /\ page[u].rec \in DOMAIN recs
      /\ UNCHANGED <<session, recs, dl>> /\ page \in [Uploaders -> PageType]
      /\ wire \in [Uploaders -> MessageType]
  BY DEF SendChunk, LegacyInv, PagesInv, PageOK, Busy
<1>2. CASE range # NoRange
  <2> DEFINE message == [rec |-> page[u].rec, start |-> range.start, end |-> range.end]
             p == [page[u] EXCEPT !.step = "sent"]
  <2>1. Step(u, "sent") /\ wire' = [wire EXCEPT ![u] = message]
    BY <1>2 DEF SendChunk
  <2>2. page' = [page EXCEPT ![u] = p]
    BY <1>1, <2>1 DEF Step
  <2>3. p \in PageType /\ p.step = "sent" /\ p.rec = page[u].rec /\ p.file = page[u].file
    BY <1>1, SteppedPage DEF Busy
  <2>4. range.start \in Nat /\ range.end \in Nat
    <3>1. page[u].offset \in 0 .. Size
      BY <1>1 DEF PageType
    <3>2. page[u].offset # Size
      BY <1>2 DEF NextChunk
    <3>3. range = [start |-> page[u].offset, end |-> Lesser(Size, page[u].offset + Chunk) - 1]
      BY <3>2 DEF NextChunk
    <3>4. range.start = page[u].offset /\ range.end = Lesser(Size, page[u].offset + Chunk) - 1
      BY <3>3
    <3> QED
      BY <3>1, <3>2, <3>4, LegacyBounds DEF Lesser
  <2>5. message \in MessageType /\ message.rec = page[u].rec
    BY <1>1, <2>4, RecordFacts DEF MessageType, PageType
  <2> HIDE DEF range, message, p
  <2>6. /\ page' \in [Uploaders -> PageType] /\ page'[u] = p
        /\ wire' \in [Uploaders -> MessageType] /\ wire'[u] = message
        /\ \A v \in Uploaders \ {u} : page'[v] = page[v] /\ wire'[v] = wire[v]
    BY <1>1, <2>1, <2>2, <2>3, <2>5
  <2>7. ASSUME NEW v \in Uploaders
        PROVE  PageOK(v)'
    <3>1. PageOK(v)
      BY DEF LegacyInv, PagesInv
    <3>2. CASE v = u
      BY <1>1, <2>3, <2>5, <2>6, <3>1, <3>2 DEF PageOK, Busy
    <3>3. CASE v # u
      BY <1>1, <2>6, <3>1, <3>3 DEF PageOK
    <3> QED
      BY <3>2, <3>3
  <2>8. SessionInv' /\ RecsInv' /\ DownloadsInv'
    BY <1>1, SessionStays DEF LegacyInv, DownloadsInv
  <2> QED
    BY <2>6, <2>7, <2>8 DEF LegacyInv, PagesInv
<1>3. CASE range = NoRange
  <2>1. UNCHANGED wire
    BY <1>3 DEF SendChunk
  <2>2. CASE Finish(u, "done")
    BY <1>1, <2>1, <2>2, FinishKeeps DEF Ended
  <2>3. CASE Step(u, "wait")
    BY <1>1, <2>1, <2>3, StepKeeps DEF Busy
  <2> QED
    BY <1>3, <2>2, <2>3 DEF SendChunk
<1> QED
  BY <1>2, <1>3

\* The page no longer waits for its chunk, and no chunk is for it.
LEMMA GiveUpKeeps ==
  ASSUME LegacyInv, NEW u \in Uploaders, GiveUp(u)
  PROVE  LegacyInv'
<1> DEFINE p == [page[u] EXCEPT !.step = "look", !.attempt = @ + 1]
           Free(rec) == IF rec.put.by = u THEN [rec EXCEPT !.put.by = "nobody"] ELSE rec
<1>1. /\ page[u] \in PageType /\ page[u].step = "sent" /\ page[u].rec \in DOMAIN recs
      /\ UNCHANGED <<session, dl>> /\ page \in [Uploaders -> PageType]
      /\ wire \in [Uploaders -> MessageType]
  BY DEF GiveUp, LegacyInv, PagesInv, PageOK, Busy
<1>2. page' = [page EXCEPT ![u] = p]
  BY <1>1 DEF GiveUp
<1>3. p \in PageType /\ p.step = "look" /\ p.rec = page[u].rec
  BY <1>1, PageMoves DEF PageType
<1> HIDE DEF p
<1>4. page' \in [Uploaders -> PageType] /\ page'[u] = p
      /\ \A v \in Uploaders \ {u} : page'[v] = page[v]
  BY <1>1, <1>2, <1>3
<1>5. /\ wire' \in [Uploaders -> MessageType]
      /\ \A v \in Uploaders : wire'[v] \in {wire[v], NoMessage}
  BY <1>1 DEF GiveUp, MessageType, NoMessage
<1>6. recs' = [r \in DOMAIN recs |-> Free(recs[r])]
  BY DEF GiveUp
<1>7. ASSUME NEW r \in DOMAIN recs
      PROVE  /\ RecOK(Free(recs[r]), Live) /\ (Removed(r) => Emptied(Free(recs[r])))
             /\ Free(recs[r]).put.by # u
             /\ \A v \in Uploaders : Free(recs[r]).put.by = v => recs[r].put.by = v
  <2>1. recs[r] \in RecType /\ recs[r].put \in PutType /\ RecOK(recs[r], Live)
        /\ (Removed(r) => Emptied(recs[r]))
    BY RecordFacts
  <2>2. CASE recs[r].put.by # u
    BY <2>1, <2>2
  <2>3. CASE recs[r].put.by = u
    <3> DEFINE new == [recs[r] EXCEPT !.put = [recs[r].put EXCEPT !.by = "nobody"]]
    <3>1. Free(recs[r]) = new
      BY <2>3
    <3>2. [recs[r].put EXCEPT !.by = "nobody"] \in PutType
      BY <2>1 DEF PutType
    <3>3. new \in RecType
      BY <2>1, <3>2 DEF RecType
    <3>4. /\ new.ready = recs[r].ready /\ new.stored = recs[r].stored
          /\ new.partial = recs[r].partial /\ new.received = recs[r].received
          /\ new.hash = recs[r].hash /\ new.sum = recs[r].sum
          /\ new.put.step = recs[r].put.step /\ new.put.start = recs[r].put.start
          /\ new.put.end = recs[r].put.end /\ new.put.back = recs[r].put.back
          /\ new.put.by = "nobody"
      BY <2>1 DEF RecType, PutType
    <3> HIDE DEF new
    <3>5. Streaming(recs[r], Live) => Streaming(new, Live)
      BY <3>4 DEF Streaming
    <3>6. RecOK(new, Live) /\ (Removed(r) => Emptied(new))
      BY <2>1, <3>3, <3>4, <3>5 DEF RecOK, Pending, Finished, Emptied
    <3> QED
      BY <3>1, <3>4, <3>6, LegacyBounds
  <2> QED
    BY <2>2, <2>3
<1> HIDE DEF Free
<1>8. SessionInv' /\ RecsInv' /\ DOMAIN recs' = DOMAIN recs
  <2>1. recs' = [r \in DOMAIN recs |-> recs'[r]] /\ \A r \in DOMAIN recs : recs'[r] = Free(recs[r])
    BY <1>6
  <2>2. \A r \in DOMAIN recs : RecOK(recs'[r], Live) /\ (Removed(r) => Emptied(recs'[r]))
    BY <1>7, <2>1
  <2> QED
    BY <1>1, <2>1, <2>2, RecordsReplaced
<1>9. ASSUME NEW v \in Uploaders
      PROVE  PageOK(v)'
  <2>1. PageOK(v)
    BY DEF LegacyInv, PagesInv
  <2>2. \A r \in DOMAIN recs' : recs'[r].put.by = v => v # u /\ recs[r].put.by = v
    BY <1>6, <1>7, <1>8
  <2>3. CASE v = u
    BY <1>1, <1>3, <1>4, <1>5, <1>8, <2>1, <2>2, <2>3 DEF PageOK, Busy
  <2>4. CASE v # u
    BY <1>4, <1>5, <1>8, <2>1, <2>2, <2>4 DEF PageOK
  <2> QED
    BY <2>3, <2>4
<1>10. DownloadsInv'
  BY <1>1 DEF LegacyInv, DownloadsInv
<1> QED
  BY <1>4, <1>5, <1>8, <1>9, <1>10 DEF LegacyInv, PagesInv

\* The session is asked for the offset.
LEMMA LookKeeps ==
  ASSUME LegacyInv, NEW u \in Uploaders, Look(u)
  PROVE  LegacyInv'
<1> DEFINE rec == recs[page[u].rec]
<1>1. /\ page[u] \in PageType /\ page[u].step = "look" /\ page[u].rec \in DOMAIN recs
      /\ UNCHANGED <<session, recs, wire, dl>> /\ page \in [Uploaders -> PageType]
  BY DEF Look, LegacyInv, PagesInv, PageOK, Busy
<1>2. CASE page' = [page EXCEPT ![u].step = "send", ![u].attempt = 0,
                      ![u].offset = rec.received, ![u].ready = rec.ready]
  <2>1. PICK offset \in 0 .. Size, ready \in BOOLEAN : rec.received = offset /\ rec.ready = ready
    BY <1>1, RecordFacts DEF RecType
  <2> DEFINE p == [page[u] EXCEPT !.step = "send", !.attempt = 0, !.offset = offset,
                                  !.ready = ready]
  <2>2. page' = [page EXCEPT ![u] = p]
    BY <1>1, <1>2, <2>1
  <2>3. p \in PageType
    BY <1>1, PageMoves
  <2>4. p.step = "send" /\ p.rec = page[u].rec
    BY <1>1 DEF PageType
  <2> HIDE DEF p
  <2> QED
    BY <1>1, <2>2, <2>3, <2>4, PageKeeps
<1>3. CASE Step(u, "send")
  BY <1>1, <1>3, StepKeeps DEF Busy
<1>4. CASE Finish(u, "failed")
  BY <1>1, <1>4, FinishKeeps DEF Ended
<1> QED
  BY <1>2, <1>3, <1>4 DEF Look

\* The page waits for the file to be ready.
LEMMA PollKeeps ==
  ASSUME LegacyInv, NEW u \in Uploaders, Poll(u)
  PROVE  LegacyInv'
<1>1. /\ page[u] \in PageType /\ page[u].step = "wait" /\ page[u].rec \in DOMAIN recs
      /\ UNCHANGED <<session, recs, wire, dl>> /\ page \in [Uploaders -> PageType]
  BY DEF Poll, LegacyInv, PagesInv, PageOK, Busy
<1>2. CASE page' = [page EXCEPT ![u].polls = @ + 1]
  <2> DEFINE p == [page[u] EXCEPT !.polls = @ + 1]
  <2>1. page' = [page EXCEPT ![u] = p]
    BY <1>1, <1>2
  <2>2. p \in PageType
    BY <1>1, PageMoves
  <2>3. p.step = "wait" /\ p.rec = page[u].rec
    BY <1>1 DEF PageType
  <2> HIDE DEF p
  <2> QED
    BY <1>1, <2>1, <2>2, <2>3, PageKeeps
<1>3. CASE Finish(u, "done") \/ Finish(u, "failed")
  BY <1>1, <1>3, FinishKeeps DEF Ended
<1> QED
  BY <1>2, <1>3 DEF Poll

-----------------------------------------------------------------------------
(* Downloads and the end of the session.                                    *)

\* A browser that has asked for nothing.
LEMMA NoDownloadIsTyped == NoDownload \in DownloadType
<1>1. Omitted \in Header /\ NoRange \in [start : Int, end : Int]
  BY DEF Header, NoRange
<1> QED
  BY <1>1 DEF NoDownload, DownloadType

\* Only a download changes.
LEMMA DownloadKeeps ==
  ASSUME LegacyInv, NEW d \in Browsers, NEW get \in DownloadType, Served(get),
         dl' = [dl EXCEPT ![d] = get], UNCHANGED <<session, recs, wire, page>>
  PROVE  LegacyInv'
<1>1. DownloadsInv'
  BY DEF LegacyInv, DownloadsInv
<1>2. PagesInv'
  BY DEF LegacyInv, PagesInv, PageOK
<1> QED
  BY <1>1, <1>2, SessionStays DEF LegacyInv

\* A range is two numbers.
LEMMA RangeIsRange ==
  ASSUME NEW first \in Header, NEW last \in Header
  PROVE  RangeOf(first, last) \in [start : Int, end : Int]
<1>1. Size \in Nat /\ first \in Int /\ last \in Int
  BY LegacyBounds DEF Header, Omitted
<1>2. NoRange \in [start : Int, end : Int]
  BY DEF NoRange
<1>3. Resolved(first, last, Size) \in [start : Int, end : Int]
  BY <1>1 DEF Resolved, Greater
<1>4. \A range \in [start : Int, end : Int] : Judged(range, Size) \in [start : Int, end : Int]
  BY <1>1, <1>2 DEF Judged, Lesser
<1> QED
  BY <1>1, <1>2, <1>3, <1>4 DEF RangeOf, ByteRange

\* A download starts or is refused.
LEMMA AskKeeps ==
  ASSUME LegacyInv, NEW d \in Browsers, NEW r \in DOMAIN recs, NEW first \in Header,
         NEW last \in Header, Download(d, r, first, last)
  PROVE  LegacyInv'
<1> DEFINE range == RangeOf(first, last)
           step == IF range = NoRange THEN "refused" ELSE "stream"
           get == [NoDownload EXCEPT !.step = step, !.rec = r, !.first = first, !.last = last,
                                     !.range = range, !.asked = dl[d].asked + 1]
<1>1. dl' = [dl EXCEPT ![d] = get] /\ UNCHANGED <<session, recs, wire, page>>
  BY DEF Download, RangeOf
<1>2. range \in [start : Int, end : Int] /\ r \in Nat /\ dl[d].asked + 1 \in Nat
  <2>1. range \in [start : Int, end : Int]
    BY RangeIsRange
  <2>2. r \in Nat
    BY RecordFacts
  <2>3. dl[d].asked + 1 \in Nat
    BY DEF LegacyInv, DownloadsInv, DownloadType
  <2> QED
    BY <2>1, <2>2, <2>3
<1>3. NoDownload \in DownloadType
  BY NoDownloadIsTyped
<1>4. range = RangeOf(first, last)
  OBVIOUS
<1> HIDE DEF range
<1>5. \A n \in Nat : [NoDownload EXCEPT !.step = step, !.rec = r, !.first = first,
                        !.last = last, !.range = range, !.asked = n] \in DownloadType
  BY <1>2, <1>3 DEF DownloadType
<1>6. get \in DownloadType
  BY <1>2, <1>5, Zenon
<1>7. /\ get.step = step /\ get.first = first /\ get.last = last /\ get.range = range
  BY <1>3 DEF DownloadType
<1>8. Served(get)
  BY <1>4, <1>7 DEF Served
<1> HIDE DEF get
<1> QED
  BY <1>1, <1>6, <1>8, DownloadKeeps

\* A stream has passed its range.
LEMMA EndDownloadKeeps ==
  ASSUME LegacyInv, NEW d \in Browsers, EndDownload(d)
  PROVE  LegacyInv'
<1> DEFINE got == Bytes(dl[d].range) \intersect (0 .. Size - 1)
           complete == dl[d].range.end = Size - 1
           get == [dl[d] EXCEPT !.step = "done", !.got = got, !.complete = complete]
<1>1. dl[d] \in DownloadType /\ Served(dl[d]) /\ dl[d].step = "stream"
      /\ UNCHANGED <<session, recs, wire, page>> /\ dl \in [Browsers -> DownloadType]
  BY DEF LegacyInv, DownloadsInv, EndDownload
<1>2. dl' = [dl EXCEPT ![d] = get]
  BY <1>1 DEF EndDownload
<1>3. got \in SUBSET Int /\ complete \in BOOLEAN
  BY LegacyBounds
<1>4. get \in DownloadType
  <2> HIDE DEF got, complete
  <2> QED
    BY <1>1, <1>3 DEF DownloadType
<1>5. /\ get.step = "done" /\ get.first = dl[d].first /\ get.last = dl[d].last
      /\ get.range = dl[d].range /\ get.got = got /\ (get.complete <=> complete)
  BY <1>1 DEF DownloadType
<1>6. Served(get)
  BY <1>1, <1>5 DEF Served
<1> HIDE DEF get
<1> QED
  BY <1>1, <1>2, <1>4, <1>6, DownloadKeeps

\* A stream that is cut off is forgotten.
LEMMA CutOffKeeps ==
  ASSUME LegacyInv, NEW d \in Browsers, CutOff(d)
  PROVE  LegacyInv'
<1> DEFINE get == [NoDownload EXCEPT !.asked = dl[d].asked]
<1>1. dl[d] \in DownloadType /\ dl' = [dl EXCEPT ![d] = get]
      /\ UNCHANGED <<session, recs, wire, page>>
  BY DEF LegacyInv, DownloadsInv, CutOff
<1>2. NoDownload \in DownloadType
  BY NoDownloadIsTyped
<1>3. get \in DownloadType
  BY <1>1, <1>2 DEF DownloadType
<1>4. get.step = "idle"
  BY DEF NoDownload
<1>5. Served(get)
  BY <1>4 DEF Served
<1> HIDE DEF get
<1> QED
  BY <1>1, <1>3, <1>5, DownloadKeeps

\* The session is forgotten; what was on disk is no longer kept.
LEMMA RemoveKeeps ==
  ASSUME LegacyInv, RemoveSession
  PROVE  LegacyInv'
<1>1. /\ Live /\ session' = [session EXCEPT !.step = "removing"]
      /\ UNCHANGED <<recs, wire, page, dl>> /\ session \in SessionType /\ session.cleaned = 0
  BY DEF RemoveSession, LegacyInv, SessionInv
<1>2. session' \in SessionType /\ session'.kind = session.kind /\ session'.cleaned = 0
      /\ session'.step = "removing"
  BY <1>1 DEF SessionType
<1>3. ASSUME NEW r \in DOMAIN recs
      PROVE  RecOK(recs'[r], session'.step = "live") /\ ~ Removed(r)'
  <2>1. r \in 1 .. Len(recs) /\ Len(recs) \in Nat /\ RecOK(recs[r], Live)
    BY RecordFacts
  <2>3. RecOK(recs[r], session'.step = "live")
    BY <1>1, <1>2, <2>1 DEF RecOK, Pending, Streaming
  <2>4. ~ Removed(r)'
    BY <1>2, <2>1 DEF Removed
  <2> QED
    BY <1>1, <2>3, <2>4
<1>4. recs' = [r \in DOMAIN recs |-> recs'[r]] /\ Len(recs) \in Nat
  BY <1>1 DEF LegacyInv, RecsInv
<1>5. SessionInv' /\ RecsInv'
  BY <1>2, <1>3, <1>4, RecordsMapped
<1>6. PagesInv' /\ DownloadsInv'
  BY <1>1 DEF LegacyInv, PagesInv, PageOK, DownloadsInv
<1> QED
  BY <1>5, <1>6 DEF LegacyInv

\* A record whose temporary files are deleted, in a session that has ended.
LEMMA CleanedIsRight ==
  ASSUME LegacyInv, ~ Live, NEW r \in DOMAIN recs, NEW rec,
         \/ rec = Cleaned(recs[r])
         \/ rec = [recs[r] EXCEPT !.partial = <<>>]
  PROVE  /\ RecOK(rec, FALSE) /\ rec.put = recs[r].put /\ rec.partial = <<>>
         /\ rec = Cleaned(recs[r]) => Emptied(rec)
         /\ rec.stored \in {recs[r].stored, <<>>}
<1>1. recs[r] \in RecType /\ RecOK(recs[r], FALSE)
  <2>1. Live = FALSE
    BY DEF Live
  <2> QED
    BY <2>1, RecordFacts
<1> DEFINE stored == IF Owned /\ rec = Cleaned(recs[r]) THEN <<>> ELSE recs[r].stored
<1>2. rec = [recs[r] EXCEPT !.partial = <<>>, !.stored = stored]
  <2>1. CASE rec = Cleaned(recs[r])
    BY <1>1, <2>1 DEF Cleaned
  <2>2. CASE rec # Cleaned(recs[r])
    BY <1>1, <2>2 DEF RecType
  <2> QED
    BY <2>1, <2>2
<1>3. stored \in Bodies /\ stored \in {recs[r].stored, <<>>}
  BY <1>1, ContentIsUpto DEF RecType
<1>4. rec = Cleaned(recs[r]) /\ Owned => stored = <<>>
  OBVIOUS
<1> HIDE DEF stored
<1>5. rec \in RecType
  BY <1>1, <1>2, <1>3, ContentIsUpto DEF RecType
<1>6. /\ rec.ready = recs[r].ready /\ rec.stored = stored /\ rec.partial = <<>>
      /\ rec.received = recs[r].received /\ rec.hash = recs[r].hash /\ rec.put = recs[r].put
      /\ rec.sum = recs[r].sum
  BY <1>1, <1>2 DEF RecType
<1>7. Streaming(recs[r], FALSE) => Streaming(rec, FALSE)
  BY <1>6 DEF Streaming
<1>8. RecOK(rec, FALSE)
  BY <1>1, <1>3, <1>5, <1>6, <1>7 DEF RecOK, Pending, Finished
<1>9. ToSet(<<>>) \subseteq {0}
  BY DEF ToSet
<1>10. rec = Cleaned(recs[r]) => Emptied(rec)
  BY <1>4, <1>6, <1>9 DEF Emptied
<1> QED
  BY <1>3, <1>6, <1>8, <1>10

\* Records that keep their chunks keep the pages.
LEMMA PagesStay ==
  ASSUME LegacyInv, UNCHANGED <<wire, page, dl>>, DOMAIN recs' = DOMAIN recs,
         \A r \in DOMAIN recs : recs'[r].put = recs[r].put
  PROVE  PagesInv' /\ DownloadsInv'
<1>1. \A u \in Uploaders : PageOK(u)'
  BY DEF LegacyInv, PagesInv, PageOK
<1> QED
  BY <1>1 DEF LegacyInv, PagesInv, DownloadsInv

\* The removal deletes the files of one record, or has done with them.
LEMMA DeleteKeeps ==
  ASSUME LegacyInv, DeleteTemporary
  PROVE  LegacyInv'
<1>1. session \in SessionType /\ session.step = "removing" /\ ~ Live
      /\ UNCHANGED <<wire, page, dl>> /\ session.cleaned <= Len(recs)
  BY DEF DeleteTemporary, LegacyInv, SessionInv, Live
<1>2. recs \in Seq(RecType) /\ Len(recs) \in Nat /\ DOMAIN recs = 1 .. Len(recs)
  BY DEF LegacyInv, RecsInv
<1>3. ASSUME NEW r \in DOMAIN recs
      PROVE  /\ RecOK(recs[r], FALSE) /\ (r <= session.cleaned => Emptied(recs[r]))
             /\ RecOK(Cleaned(recs[r]), FALSE) /\ Cleaned(recs[r]).put = recs[r].put
             /\ Emptied(Cleaned(recs[r]))
  <2>1. RecOK(recs[r], Live) /\ (Removed(r) => Emptied(recs[r]))
    BY RecordFacts
  <2>2. Live = FALSE
    BY <1>1 DEF Live
  <2>3. /\ RecOK(Cleaned(recs[r]), FALSE) /\ Cleaned(recs[r]).put = recs[r].put
        /\ Emptied(Cleaned(recs[r]))
    BY <1>1, CleanedIsRight
  <2> QED
    BY <1>1, <2>1, <2>2, <2>3 DEF Removed
<1>4. CASE session.cleaned < Len(recs)
  <2> DEFINE at == session.cleaned + 1
  <2>1. /\ session' = [session EXCEPT !.cleaned = at]
        /\ recs' = [recs EXCEPT ![at] = Cleaned(recs[at])]
    BY <1>4 DEF DeleteTemporary
  <2>2. session.cleaned \in Nat /\ at \in DOMAIN recs
    BY <1>1, <1>2, <1>4 DEF SessionType
  <2>3. session' \in SessionType /\ session'.kind = session.kind
        /\ session'.step = "removing" /\ session'.cleaned = at /\ session'.cleaned <= Len(recs)
    BY <1>1, <1>2, <1>4, <2>1, <2>2 DEF SessionType
  <2> HIDE DEF at
  <2>4. recs' = [r \in DOMAIN recs |-> recs'[r]] /\ DOMAIN recs' = DOMAIN recs
        /\ \A r \in DOMAIN recs : recs'[r] = IF r = at THEN Cleaned(recs[r]) ELSE recs[r]
    BY <1>2, <2>1, <2>2
  <2>5. \A r \in DOMAIN recs : r <= at => r = at \/ r <= session.cleaned
    BY <1>2, <2>2 DEF at
  <2>6. \A r \in DOMAIN recs :
          RecOK(recs'[r], session'.step = "live") /\ (Removed(r)' => Emptied(recs'[r]))
    BY <1>3, <2>3, <2>4, <2>5 DEF Removed
  <2>7. SessionInv' /\ RecsInv'
    BY <2>3, <2>4, <2>6, RecordsMapped
  <2>8. PagesInv' /\ DownloadsInv'
    BY <1>1, <1>3, <2>4, PagesStay
  <2> QED
    BY <2>7, <2>8 DEF LegacyInv
<1>5. CASE ~ (session.cleaned < Len(recs))
  <2>1. /\ session' = [session EXCEPT !.step = "gone"]
        /\ recs' = IF Owned THEN [r \in DOMAIN recs |-> Cleaned(recs[r])] ELSE recs
    BY <1>5 DEF DeleteTemporary
  <2>2. session' \in SessionType /\ session'.kind = session.kind /\ session'.step = "gone"
    BY <1>1, <2>1 DEF SessionType
  <2>3. \A r \in DOMAIN recs : r <= session.cleaned
    BY <1>1, <1>2, <1>5 DEF SessionType
  <2>4. /\ recs' = [r \in DOMAIN recs |-> recs'[r]] /\ DOMAIN recs' = DOMAIN recs
        /\ \A r \in DOMAIN recs : recs'[r] = recs[r] \/ recs'[r] = Cleaned(recs[r])
    <3>1. CASE Owned
      BY <2>1, <3>1
    <3>2. CASE ~ Owned
      BY <1>2, <2>1, <3>2
    <3> QED
      BY <3>1, <3>2
  <2>5. \A r \in DOMAIN recs :
          RecOK(recs'[r], session'.step = "live") /\ (Removed(r)' => Emptied(recs'[r]))
    BY <1>3, <2>2, <2>3, <2>4
  <2>6. SessionInv' /\ RecsInv'
    BY <2>2, <2>4, <2>5, RecordsMapped
  <2>7. PagesInv' /\ DownloadsInv'
    BY <1>1, <1>3, <2>4, PagesStay
  <2> QED
    BY <2>6, <2>7 DEF LegacyInv
<1> QED
  BY <1>4, <1>5

\* A removal that fails claims nothing.
LEMMA FailedDeletionKeeps ==
  ASSUME LegacyInv, DeletionFails
  PROVE  LegacyInv'
<1>1. /\ session \in SessionType /\ session.step = "removing"
      /\ session' = [session EXCEPT !.step = "left", !.cleaned = 0]
      /\ UNCHANGED <<recs, wire, page, dl>>
  BY DEF DeletionFails, LegacyInv, SessionInv
<1>2. session' \in SessionType /\ session'.kind = session.kind /\ session'.step = "left"
  BY <1>1 DEF SessionType
<1>3. ASSUME NEW r \in DOMAIN recs
      PROVE  RecOK(recs'[r], session'.step = "live") /\ (Removed(r)' => Emptied(recs'[r]))
  <2>1. RecOK(recs[r], Live) /\ Live = FALSE
    BY <1>1, RecordFacts DEF Live
  <2> QED
    BY <1>1, <1>2, <2>1 DEF Removed
<1>4. recs' = [r \in DOMAIN recs |-> recs'[r]] /\ DOMAIN recs' = DOMAIN recs
  <2>1. recs \in Seq(RecType)
    BY DEF LegacyInv, RecsInv
  <2> QED
    BY <1>1, <2>1
<1>5. SessionInv' /\ RecsInv'
  BY <1>2, <1>3, <1>4, RecordsMapped
<1>6. PagesInv' /\ DownloadsInv'
  BY <1>1, PagesStay
<1> QED
  BY <1>5, <1>6 DEF LegacyInv

\* A sweep deletes the partial files of a session that has ended.
LEMMA SweepKeeps ==
  ASSUME LegacyInv, SweepPartials
  PROVE  LegacyInv'
<1>1. /\ ~ Live /\ recs' = [r \in DOMAIN recs |-> [recs[r] EXCEPT !.partial = <<>>]]
      /\ UNCHANGED <<session, wire, page, dl>>
  BY DEF SweepPartials
<1>2. ASSUME NEW r \in DOMAIN recs
      PROVE  RecOK(recs'[r], Live) /\ (Removed(r) => Emptied(recs'[r]))
             /\ recs'[r].put = recs[r].put
  <2>1. recs'[r] = [recs[r] EXCEPT !.partial = <<>>]
    BY <1>1
  <2>2. /\ RecOK(recs'[r], FALSE) /\ recs'[r].put = recs[r].put /\ recs'[r].partial = <<>>
        /\ recs'[r].stored \in {recs[r].stored, <<>>}
    BY <1>1, <2>1, CleanedIsRight
  <2>3. Removed(r) => Emptied(recs[r])
    BY RecordFacts
  <2>4. ToSet(<<>>) \subseteq {0}
    BY DEF ToSet
  <2>5. Live = FALSE
    BY <1>1 DEF Live
  <2>6. Removed(r) => Emptied(recs'[r])
    BY <2>2, <2>3, <2>4 DEF Emptied
  <2> QED
    BY <2>2, <2>5, <2>6
<1>3. recs' = [r \in DOMAIN recs |-> recs'[r]] /\ DOMAIN recs' = DOMAIN recs
  BY <1>1
<1>4. SessionInv' /\ RecsInv'
  BY <1>1, <1>2, <1>3, RecordsReplaced
<1>5. PagesInv' /\ DownloadsInv'
  BY <1>1, <1>2, <1>3, PagesStay
<1> QED
  BY <1>4, <1>5 DEF LegacyInv

-----------------------------------------------------------------------------
(* The invariant and what follows from it.                                  *)

\* A session starts with no file, or with the one it was created for.
LEMMA LegacyInit == Init => LegacyInv
<1> SUFFICES ASSUME Init
             PROVE  LegacyInv
  OBVIOUS
<1>1. PICK kind \in {"upload", "send", "source"} :
        /\ session = [kind |-> kind, step |-> "live", cleaned |-> 0]
        /\ recs = CASE kind = "upload" -> <<>>
                    [] kind = "send" -> <<Record(CHOOSE f \in Files : TRUE)>>
                    [] kind = "source" -> <<Source(CHOOSE f \in Files : TRUE)>>
  BY DEF Init
<1> DEFINE file == CHOOSE f \in Files : TRUE
<1>2. file \in Files
  BY LegacyBounds
<1> HIDE DEF file
<1>3. NoPut \in PutType /\ NoPut.step = "none" /\ NoPut.by = "nobody"
      /\ ToSet(<<>>) \subseteq {0} /\ Holds(<<>>, 0)
  BY ContentIsUpto DEF NoPut, PutType, Steps, ToSet, Holds
<1>4. Record(file) \in RecType
  BY <1>2, <1>3, ContentIsUpto DEF Record, RecType
<1>5. /\ Record(file).ready = FALSE /\ Record(file).stored = <<>> /\ Record(file).partial = <<>>
      /\ Record(file).hash = <<>> /\ Record(file).received = 0 /\ Record(file).put = NoPut
  BY DEF Record
<1>6. RecOK(Record(file), TRUE)
  BY <1>3, <1>4, <1>5, ContentIsUpto DEF RecOK, Pending
<1>7. Source(file) \in RecType
  BY <1>4, ContentIsUpto DEF Source, RecType
<1>8. /\ Source(file).ready = TRUE /\ Source(file).stored = Content /\ Source(file).partial = <<>>
      /\ Source(file).sum = Content /\ Source(file).put = NoPut
  BY <1>4, <1>5 DEF Source, RecType
<1>9. RecOK(Source(file), TRUE)
  BY <1>3, <1>7, <1>8 DEF RecOK, Finished
<1>10. /\ recs \in Seq(RecType) /\ (kind = "send" => recs # <<>>)
       /\ \A r \in DOMAIN recs : RecOK(recs[r], TRUE) /\ recs[r].put = NoPut
  <2>1. CASE kind = "upload"
    BY <1>1, <2>1
  <2>2. CASE kind = "send"
    <3> DEFINE only == Record(file)
    <3>1. recs = <<only>>
      BY <1>1, <2>2 DEF file
    <3>2. only \in RecType /\ RecOK(only, TRUE) /\ only.put = NoPut
      BY <1>4, <1>5, <1>6
    <3> HIDE DEF only
    <3>3. recs \in Seq(RecType) /\ recs # <<>> /\ \A r \in DOMAIN recs : recs[r] = only
      BY <3>1, <3>2
    <3> QED
      BY <3>2, <3>3
  <2>3. CASE kind = "source"
    <3> DEFINE only == Source(file)
    <3>1. recs = <<only>>
      BY <1>1, <2>3 DEF file
    <3>2. only \in RecType /\ RecOK(only, TRUE) /\ only.put = NoPut
      BY <1>7, <1>8, <1>9
    <3> HIDE DEF only
    <3>3. recs \in Seq(RecType) /\ recs # <<>> /\ \A r \in DOMAIN recs : recs[r] = only
      BY <3>1, <3>2
    <3> QED
      BY <3>2, <3>3
  <2> QED
    BY <2>1, <2>2, <2>3
<1>11. SessionInv
  BY <1>1 DEF SessionInv, SessionType, Live
<1>12. RecsInv
  BY <1>1, <1>10 DEF RecsInv, Live, Removed
<1>13. PagesInv
  <2>1. wire = [u \in Uploaders |-> NoMessage] /\ page = [u \in Uploaders |-> NoUpload]
    BY DEF Init
  <2>2. NoMessage \in MessageType /\ NoUpload \in PageType
    BY NoUploadIsPage DEF NoMessage, MessageType
  <2>3. NoUpload.step = "idle"
    BY DEF NoUpload
  <2>4. \A r \in DOMAIN recs : recs[r].put.by = "nobody"
    BY <1>3, <1>10
  <2>5. \A u \in Uploaders : PageOK(u)
    BY <2>1, <2>3, <2>4, LegacyBounds DEF PageOK, Busy
  <2> QED
    BY <2>1, <2>2, <2>5 DEF PagesInv
<1>14. DownloadsInv
  <2>1. dl = [d \in Browsers |-> NoDownload]
    BY DEF Init
  <2>2. Served(NoDownload)
    BY DEF Served, NoDownload
  <2> QED
    BY <2>1, <2>2, NoDownloadIsTyped DEF DownloadsInv
<1> QED
  BY <1>11, <1>12, <1>13, <1>14 DEF LegacyInv

\* Every step keeps the invariant.
LEMMA LegacyNext == LegacyInv /\ [Next]_vars => LegacyInv'
<1> SUFFICES ASSUME LegacyInv, [Next]_vars
             PROVE  LegacyInv'
  OBVIOUS
<1>1. ASSUME NEW r \in Records \intersect DOMAIN recs, ChunkStep(r)
      PROVE  LegacyInv'
  BY <1>1, StatKeeps, PassKeeps, BreakKeeps, EndKeeps, SyncKeeps, RenameKeeps DEF ChunkStep
<1>2. ASSUME NEW r \in Records \intersect DOMAIN recs, NEW d \in Browsers,
             NEW first \in Header, NEW last \in Header, Download(d, r, first, last)
      PROVE  LegacyInv'
  BY <1>2, AskKeeps
<1>3. ASSUME NEW u \in Uploaders, PageStep(u) \/ PutArrives(u) \/ GiveUp(u)
      PROVE  LegacyInv'
  BY <1>3, RegisterKeeps, AddKeeps, SendKeeps, LookKeeps, PollKeeps, PutKeeps, GiveUpKeeps
     DEF PageStep
<1>4. ASSUME NEW u \in Uploaders, NEW f \in Files, StartUpload(u, f)
      PROVE  LegacyInv'
  BY <1>4, StartKeeps
<1>5. ASSUME NEW d \in Browsers, EndDownload(d) \/ CutOff(d)
      PROVE  LegacyInv'
  BY <1>5, EndDownloadKeeps, CutOffKeeps
<1>6. CASE RemoveSession \/ DeleteTemporary \/ DeletionFails \/ SweepPartials
  BY <1>6, RemoveKeeps, DeleteKeeps, FailedDeletionKeeps, SweepKeeps
<1>7. CASE UNCHANGED vars
  <2>1. UNCHANGED <<session, recs, wire, page, dl>>
    BY <1>7 DEF vars
  <2> QED
    BY <2>1, SessionStays, PagesStay DEF LegacyInv
<1> QED
  BY <1>1, <1>2, <1>3, <1>4, <1>5, <1>6, <1>7 DEF Next

\* Records, chunks, pages, requests and downloads belong together at every
\* step, for any number of them.
THEOREM LegacyInvHolds == Spec => []LegacyInv
BY LegacyInit, LegacyNext, PTL DEF Spec

\* Every variable keeps its type.
THEOREM TypeCorrect == Spec => []TypeOK
<1>1. ASSUME LegacyInv
      PROVE  TypeOK
  <2>1. session \in [kind : {"upload", "send", "source"},
                     step : {"live", "removing", "left", "gone"}, cleaned : Nat]
    BY <1>1 DEF LegacyInv, SessionInv, SessionType
  <2>2. ASSUME NEW r \in DOMAIN recs
        PROVE  /\ recs[r].file \in Files /\ recs[r].received \in 0 .. Size
               /\ recs[r].ready \in BOOLEAN
               /\ {recs[r].partial, recs[r].hash, recs[r].sum, recs[r].stored} \subseteq Bodies
               /\ recs[r].put.step \in {"none", "stat", "stream", "sync", "rename"}
    BY <1>1, RecordFacts DEF RecType, PutType, Steps
  <2>3. wire \in [Uploaders -> [rec : Nat, start : Int, end : Int]]
    BY <1>1 DEF LegacyInv, PagesInv, MessageType
  <2>4. \A u \in Uploaders :
          page[u].step \in Ended \union {"register", "adding", "send", "sent", "look", "wait"}
    BY <1>1 DEF LegacyInv, PagesInv, PageType, Busy
  <2>5. \A d \in Browsers : dl[d].step \in {"idle", "stream", "done", "refused"}
    BY <1>1 DEF LegacyInv, DownloadsInv, DownloadType
  <2> QED
    BY <2>1, <2>2, <2>3, <2>4, <2>5 DEF TypeOK
<1> QED
  BY <1>1, LegacyInvHolds, PTL

\* A range that is served has a byte.
LEMMA ServedIsNotEmpty ==
  ASSUME NEW first \in Header, NEW last \in Header, RangeOf(first, last) # NoRange
  PROVE  RangeOf(first, last).start <= RangeOf(first, last).end
<1>1. Size \in Nat \ {0} /\ first \in Int /\ last \in Int
  BY LegacyBounds DEF Header, Omitted
<1>2. CASE first = Omitted /\ last = Omitted
  BY <1>1, <1>2 DEF RangeOf
<1>3. CASE ~ (first = Omitted /\ last = Omitted)
  <2> DEFINE found == Resolved(first, last, Size)
  <2>1. RangeOf(first, last) = Judged(found, Size)
    BY <1>3 DEF RangeOf, ByteRange
  <2>2. found.start \in Int /\ found.end \in Int /\ found = [start |-> found.start, end |-> found.end]
    BY <1>1 DEF Resolved, Greater
  <2> HIDE DEF found
  <2>3. found.start < Size /\ found.start <= found.end
    BY <2>1 DEF Judged
  <2>4. Judged(found, Size) = [start |-> found.start, end |-> Lesser(found.end, Size - 1)]
    BY <2>2, <2>3 DEF Judged
  <2>5. /\ Judged(found, Size).start = found.start
        /\ Judged(found, Size).end = Lesser(found.end, Size - 1)
    BY <2>4
  <2> QED
    BY <1>1, <2>1, <2>2, <2>3, <2>5 DEF Lesser
<1> QED
  BY <1>2, <1>3

\* What was received is on disk and in the hash, and a finished file is whole,
\* for every size and every way a chunk can break off (appendUploadChunk,
\* finalizeUpload).
THEOREM NothingReceivedIsLost == Spec => []ReceivedIsKept
<1>1. ASSUME LegacyInv
      PROVE  ReceivedIsKept
  <2> SUFFICES ASSUME NEW r \in DOMAIN recs
               PROVE  LET rec == recs[r]
                          kept == SubSeq(Content, 1, rec.received)
                      IN  /\ rec.ready => rec.sum = Content /\ rec.stored \in {Content, <<>>}
                          /\ ~rec.ready /\ rec.put.step # "stream" =>
                               rec.hash = kept /\ (Live => IsPrefix(kept, rec.partial))
    BY DEF ReceivedIsKept
  <2>1. recs[r] \in RecType /\ RecOK(recs[r], Live)
    BY <1>1, RecordFacts
  <2>2. recs[r].partial \in Bodies /\ recs[r].received \in 0 .. Size
    BY <2>1 DEF RecType
  <2>3. /\ SubSeq(Content, 1, recs[r].received) = Upto(recs[r].received)
        /\ Holds(recs[r].partial, recs[r].received)
             => IsPrefix(Upto(recs[r].received), recs[r].partial)
    BY <2>2, HeldIsPrefix
  <2> QED
    BY <2>1, <2>3 DEF RecOK, Pending, Finished
<1> QED
  BY <1>1, LegacyInvHolds, PTL

\* After a session no byte of an unfinished file is left, and of a session that
\* owns its files none at all, whatever was under way when it was removed
\* (removeSession, deleteTemporaryFiles).
THEOREM NothingIsLeft == Spec => []NoBytesLeft
<1>1. ASSUME LegacyInv
      PROVE  NoBytesLeft
  BY <1>1 DEF LegacyInv, RecsInv, NoBytesLeft, Removed, Emptied
<1> QED
  BY <1>1, LegacyInvHolds, PTL

\* Every browser gets exactly the bytes that its header asks for, for every
\* size of a file and every header (parseByteRange, sendSessionFile).
THEOREM RangesAreServed == Spec => []RangesServed
<1>1. ASSUME LegacyInv
      PROVE  RangesServed
  <2> SUFFICES ASSUME NEW d \in Browsers
               PROVE  LET wanted == IF dl[d].first = Omitted /\ dl[d].last = Omitted
                                    THEN 0 .. Size - 1
                                    ELSE Wanted(dl[d].first, dl[d].last, Size)
                      IN  /\ dl[d].step = "done" =>
                               /\ dl[d].got = wanted
                               /\ Cardinality(wanted) = dl[d].range.end - dl[d].range.start + 1
                               /\ dl[d].complete = (Size - 1 \in wanted)
                          /\ dl[d].step = "refused" => wanted = {}
    BY DEF RangesServed
  <2> DEFINE first == dl[d].first
             last == dl[d].last
             range == dl[d].range
             wanted == IF first = Omitted /\ last = Omitted THEN 0 .. Size - 1
                       ELSE Wanted(first, last, Size)
  <2>1. dl[d] \in DownloadType /\ Served(dl[d])
    BY <1>1 DEF LegacyInv, DownloadsInv
  <2>2. CASE dl[d].step \in {"done", "refused"}
    <3>1. range = RangeOf(first, last) /\ first \in Header /\ last \in Header
          /\ range \in [start : Int, end : Int]
      BY <2>1, <2>2 DEF Served, DownloadType
    <3>2. first \in {Omitted} \union (0 .. MaxSafe) /\ last \in {Omitted} \union (0 .. MaxSafe)
          /\ Size \in 0 .. MaxSafe
      BY <3>1, LegacyBounds, MaxSafeIsNat DEF Header
    <3>3. Bytes(range) = wanted
      <4>1. CASE first = Omitted /\ last = Omitted
        <5>1. range = [start |-> 0, end |-> Size - 1]
          BY <3>1, <4>1 DEF RangeOf
        <5> QED
          BY <4>1, <5>1 DEF Bytes
      <4>2. CASE ~ (first = Omitted /\ last = Omitted)
        BY <3>1, <3>2, <4>2, ServedRangesAreExact DEF RangeOf, RangesAreExact
      <4> QED
        BY <4>1, <4>2
    <3>4. wanted \subseteq 0 .. Size - 1
      BY DEF Wanted
    <3> HIDE DEF wanted
    <3>5. CASE dl[d].step = "refused"
      <4>1. range = NoRange
        BY <2>1, <3>5 DEF Served
      <4> QED
        BY <3>3, <3>5, <4>1 DEF Bytes, NoRange, wanted
    <3>6. CASE dl[d].step = "done"
      <4>1. dl[d].got = wanted
        BY <2>1, <3>3, <3>4, <3>6 DEF Served
      <4>2. range.start \in Int /\ range.end \in Int /\ wanted = range.start .. range.end
        BY <3>1, <3>3 DEF Bytes
      <4>3. range.start <= range.end
        BY <2>1, <3>1, <3>6, ServedIsNotEmpty DEF Served
      <4>4. Cardinality(wanted) = range.end - range.start + 1
        BY <4>2, <4>3, FS_Interval
      <4>5. range.end <= Size - 1
        BY <3>4, <4>2, <4>3, LegacyBounds
      <4>6. dl[d].complete <=> range.end = Size - 1
        BY <2>1, <3>6 DEF Served
      <4>7. dl[d].complete <=> (Size - 1 \in wanted)
        BY <4>2, <4>3, <4>5, <4>6, LegacyBounds
      <4>8. dl[d].complete \in BOOLEAN
        BY <2>1 DEF DownloadType
      <4> QED
        BY <3>6, <4>1, <4>4, <4>7, <4>8 DEF wanted
    <3> QED
      BY <2>2, <3>5, <3>6
  <2> QED
    BY <2>2
<1> QED
  BY <1>1, LegacyInvHolds, PTL

=============================================================================
