----------------------------- MODULE ByteRanges -----------------------------
(***************************************************************************)
(* The range arithmetic that downloads and uploads share                   *)
(* (packages/protocol/src/transfer.ts), next to what HTTP and the upload   *)
(* protocol mean by a range.  A header is the numbers it carries; a        *)
(* malformed one carries none.                                             *)
(***************************************************************************)
EXTENDS Integers

CONSTANT MaxSafe      \* Number.MAX_SAFE_INTEGER

ASSUME MaxSafeIsNat == MaxSafe \in Nat

\* A number that the header leaves out, and the answer to a bad range.
Omitted == -1
NoRange == [start |-> 0, end |-> -1]

Lesser(x, y) == IF x < y THEN x ELSE y
Greater(x, y) == IF x < y THEN y ELSE x

Safe(n) == n <= MaxSafe

\* The range before it is judged: bytes=first-last, bytes=first- or bytes=-last.
Resolved(first, last, size) ==
  IF first = Omitted
  THEN [start |-> Greater(0, size - last), end |-> size - 1]
  ELSE [start |-> first, end |-> IF last = Omitted THEN size - 1 ELSE last]

\* Variant: the last byte is not cut to the size of the file.
Unclamped(range, size) ==
  IF range.start < size /\ range.start <= range.end THEN range ELSE NoRange

Judged(range, size) ==
  IF range.start < size /\ range.start <= range.end
  THEN [range EXCEPT !.end = Lesser(@, size - 1)]
  ELSE NoRange

\* parseByteRange
ByteRange(first, last, size) ==
  IF size > 0 /\ Safe(size) /\ Safe(first) /\ Safe(last)
     /\ (first = Omitted => last > 0)
  THEN Judged(Resolved(first, last, size), size)
  ELSE NoRange

\* parseContentRange: bytes start-end/total is taken for a range.
ContentRange(start, end, total) ==
  Safe(start) /\ Safe(end) /\ Safe(total) /\ start <= end /\ end < total

\* nextChunkRange
NextChunk(total, offset, chunk) ==
  IF offset = total THEN NoRange
  ELSE [start |-> offset, end |-> Lesser(total, offset + chunk) - 1]

-----------------------------------------------------------------------------

Bytes(range) == range.start .. range.end

\* The bytes a range header asks for.
Wanted(first, last, size) ==
  {b \in 0 .. size - 1 : IF first = Omitted THEN b >= size - last
                         ELSE b >= first /\ (last = Omitted \/ b <= last)}

\* A range that is served holds exactly the bytes that the header asks for and
\* the file has, and only a header that asks for none is refused with 416
\* (parseByteRange at an empty file, a suffix, the last byte).
RangesAreExact ==
  \A size \in 0 .. MaxSafe, first, last \in {Omitted} \union (0 .. MaxSafe) :
    Bytes(ByteRange(first, last, size)) = Wanted(first, last, size)

\* A chunk holds the next bytes of the file, at most chunk of them and never one
\* twice, and its Content-Range is one that the server takes (nextChunkRange).
ChunksFollow ==
  \A total, chunk \in 0 .. MaxSafe, offset \in 0 .. MaxSafe :
    chunk > 0 /\ offset <= total =>
      LET range == NextChunk(total, offset, chunk)
      IN  /\ Bytes(range) = {b \in offset .. total - 1 : b < offset + chunk}
          /\ offset < total => ContentRange(range.start, range.end, total)

=============================================================================
