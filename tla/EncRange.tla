------------------------------ MODULE EncRange ------------------------------
(***************************************************************************)
(* encrypted: one read of an encrypted object, and the arithmetic of its   *)
(* layout.  GetObject decrypts one body in order.  GetObjectRange asks the *)
(* store for the size first, then for the header, the final chunk and the  *)
(* chunks of the range, in requests of their own, while other clients may  *)
(* overwrite or delete the object.  Stat, List and Copy report a plaintext *)
(* size computed from the stored one.                                      *)
(*                                                                         *)
(* age is external: a chunk decrypts only if all of it was encrypted under *)
(* the file key of the header, at its own position, and is the last one of *)
(* its object exactly when it is read as the last.  Every put has a file   *)
(* key of its own, so an object is its version, its plaintext length, the  *)
(* number of bytes stored, and whether it was encrypted to this identity.  *)
(***************************************************************************)
EXTENDS Integers, Sequences, FiniteSets

CONSTANTS
  ChunkSize, TagSize,   \* chunkSize, tagSize
  PayloadOffset,        \* the length of the header and the nonce
  HeaderReadSize,       \* headerReadSize
  WholeObjectSize,      \* wholeObjectSize
  MaxInt,               \* the largest int64
  MaxPlain,             \* bound: the longest plaintext
  MaxVersion,           \* bound: how many objects are put
  Cut,                  \* bound: how many bytes a damaged object may have lost
  None

ASSUME EncSizes ==
  /\ ChunkSize \in Nat \ {0} /\ TagSize \in Nat \ {0} /\ PayloadOffset \in Nat
  /\ HeaderReadSize \in Nat /\ WholeObjectSize \in Nat
  /\ PayloadOffset <= HeaderReadSize /\ HeaderReadSize <= WholeObjectSize
ASSUME EncBounds ==
  MaxInt \in Nat /\ MaxPlain \in Nat /\ MaxVersion \in Nat \ {0} /\ Cut \in Nat

Least(a, b) == IF a < b THEN a ELSE b
Most(a, b) == IF a > b THEN a ELSE b

-----------------------------------------------------------------------------
\* layout.go

EncChunkSize == ChunkSize + TagSize
Chunks(payload) == (payload + EncChunkSize - 1) \div EncChunkSize

\* Mutant: a size between two chunk boundaries is not refused.
PlaintextSizeAny(encrypted) ==
  LET payload == encrypted - PayloadOffset
  IN IF payload < TagSize THEN -1 ELSE payload - Chunks(payload) * TagSize

\* plaintextSize, -1 for false.
PlaintextSize(encrypted) ==
  LET payload == encrypted - PayloadOffset
      plain == payload - Chunks(payload) * TagSize
  IN IF payload < TagSize \/ Most((plain + ChunkSize - 1) \div ChunkSize, 1) # Chunks(payload)
       THEN -1 ELSE plain

\* reportedSize: what Stat, List and Copy say of an object.
ReportedSize(encrypted) ==
  IF PlaintextSize(encrypted) # -1 THEN PlaintextSize(encrypted) ELSE encrypted

ChunkSpanStart(off) == PayloadOffset + (off \div ChunkSize) * EncChunkSize
ChunkSpanStop(end, encrypted) ==
  Least(PayloadOffset + ((end - 1) \div ChunkSize + 1) * EncChunkSize, encrypted)

\* Mutant: the number of chunks is rounded down.
FinalChunkOffsetDown(encrypted) ==
  PayloadOffset + ((encrypted - PayloadOffset) \div EncChunkSize - 1) * EncChunkSize

FinalChunkOffset(encrypted) ==
  PayloadOffset + (Chunks(encrypted - PayloadOffset) - 1) * EncChunkSize

-----------------------------------------------------------------------------
\* What age writes, and what it accepts.

ChunkCount(n) == IF n = 0 THEN 1 ELSE (n + ChunkSize - 1) \div ChunkSize
EncryptedSize(n) == PayloadOffset + n + ChunkCount(n) * TagSize

\* The bytes [s, e) of object o are its whole chunk number i, which is the last
\* one of o exactly if `last` says so.
Authentic(o, i, s, e, last) ==
  /\ i < ChunkCount(o.n)
  /\ s = PayloadOffset + i * EncChunkSize
  /\ e = Least(s + EncChunkSize, EncryptedSize(o.n)) /\ e <= o.size
  /\ last <=> i = ChunkCount(o.n) - 1

Objects(v) == {o \in [v : {v}, n : 0..MaxPlain, size : 0..EncryptedSize(MaxPlain), own : BOOLEAN] :
                 o.size \in (EncryptedSize(o.n) - Cut)..EncryptedSize(o.n)}

ASSUME NoneIsNoObject == \A v \in 1..MaxVersion : None \notin Objects(v)

VARIABLES
  obj,        \* the stored object, or None
  seen,       \* history: what has been stored since the call began
  failed,     \* history: the store has failed a request
  op,         \* the call: "get", "range" or "stat"
  pc,         \* where it, or the reader it returned, is
  off, len,   \* its arguments
  size,       \* the size the store's Stat reported; of "stat", the size it reports
  end,        \* the end of the plaintext range
  head, tail, \* the objects the header and the final chunk were read from
  stream,     \* the object the stream reads, or None
  pos,        \* the ciphertext offset it is at
  streamEnd,  \* where it ends
  out,        \* the plaintext returned so far
  result      \* how the call, or the read, ended

sources == <<head, tail, stream, pos, streamEnd>>
vars == <<obj, seen, failed, op, pc, off, len, size, end, sources, out, result>>

Init ==
  /\ obj \in Objects(1)
  /\ seen = {obj} /\ failed = FALSE
  /\ pc = "stat"
  /\ \/ op = "range" /\ off \in 0..MaxPlain /\ len \in (-1..MaxPlain) \cup {MaxInt}
     \/ op \in {"get", "stat"} /\ off = 0 /\ len = -1
  /\ size = 0 /\ end = 0
  /\ head = None /\ tail = None /\ stream = None /\ pos = 0 /\ streamEnd = 0
  /\ out = <<>> /\ result = "none"

-----------------------------------------------------------------------------
Return(r) == pc' = "done" /\ result' = r
Goto(at) == pc' = at /\ UNCHANGED result

\* Stat, and List and Copy for each object: the store's answer, with the size of
\* the plaintext.
StatObject ==
  /\ pc = "stat" /\ op = "stat"
  /\ \/ obj = None /\ Return("missing") /\ UNCHANGED size
     \/ obj # None /\ size' = ReportedSize(obj.size) /\ Return("ok")
  /\ UNCHANGED <<obj, seen, failed, op, off, len, end, sources, out>>

\* Mutant: offset + length is computed first, and wraps around.
EndWraps(plain) ==
  LET sum == IF off + len > MaxInt THEN off + len - 2 * (MaxInt + 1) ELSE off + len
  IN IF len > 0 /\ sum < plain THEN Most(sum, 0) ELSE plain

\* The end of the range, clamped to the plaintext.
End(plain) == IF len > 0 /\ len < plain - off THEN off + len ELSE plain

\* GetObjectRange up to openRangeSource.
Stat ==
  /\ pc = "stat" /\ op = "range"
  /\ \/ len = 0 /\ Return("invalid") /\ UNCHANGED <<size, end>>
     \/ len # 0 /\ obj = None /\ Return("missing") /\ UNCHANGED <<size, end>>
     \/ /\ len # 0 /\ obj # None
        /\ LET plain == PlaintextSize(obj.size)
           IN \/ plain = -1 /\ Return("corrupt") /\ UNCHANGED <<size, end>>
              \/ plain # -1 /\ off >= plain /\ Return("invalid") /\ UNCHANGED <<size, end>>
              \/ /\ off < plain
                 /\ size' = obj.size /\ end' = End(plain)
                 /\ Goto("open")
  /\ UNCHANGED <<obj, seen, failed, op, off, len, sources, out>>

\* readWholeSource, for a small object: one body, which is one version.
ReadWhole ==
  /\ pc = "open" /\ size <= WholeObjectSize
  /\ \/ obj = None /\ Return("missing") /\ UNCHANGED sources
     \/ /\ obj # None
        /\ head' = obj /\ tail' = obj /\ stream' = obj
        /\ pos' = 0 /\ streamEnd' = size
        /\ Goto("decrypt")
  /\ UNCHANGED <<obj, seen, failed, op, off, len, size, end, out>>

\* openChunkSource: where the regions are, ...
OpenChunks ==
  /\ pc = "open" /\ size > WholeObjectSize
  /\ pos' = ChunkSpanStart(off)
  /\ streamEnd' = Least(ChunkSpanStop(end, size), FinalChunkOffset(size))
  /\ Goto("head")
  /\ UNCHANGED <<obj, seen, failed, op, off, len, size, end, head, tail, stream, out>>

\* ... and one request for each.  fetch of [from, to): a short body is corrupt.
Fetch(from, to) ==
  IF obj = None THEN "missing" ELSE IF obj.size < to THEN "corrupt" ELSE "ok"

FetchHead ==
  /\ pc = "head"
  /\ LET got == Fetch(0, HeaderReadSize)
     IN \/ got # "ok" /\ Return(got) /\ UNCHANGED head
        \/ got = "ok" /\ head' = obj /\ Goto("tail")
  /\ UNCHANGED <<obj, seen, failed, op, off, len, size, end, tail, stream, pos, streamEnd, out>>

FetchTail ==
  /\ pc = "tail"
  /\ LET got == Fetch(FinalChunkOffset(size), size)
     IN \/ got # "ok" /\ Return(got) /\ UNCHANGED tail
        \/ got = "ok" /\ tail' = obj /\ Goto(IF pos < streamEnd THEN "stream" ELSE "decrypt")
  /\ UNCHANGED <<obj, seen, failed, op, off, len, size, end, head, stream, pos, streamEnd, out>>

\* The stream's request returns the store's error as it is.
OpenStream ==
  /\ pc = "stream"
  /\ \/ obj = None /\ Return("missing") /\ UNCHANGED stream
     \/ obj # None /\ pos >= obj.size /\ Return("invalid") /\ UNCHANGED stream
     \/ obj # None /\ pos < obj.size /\ stream' = obj /\ Goto("decrypt")
  /\ UNCHANGED <<obj, seen, failed, op, off, len, size, end, head, tail, pos, streamEnd, out>>

-----------------------------------------------------------------------------
\* age reads through the source.

Last == Chunks(size - PayloadOffset) - 1

\* DecryptReaderAt: the header, then the final chunk.  The identity is tried
\* before the nonce is read, so a header cut short may be told either way.
DecryptReaderAt ==
  /\ pc = "decrypt"
  /\ \/ head.size < PayloadOffset /\ Return("corrupt")
     \/ ~head.own /\ Return("nokey")
     \/ /\ head.size >= PayloadOffset /\ head.own
        /\ IF tail.v = head.v /\ Authentic(tail, Last, FinalChunkOffset(size), size, TRUE)
             THEN Goto("read") ELSE Return("corrupt")
  /\ UNCHANGED <<obj, seen, failed, op, off, len, size, end, sources, out>>

\* The next byte the caller wants, its chunk, and where that is.
At == off + Len(out)
Chunk == At \div ChunkSize
ChunkStart == PayloadOffset + Chunk * EncChunkSize
ChunkStop == Least(ChunkStart + EncChunkSize, size)

\* A chunk that authenticates is plaintext, as far as the range goes.
Deliver(o) ==
  IF o.v = head.v /\ Authentic(o, Chunk, ChunkStart, ChunkStop, Chunk = Last)
    THEN /\ LET n == Least((Chunk + 1) * ChunkSize, end) - At
            IN out' = out \o [i \in 1..n |-> <<o.v, At + i - 1>>]
         /\ Goto("read")
    ELSE Return("corrupt") /\ UNCHANGED out

\* ReadAt of a chunk in the tail, which is in memory.
ReadTail ==
  /\ pc = "read" /\ At < end /\ ChunkStart >= FinalChunkOffset(size)
  /\ Deliver(tail)
  /\ UNCHANGED <<obj, seen, failed, op, off, len, size, end, sources>>

\* readStream: a read behind the stream or past its end is a failure of the
\* source, a body that ends early is one of the object.
ReadStream ==
  /\ pc = "read" /\ At < end /\ ChunkStart < FinalChunkOffset(size)
  /\ \/ /\ stream = None \/ ChunkStart < pos \/ ChunkStop > streamEnd
        /\ Return("store") /\ UNCHANGED <<pos, out>>
     \/ /\ stream # None /\ ChunkStart >= pos /\ ChunkStop <= streamEnd
        /\ IF stream.size < ChunkStop
             THEN Return("corrupt") /\ UNCHANGED <<pos, out>>
             ELSE pos' = ChunkStop /\ Deliver(stream)
  /\ UNCHANGED <<obj, seen, failed, op, off, len, size, end, head, tail, stream, streamEnd>>

\* The section of the plaintext is at its end.
ReadDone ==
  /\ pc = "read" /\ At >= end
  /\ Return("ok")
  /\ UNCHANGED <<obj, seen, failed, op, off, len, size, end, sources, out>>

-----------------------------------------------------------------------------
\* GetObject: one body, which is one version, read in order.
GetObject ==
  /\ pc = "stat" /\ op = "get"
  /\ \/ obj = None /\ Return("missing") /\ UNCHANGED stream
     \/ obj # None /\ stream' = obj /\ Goto("header")
  /\ UNCHANGED <<obj, seen, failed, op, off, len, size, end, head, tail, pos, streamEnd, out>>

\* age.Decrypt reads the header and the nonce.
Decrypt ==
  /\ pc = "header"
  /\ \/ stream.size < PayloadOffset /\ Return("corrupt") /\ UNCHANGED pos
     \/ ~stream.own /\ Return("nokey") /\ UNCHANGED pos
     \/ stream.size >= PayloadOffset /\ stream.own /\ pos' = PayloadOffset /\ Goto("plain")
  /\ UNCHANGED <<obj, seen, failed, op, off, len, size, end, head, tail, stream, streamEnd, out>>

\* plainReader.Read: the next chunk, the last one if it authenticates as that;
\* after it the plaintext is at its end.
ReadPlain ==
  /\ pc = "plain"
  /\ LET i == Len(out) \div ChunkSize
         stop == Least(pos + EncChunkSize, stream.size)
         n == Least((i + 1) * ChunkSize, stream.n) - Len(out)
     IN \/ /\ \E last \in BOOLEAN : /\ Authentic(stream, i, pos, stop, last)
                                    /\ IF last THEN Return("ok") ELSE Goto("plain")
           /\ pos' = stop
           /\ out' = out \o [j \in 1..n |-> <<stream.v, Len(out) + j - 1>>]
        \/ /\ \A last \in BOOLEAN : ~Authentic(stream, i, pos, stop, last)
           /\ Return("corrupt") /\ UNCHANGED <<pos, out>>
  /\ UNCHANGED <<obj, seen, failed, op, off, len, size, end, head, tail, stream, streamEnd>>

-----------------------------------------------------------------------------
\* A request fails, or a body does while it is read: the store's own error.
StoreFails ==
  /\ pc \in {"stat", "open", "head", "tail", "stream", "header", "plain"} \/ (pc = "read" /\ At < end /\ stream # None)
  /\ failed' = TRUE
  /\ Return("store")
  /\ UNCHANGED <<obj, seen, op, off, len, size, end, sources, out>>

\* Another client puts the object again, or deletes it.
Change ==
  /\ pc # "done"
  /\ \E v \in {v \in 2..MaxVersion : \A o \in seen : o # None => o.v < v} :
       obj' \in Objects(v) \cup {None}
  /\ obj' # obj
  /\ seen' = seen \cup {obj'}
  /\ UNCHANGED <<failed, op, pc, off, len, size, end, sources, out, result>>

Done == pc = "done" /\ UNCHANGED vars

Next ==
  \/ StatObject \/ GetObject \/ Decrypt \/ ReadPlain
  \/ Stat \/ ReadWhole \/ OpenChunks \/ FetchHead \/ FetchTail \/ OpenStream
  \/ DecryptReaderAt \/ ReadTail \/ ReadStream \/ ReadDone
  \/ StoreFails \/ Change \/ Done

Spec == Init /\ [][Next]_vars

-----------------------------------------------------------------------------
\* The bytes off, off + 1, ... of the plaintext of o that GetObjectRange is asked
\* for, by definition.
Wanted(o) == {i \in 0..(o.n - 1) : i >= off /\ (len < 0 \/ i - off < len)}

\* A read that ends well, of a range or of all, has returned exactly the wanted bytes of one object
\* that was stored during the call: never bytes of two versions, never fewer, also
\* when the object is overwritten between the requests and for a length whose sum
\* with the offset overflows.
RangeIsExact == result = "ok" /\ op # "stat" =>
  \E o \in seen : /\ o # None /\ o.own
                  /\ Len(out) = Cardinality(Wanted(o))
                  /\ \A i \in 1..Len(out) : out[i] = <<o.v, off + i - 1>>

\* The range begins behind the plaintext that some stored size stands for.
PastEnd ==
  \E o \in seen : o # None /\ PlaintextSize(o.size) # -1 /\ off >= PlaintextSize(o.size)

\* NOT PROMISED: the object was overwritten by one so short that the stream's request
\* begins behind it.  openRangeSource says "an object shorter than its Stat said is
\* ErrCorruptObject" (encrypted/range.go:70-71), and ErrCorruptObject covers an object
\* "overwritten mid-read" (errors.go:22-23, README.md:247-249), but this request alone
\* is not a fetch, and the store's ErrInvalidRange is returned as it is
\* (range.go:131-134).
ShortAtStream == tail # None /\ \E o \in seen : o # None /\ o.size <= pos

\* A failure is told as what it was: the store's error only if the store failed, a
\* corrupt object only if it was damaged or replaced, no key only for another
\* identity's object, an invalid range only for one outside the plaintext, or in the
\* case of ShortAtStream, in which the code does not keep its own word.  Left alone,
\* a good object is read, and no read age makes falls outside the regions that were
\* fetched.  An object cut to a size that some shorter plaintext has is taken for
\* that plaintext until its bytes are read, so a range behind it is invalid too.
FailuresAreTold ==
  LET changed == Cardinality(seen) > 1
      damaged == \E o \in seen : o # None /\ o.size # EncryptedSize(o.n)
  IN /\ result = "store" => failed
     /\ result = "corrupt" => changed \/ damaged
     /\ result = "nokey" => \E o \in seen : o # None /\ ~o.own
     /\ result = "missing" => None \in seen
     /\ result = "invalid" => changed \/ damaged \/ \A o \in seen : Wanted(o) = {}
     /\ result = "invalid" => len = 0 \/ PastEnd \/ ShortAtStream

\* plaintextSize inverts the layout: of every size that is stored, cut short or
\* not, it is the length of the plaintext encrypted to that size, and it refuses a
\* size to which nothing can be encrypted.  What Stat, List and Copy report is the
\* length of the plaintext of an object that was stored, and the stored size only
\* of a damaged one.
SizesInvert ==
  /\ obj # None =>
       IF \E n \in 0..MaxPlain : obj.size = EncryptedSize(n)
         THEN obj.size = EncryptedSize(PlaintextSize(obj.size))
         ELSE PlaintextSize(obj.size) = -1
  /\ op = "stat" /\ result = "ok" =>
       \E o \in seen : /\ o # None
                       /\ \/ size = o.n
                          \/ o.size < EncryptedSize(o.n) /\ size = ReportedSize(o.size)
=============================================================================
