-------------------------------- MODULE Reads --------------------------------
(***************************************************************************)
(* GetObject, GetObjectRange, Stat and Exists of the four backends, one    *)
(* step per call to the filesystem, the server or the service, while other *)
(* clients overwrite and delete the object.                                *)
(*                                                                         *)
(* An object is its version and its length; what is read is a sequence of  *)
(* <<version, position>>.  A file that is open, and a body that is being   *)
(* received, stay at the version they were opened at: every backend        *)
(* replaces objects and never writes to one (ReadersKeepTheirVersion).     *)
(***************************************************************************)
EXTENDS Integers, Sequences

CONSTANTS
  MaxLen,      \* bound: the longest object
  MaxVersion,  \* bound: how often the object is put
  MaxInt,      \* the largest int64
  Dir,         \* the key names a directory, in a tree
  None

ASSUME ReadsAssumption ==
  MaxLen \in Nat /\ MaxVersion \in Nat \ {0} /\ MaxInt \in Nat /\ MaxLen < MaxInt

VARIABLES
  kind,      \* the backend
  obj,       \* what is stored under the key
  seen,      \* history: what has been stored under it since the call began
  failed,    \* history: a request has failed
  op,        \* the call
  off, len,  \* its range
  pc,        \* what it does next
  file,      \* the open file or body, or None
  span,      \* the positions <<first, end>> a reader is to deliver
  out,       \* what it has delivered
  result     \* how the call, or the reader it returned, ended

args == <<kind, op, off, len>>
store == <<obj, seen>>
vars == <<args, store, failed, pc, file, span, out, result>>

Trees == {"fs", "ssh"}
Buckets == {"s3", "azure"}
Objects(v) == [v : {v}, n : 0..MaxLen]

ASSUME DirIsNoObject == Dir # None /\ \A v \in 1..MaxVersion : Dir \notin Objects(v)
Least(a, b) == IF a < b THEN a ELSE b

Init ==
  /\ kind \in Trees \cup Buckets
  /\ obj \in Objects(1) \cup {None} \cup (IF kind \in Trees THEN {Dir} ELSE {})
  /\ seen = {obj} /\ failed = FALSE
  /\ op \in {"get", "range", "stat", "exists"}
  /\ off \in IF op = "range" THEN (-1..(MaxLen + 1)) \cup {MaxInt} ELSE {0}
  /\ len \in IF op = "range" THEN (-1..MaxLen) \cup {MaxInt} ELSE {-1}
  /\ pc = "call"
  /\ file = None /\ span = <<0, 0>> /\ out = <<>> /\ result = "none"

-----------------------------------------------------------------------------
Return(r) == pc' = "done" /\ result' = r
Goto(at) == pc' = at /\ UNCHANGED result

\* A call ends with r; what it has open, it closes.
CloseQuietly(r) == file' = None /\ Return(r) /\ UNCHANGED span

\* The reader over o that delivers the positions from first up to end.
Reader(o, first, end) == file' = o /\ span' = <<first, end>> /\ Goto("read")

All(o) == IF o = Dir THEN 0 ELSE o.n

\* The size the filesystem or the server reports; that of a directory is anything.
Sizes(o) == IF o = Dir THEN {0, MaxLen} ELSE {o.n}

\* The end of the file, unless that of the range comes before it.
Clamp(n) == IF len >= 0 /\ len < n - off THEN off + len ELSE n

\* Every GetObjectRange refuses a range that yields nothing of any object.
Call ==
  /\ pc = "call"
  /\ \/ op = "range" /\ (off < 0 \/ len = 0) /\ Return("invalid")
     \/ ~(op = "range" /\ (off < 0 \/ len = 0)) /\ Goto(IF kind = "ssh" THEN "client" ELSE "open")
  /\ UNCHANGED <<args, store, failed, file, span, out>>

Open(k) == kind = k /\ pc = "open" /\ op \in {"get", "range"}

\* Stat and Exists: one request, and a missing object is an answer.
Found(k, o) ==
  /\ kind = k /\ pc = "open" /\ op = o
  /\ Return(IF obj = None THEN "absent" ELSE "present")
  /\ UNCHANGED <<args, store, failed, file, span, out>>

-----------------------------------------------------------------------------
\* The trees: the file is opened, and for a range its size is asked for.

OpenFile ==
  /\ \/ obj = None /\ CloseQuietly("missing")
     \/ obj # None /\ op = "get" /\ Reader(obj, 0, All(obj))
     \/ obj # None /\ op = "range" /\ file' = obj /\ Goto("size") /\ UNCHANGED span
  /\ UNCHANGED <<args, store, failed, out>>

SizeOf(k) == kind = k /\ pc = "size"
CheckSize ==
  /\ \E n \in Sizes(file) :
       \/ off >= n /\ CloseQuietly("invalid")
       \/ off < n /\ Reader(file, off, Clamp(n))
  /\ UNCHANGED <<args, store, failed, out>>

\* internal/fsbackend: f.Stat, and a SectionReader or, to the end, f at the offset.
FsOpen == Open("fs") /\ OpenFile
FsSize == SizeOf("fs") /\ CheckSize
FsStat == Found("fs", "stat")
FsExists == Found("fs", "exists")

\* Mutant: the file stays open when the range is refused.
SshSizeLeaks ==
  /\ SizeOf("ssh")
  /\ \E n \in Sizes(file) :
       \/ off >= n /\ Return("invalid") /\ UNCHANGED <<file, span>>
       \/ off < n /\ Reader(file, off, Clamp(n))
  /\ UNCHANGED <<args, store, failed, out>>

\* ssh: the connection first, see SftpLazy; then Stat, Seek and a LimitReader.
SshClient ==
  /\ pc = "client"
  /\ Goto("open")
  /\ UNCHANGED <<args, store, failed, file, span, out>>

SshOpen == Open("ssh") /\ OpenFile
SshSize == SizeOf("ssh") /\ CheckSize
SshStat == Found("ssh", "stat")
SshExists == Found("ssh", "exists")

-----------------------------------------------------------------------------
\* s3.  A header is <<first, last>>, or <<first>> for "to the end".

\* Mutant: the last position is computed whatever the length, and wraps around.
ByteRangeHeaderWraps ==
  IF len < 0 THEN <<off>>
  ELSE LET last == off + len - 1
       IN <<off, IF off + len > MaxInt THEN last - 2 * (MaxInt + 1) ELSE last>>

ByteRangeHeader == IF len < 0 \/ off > MaxInt - len THEN <<off>> ELSE <<off, off + len - 1>>

\* The service's answer: the positions <<first, end>>, {} if the range begins at or
\* after the end.  A header whose last position is before the first is ignored.
ServeS3(o, h) ==
  IF h = <<>> THEN {<<0, o.n>>}
  ELSE IF Len(h) = 2 /\ h[2] < h[1] THEN {<<0, o.n>>}
  ELSE IF h[1] >= o.n THEN {}
  ELSE {<<h[1], IF Len(h) = 1 THEN o.n ELSE Least(h[2] + 1, o.n)>>}

S3GetObject ==
  /\ Open("s3")
  /\ \/ obj = None /\ CloseQuietly("missing")
     \/ /\ obj # None
        /\ LET s == ServeS3(obj, IF op = "get" THEN <<>> ELSE ByteRangeHeader)
           IN \/ s = {} /\ CloseQuietly("invalid")
              \/ \E r \in s : Reader(obj, r[1], r[2])
  /\ UNCHANGED <<args, store, failed, out>>

S3Stat == Found("s3", "stat")
S3Exists == Found("s3", "exists")

-----------------------------------------------------------------------------
\* azure.  A range is an offset and a count, of which 0 means to the end.

Count == IF len < 0 THEN 0 ELSE len

\* The SDK sends the last position, offset + count - 1 in int64, which may wrap around:
\* the code passes both as they are, without the guard of ByteRangeHeader.
CountWraps == Count > 0 /\ off + Count - 1 > MaxInt

\* The service's answer to a range that did not wrap; one that begins at the end is
\* an empty success.
ServeAzure(o, count) ==
  IF off > o.n THEN {} ELSE {<<off, IF count = 0 \/ count >= o.n - off THEN o.n ELSE off + count>>}

AzureDownload ==
  /\ Open("azure")
  /\ \/ obj = None /\ CloseQuietly("missing")
     \/ obj # None /\ op = "get" /\ Reader(obj, 0, obj.n)
     \/ /\ obj # None /\ op = "range" /\ ~CountWraps
        /\ LET s == ServeAzure(obj, Count)
           IN \/ s = {} /\ CloseQuietly("invalid")
              \/ \E r \in s : \/ r[1] = r[2] /\ CloseQuietly("invalid")
                              \/ r[1] < r[2] /\ Reader(obj, r[1], r[2])
  /\ UNCHANGED <<args, store, failed, out>>

\* A range that ends before it begins: the service refuses it in one way or another,
\* or ignores it and sends all of the blob, which the code cannot tell.
AzureWrapped ==
  /\ Open("azure") /\ obj # None /\ op = "range" /\ CountWraps
  /\ \/ CloseQuietly("invalid") \/ CloseQuietly("error")
     \/ obj.n > 0 /\ Reader(obj, 0, obj.n)
  /\ UNCHANGED <<args, store, failed, out>>

AzureStat == Found("azure", "stat")
AzureExists == Found("azure", "exists")

-----------------------------------------------------------------------------
\* The caller reads to the end and closes.  A directory cannot be read.
Read ==
  /\ pc = "read" /\ file # Dir
  /\ out' = [i \in 1..(span[2] - span[1]) |-> <<file.v, span[1] + i - 1>>]
  /\ CloseQuietly("ok")
  /\ UNCHANGED <<args, store, failed>>

ReadDir ==
  /\ pc = "read" /\ file = Dir
  /\ CloseQuietly("error")
  /\ UNCHANGED <<args, store, failed, out>>

\* A request fails, the connection drops, ctx ends.  The ssh backend reports every
\* failure to open as a missing object.
Fail ==
  /\ pc \in {"client", "open", "size", "read"}
  /\ failed' = TRUE
  /\ CloseQuietly(IF Open("ssh") THEN "missing" ELSE "error")
  /\ UNCHANGED <<args, store, out>>

\* Another client puts the object again, or deletes it; in a tree a directory may
\* come and go in its place.
Change ==
  /\ pc # "done"
  /\ \E v \in {v \in 2..MaxVersion : \A o \in seen : o \in {None, Dir} \/ o.v < v} :
       \/ obj # Dir /\ obj' \in Objects(v) \cup {None}
       \/ obj = Dir /\ obj' = None
       \/ obj = None /\ kind \in Trees /\ obj' = Dir
  /\ obj' # obj
  /\ seen' = seen \cup {obj'}
  /\ UNCHANGED <<args, failed, pc, file, span, out, result>>

Done == pc = "done" /\ UNCHANGED vars

Next ==
  \/ Call \/ FsOpen \/ FsSize \/ FsStat \/ FsExists
  \/ SshClient \/ SshOpen \/ SshSize \/ SshStat \/ SshExists
  \/ S3GetObject \/ S3Stat \/ S3Exists
  \/ AzureDownload \/ AzureWrapped \/ AzureStat \/ AzureExists
  \/ Read \/ ReadDir \/ Fail \/ Change \/ Done

Spec == Init /\ [][Next]_vars

-----------------------------------------------------------------------------
\* The positions the caller asked for, by definition.
Wanted(o) == {i \in 0..(o.n - 1) : i >= off /\ (len < 0 \/ i - off < len)}
IsObject(o) == o \notin {None, Dir}

\* NOT PROMISED, three cases in which the code does not keep the repository's word.
\* On azure a length whose sum with the offset overflows, where storager.go:60 says that
\* a range past the end "is clamped" (azure/storage.go:303-310).
WrapsOnAzure == kind = "azure" /\ op = "range" /\ CountWraps
\* In a tree the name of a directory, which Exists and Stat report as there, where
\* storager.go:89 says "Exists reports whether fileName is an object", and which
\* GetObject opens (internal/fsbackend/backend.go and ssh/storage.go).
DirectoryAsObject == kind \in Trees /\ Dir \in seen
\* On ssh an open that fails for whatever reason, a dropped connection too, is reported
\* as ErrFileNotFound, which errors.go:8-9 keeps for "not an existing object"
\* (ssh/storage.go:229-233, 257-261).
FailedOpenAsMissing == kind = "ssh" /\ op \in {"get", "range"} /\ failed

\* README.md, the contract of GetObject and GetObjectRange: on every backend a
\* read that ends well has delivered exactly the bytes that were asked for, clamped
\* to the end, of one version stored during the call, and a range never comes out
\* empty.  This holds for every length whose sum with the offset overflows, except in
\* the case of WrapsOnAzure; there a read still delivers one whole version.
ReadsTheRange == result = "ok" =>
  \E o \in seen :
    /\ IsObject(o)
    /\ {out[i] : i \in DOMAIN out} =
         {<<o.v, i>> : i \in IF WrapsOnAzure THEN 0..(o.n - 1) ELSE Wanted(o)}
    /\ WrapsOnAzure \/ \A i \in DOMAIN out : out[i][2] = off + i - 1
    /\ op = "range" => out # <<>>

\* An error is told as what it was, on every backend alike: a missing object was
\* missing at some time of the call, a range was invalid for an object stored then,
\* anything else is a request that failed; Exists and Stat tell what was there.
\* And a call that has failed holds no file or body open.  The three cases above are
\* the only exceptions.
ErrorsAreTold ==
  /\ result = "absent" => None \in seen
  /\ result = "missing" => None \in seen \/ FailedOpenAsMissing
  /\ result = "present" => (\E o \in seen : IsObject(o)) \/ DirectoryAsObject
  /\ result = "invalid" => \/ off < 0 \/ len = 0 \/ \E o \in seen : IsObject(o) /\ Wanted(o) = {}
                           \/ DirectoryAsObject \/ WrapsOnAzure
  /\ result = "error" => failed \/ DirectoryAsObject \/ WrapsOnAzure
  /\ pc = "done" => file = None
=============================================================================
