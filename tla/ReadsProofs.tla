---------------------------- MODULE ReadsProofs ----------------------------
(***************************************************************************)
(* Proofs about Reads, for objects of any length, any number of versions   *)
(* and any range of int64.  The invariant says that whichever way a        *)
(* backend came to it, the reader it returns is over the positions from    *)
(* the offset to the end of the range, clamped to the object's end.        *)
(***************************************************************************)
EXTENDS Reads, TLAPS

Stored == [v : Nat, n : 0..MaxLen] \cup {None, Dir}
Results == {"none", "ok", "missing", "absent", "present", "invalid", "error"}

\* The arguments are a call's, and what is stored is an object, a directory or nothing.
TypeOK ==
  /\ kind \in Trees \cup Buckets /\ op \in {"get", "range", "stat", "exists"}
  /\ off \in Int /\ len \in Int /\ len <= MaxInt
  /\ op # "range" => off = 0 /\ len = -1
  /\ seen \subseteq Stored /\ obj \in seen /\ (Dir \in seen => kind \in Trees)
  /\ failed \in BOOLEAN
  /\ pc \in {"call", "client", "open", "size", "read", "done"} /\ result \in Results

\* A call that goes on has a range that is not refused, and an open file or body only
\* between opening it and the end.
CallInv ==
  /\ pc # "done" <=> result = "none"
  /\ pc \notin {"call", "done"} /\ op = "range" => off >= 0 /\ len # 0
  /\ pc \notin {"size", "read"} => file = None
  /\ pc \in {"size", "read"} => file \in seen \ {None}
  /\ pc = "size" => op = "range"
  /\ pc = "read" => op \in {"get", "range"}

\* What the reader is to deliver, whatever the backend.
SpanInv == pc = "read" /\ file # Dir =>
  IF WrapsOnAzure THEN span = <<0, file.n>> /\ file.n > 0
  ELSE span = <<off, Clamp(file.n)>> /\ (op = "range" => off < file.n)

Inv == TypeOK /\ CallInv /\ SpanInv /\ ReadsTheRange /\ ErrorsAreTold

-----------------------------------------------------------------------------
USE DEF Trees, Buckets

\* A stored object that is neither nothing nor a directory has a length.
LEMMA ObjectType ==
  ASSUME TypeOK, NEW o \in seen, o # None, o # Dir
  PROVE  o.v \in Nat /\ o.n \in Nat /\ o.n <= MaxLen
BY ReadsAssumption DEF TypeOK, Stored

\* The Range header, with its guard against overflow, ends where the trees' comparison
\* clamps the range.
LEMMA HeaderClamps ==
  ASSUME TypeOK, NEW n \in Nat, n <= MaxLen, off >= 0, off < n, len # 0
  PROVE  IF len < 0 \/ off > MaxInt - len THEN Clamp(n) = n
         ELSE off + len - 1 >= off /\ Clamp(n) = Least((off + len - 1) + 1, n)
BY ReadsAssumption DEF TypeOK, Clamp, Least

\* So does azure's count.
LEMMA CountClamps ==
  ASSUME TypeOK, NEW n \in Nat, off <= n, len # 0
  PROVE  Clamp(n) = IF Count = 0 \/ Count >= n - off THEN n ELSE off + Count
BY DEF TypeOK, Clamp, Count

\* A clamped range holds the positions that were asked for, and one that begins before
\* the end is not empty.
LEMMA ClampIsWanted ==
  ASSUME TypeOK, NEW o, o.n \in Nat, op = "range" => off >= 0 /\ len # 0 /\ off < o.n
  PROVE  /\ Clamp(o.n) \in Int /\ off \in Nat /\ off <= Clamp(o.n)
         /\ op = "range" => off < Clamp(o.n)
         /\ Wanted(o) = off..(Clamp(o.n) - 1)
<1>1. off \in Nat /\ Clamp(o.n) \in Int
  BY DEF TypeOK, Clamp
<1>2. off <= Clamp(o.n) /\ (op = "range" => off < Clamp(o.n))
  BY DEF TypeOK, Clamp
<1>3. ASSUME NEW i \in Int
      PROVE  i \in Wanted(o) <=> i >= off /\ i <= Clamp(o.n) - 1
  BY <1>1 DEF TypeOK, Clamp, Wanted
<1> QED  BY <1>1, <1>2, <1>3 DEF Wanted

-----------------------------------------------------------------------------
\* A call that ends otherwise than well only has to tell why.
LEMMA EndInv ==
  ASSUME Inv, UNCHANGED <<args, store>>, failed' \in BOOLEAN,
         pc' = "done", file' = None, result' \in Results \ {"none", "ok"}, ErrorsAreTold'
  PROVE  Inv'
<1> USE DEF Inv, args, store
<1>1. TypeOK' /\ CallInv' /\ SpanInv'
  BY DEF TypeOK, CallInv, SpanInv
<1>2. ReadsTheRange'
  BY DEF ReadsTheRange
<1> QED  BY <1>1, <1>2

\* A call that goes on keeps what it has open, or opens what is stored now.
LEMMA GoInv ==
  ASSUME Inv, UNCHANGED <<args, store, failed>>, NEW at \in {"client", "open", "size", "read"},
         Goto(at), pc # "done", CallInv', SpanInv'
  PROVE  Inv'
<1> USE DEF Inv, args, store, Goto
<1>1. TypeOK'
  BY DEF TypeOK
<1>2. result' = "none"
  BY DEF CallInv
<1>3. ReadsTheRange' /\ ErrorsAreTold'
  BY <1>2 DEF ReadsTheRange, ErrorsAreTold
<1> QED  BY <1>1, <1>3

\* Stat and Exists tell what is there.
LEMMA FoundInv ==
  ASSUME Inv, NEW k, NEW o, Found(k, o)
  PROVE  Inv'
<1> USE DEF Found, Return
<1>1. ErrorsAreTold'
  BY DEF Inv, TypeOK, CallInv, ErrorsAreTold, IsObject, DirectoryAsObject, args, store
<1> QED  BY <1>1, EndInv DEF Inv, TypeOK, CallInv, Results

\* The object is gone when it is opened.
LEMMA MissingInv ==
  ASSUME Inv, obj = None, CloseQuietly("missing"), UNCHANGED <<args, store, failed>>
  PROVE  Inv'
<1> USE DEF CloseQuietly, Return
<1>1. ErrorsAreTold'
  BY DEF Inv, TypeOK, ErrorsAreTold, store
<1> QED  BY <1>1, EndInv DEF Inv, TypeOK, Results

\* A range is refused for an object that has nothing of it.
LEMMA RefusedInv ==
  ASSUME Inv, op = "range", NEW o \in seen, o # None,
         o # Dir => off >= o.n \/ WrapsOnAzure,
         CloseQuietly("invalid"), UNCHANGED <<args, store, failed>>
  PROVE  Inv'
<1> USE DEF CloseQuietly, Return
<1>1. o = Dir \/ Wanted(o) = {} \/ WrapsOnAzure
  BY ObjectType DEF Inv, TypeOK, Wanted
<1>2. ErrorsAreTold'
  BY <1>1 DEF Inv, TypeOK, ErrorsAreTold, store, args, Wanted, IsObject, DirectoryAsObject,
              WrapsOnAzure, CountWraps, Count
<1> QED  BY <1>2, EndInv DEF Inv, TypeOK, Results

\* A reader is returned over the clamped range.
LEMMA ReaderInv ==
  ASSUME Inv, pc \in {"open", "size"}, op \in {"get", "range"}, NEW o \in seen, o # None,
         NEW first, NEW end, Reader(o, first, end), UNCHANGED <<args, store, failed>>,
         o # Dir => IF WrapsOnAzure THEN first = 0 /\ end = o.n /\ o.n > 0
                    ELSE first = off /\ end = Clamp(o.n) /\ (op = "range" => off < o.n)
  PROVE  Inv'
<1> USE DEF Reader, Goto
<1>1. CallInv'
  BY DEF Inv, CallInv, args, store
<1>2. SpanInv'
  BY DEF SpanInv, args, Clamp, WrapsOnAzure, CountWraps, Count
<1> QED  BY <1>1, <1>2, GoInv

\* Reading all of an object is reading from 0 without a length.
LEMMA WholeIsClamped ==
  ASSUME TypeOK, op = "get", NEW n \in Nat
  PROVE  off = 0 /\ Clamp(n) = n
BY DEF TypeOK, Clamp

\* fs and ssh open the file.
LEMMA OpenFileInv ==
  ASSUME Inv, kind \in Trees, pc = "open", op \in {"get", "range"}, OpenFile
  PROVE  Inv'
<1> USE DEF OpenFile
<1>1. CASE obj = None
  BY <1>1, MissingInv
<1>2. CASE obj # None /\ op = "get"
  <2>1. Reader(obj, 0, All(obj)) /\ obj \in seen
    BY <1>2 DEF Inv, TypeOK
  <2>2. obj # Dir => 0 = off /\ All(obj) = Clamp(obj.n)
    BY <1>2, <2>1, ObjectType, WholeIsClamped DEF Inv, All
  <2> QED  BY <1>2, <2>1, <2>2, ReaderInv DEF WrapsOnAzure
<1>3. CASE obj # None /\ op = "range"
  <2>1. file' = obj /\ Goto("size") /\ UNCHANGED span
    BY <1>3
  <2>2. CallInv' /\ SpanInv'
    BY <1>3, <2>1 DEF Inv, TypeOK, CallInv, SpanInv, Goto, args, store
  <2> QED  BY <2>1, <2>2, GoInv
<1> QED  BY <1>1, <1>2, <1>3

\* ... and compare the range with the file's size.
LEMMA CheckSizeInv ==
  ASSUME Inv, kind \in Trees, pc = "size", CheckSize
  PROVE  Inv'
<1>1. file \in seen /\ file # None /\ op = "range"
  BY DEF Inv, CallInv
<1>2. PICK n \in Sizes(file) : \/ off >= n /\ CloseQuietly("invalid")
                               \/ off < n /\ Reader(file, off, Clamp(n))
  BY DEF CheckSize
<1>3. file # Dir => n = file.n
  BY <1>2 DEF Sizes
<1>4. UNCHANGED <<args, store, failed>>
  BY DEF CheckSize
<1>5. CASE off >= n /\ CloseQuietly("invalid")
  BY <1>1, <1>3, <1>4, <1>5, RefusedInv
<1>6. CASE off < n /\ Reader(file, off, Clamp(n))
  BY <1>1, <1>3, <1>4, <1>6, ReaderInv DEF WrapsOnAzure
<1> QED  BY <1>2, <1>5, <1>6

\* s3: whatever the header, the service's answer is the clamped range, and none when
\* the range begins at or after the end.
LEMMA ServeS3Clamps ==
  ASSUME TypeOK, NEW o, o.n \in Nat, o.n <= MaxLen, off >= 0, len # 0
  PROVE  IF off >= o.n THEN ServeS3(o, ByteRangeHeader) = {}
         ELSE ServeS3(o, ByteRangeHeader) = {<<off, Clamp(o.n)>>}
<1>1. off \in Int /\ len \in Int /\ MaxInt \in Int
  BY ReadsAssumption DEF TypeOK
<1>2. CASE len < 0 \/ off > MaxInt - len
  <2>1. ByteRangeHeader = <<off>> /\ ByteRangeHeader # <<>>
    BY <1>2 DEF ByteRangeHeader
  <2> QED  BY <1>1, <1>2, <2>1, HeaderClamps DEF ServeS3
<1>3. CASE ~(len < 0 \/ off > MaxInt - len)
  <2> DEFINE h == <<off, off + len - 1>>
  <2>1. ByteRangeHeader = h /\ h # <<>> /\ Len(h) = 2 /\ h[1] = off /\ h[2] = off + len - 1
    BY <1>1, <1>3 DEF ByteRangeHeader
  <2>2. ~(h[2] < h[1])
    BY <1>1, <1>3, <2>1
  <2> QED  BY <1>1, <1>3, <2>1, <2>2, HeaderClamps DEF ServeS3
<1> QED  BY <1>2, <1>3

\* s3: GetObject with or without a Range header.
LEMMA S3GetObjectInv ==
  ASSUME Inv, S3GetObject
  PROVE  Inv'
<1>1. pc = "open" /\ op \in {"get", "range"} /\ UNCHANGED <<args, store, failed>> /\ TypeOK /\ obj \in seen
  BY DEF S3GetObject, Open, Inv, TypeOK
<1>5. ~WrapsOnAzure /\ obj # Dir
  BY <1>1 DEF S3GetObject, Open, WrapsOnAzure, TypeOK
<1>2. CASE obj = None
  BY <1>1, <1>2, MissingInv DEF S3GetObject
<1>4. CASE obj # None /\ obj # Dir
  <2> DEFINE S == ServeS3(obj, IF op = "get" THEN <<>> ELSE ByteRangeHeader)
  <2>1. obj.n \in Nat /\ obj.n <= MaxLen
    BY <1>1, <1>4, ObjectType
  <2>2. (S = {} /\ CloseQuietly("invalid")) \/ \E r \in S : Reader(obj, r[1], r[2])
    BY <1>4 DEF S3GetObject
  <2>3. CASE op = "get"
    <3>1. S = {<<0, obj.n>>}
      BY <2>3 DEF ServeS3
    <3>2. Reader(obj, off, Clamp(obj.n))
      <4>1. PICK r \in {<<0, obj.n>>} : Reader(obj, r[1], r[2])
        BY <2>2, <3>1
      <4>2. r[1] = off /\ r[2] = Clamp(obj.n)
        BY <1>1, <2>1, <2>3, WholeIsClamped
      <4> QED  BY <4>1, <4>2 DEF Reader
    <3> QED  BY <1>1, <1>4, <1>5, <2>3, <3>2, ReaderInv
  <2>4. CASE op = "range"
    <3>1. off >= 0 /\ len # 0 /\ off \in Int
      BY <1>1, <2>4 DEF Inv, TypeOK, CallInv
    <3>2. CASE off >= obj.n
      <4>1. S = {}
        BY <1>1, <2>1, <2>4, <3>1, <3>2, ServeS3Clamps
      <4> QED  BY <1>1, <1>4, <2>2, <2>4, <3>2, <4>1, RefusedInv
    <3>3. CASE off < obj.n
      <4>1. S = {<<off, Clamp(obj.n)>>}
        BY <1>1, <2>1, <2>4, <3>1, <3>3, ServeS3Clamps
      <4>2. Reader(obj, off, Clamp(obj.n))
        <5>1. PICK r \in {<<off, Clamp(obj.n)>>} : Reader(obj, r[1], r[2])
          BY <2>2, <4>1
        <5>2. r[1] = off /\ r[2] = Clamp(obj.n)
          OBVIOUS
        <5> QED  BY <5>1, <5>2 DEF Reader
      <4> QED  BY <1>1, <1>4, <1>5, <3>3, <4>2, ReaderInv
    <3> QED  BY <2>1, <3>1, <3>2, <3>3
  <2> QED  BY <1>1, <2>3, <2>4
<1> QED  BY <1>2, <1>4, <1>5

\* azure: DownloadStream, with the empty success at the end taken for a refusal.
LEMMA AzureDownloadInv ==
  ASSUME Inv, AzureDownload
  PROVE  Inv'
<1>1. pc = "open" /\ op \in {"get", "range"} /\ UNCHANGED <<args, store, failed>> /\ TypeOK /\ obj \in seen
  BY DEF AzureDownload, Open, Inv, TypeOK
<1>5. obj # Dir
  BY <1>1 DEF AzureDownload, Open, TypeOK
<1>2. CASE obj = None
  BY <1>1, <1>2, MissingInv DEF AzureDownload
<1>4. CASE obj # None /\ obj # Dir
  <2>1. obj.n \in Nat /\ obj.n <= MaxLen
    BY <1>1, <1>4, ObjectType
  <2>2. CASE op = "get"
    <3>1. Reader(obj, off, Clamp(obj.n))
      BY <1>1, <1>4, <2>1, <2>2, WholeIsClamped DEF AzureDownload
    <3> QED  BY <1>1, <1>4, <2>2, <3>1, ReaderInv DEF WrapsOnAzure
  <2>3. CASE op = "range"
    <3>5. ~WrapsOnAzure
      BY <1>4, <2>3 DEF AzureDownload, WrapsOnAzure
    <3> DEFINE S == ServeAzure(obj, Count)
    <3>1. off >= 0 /\ len # 0 /\ off \in Int
      BY <1>1, <2>3 DEF Inv, TypeOK, CallInv
    <3>2. \/ S = {} /\ CloseQuietly("invalid")
          \/ \E r \in S : \/ r[1] = r[2] /\ CloseQuietly("invalid")
                          \/ r[1] < r[2] /\ Reader(obj, r[1], r[2])
      BY <1>4, <2>3 DEF AzureDownload
    <3>3. CASE off > obj.n
      <4>1. S = {}
        BY <3>3 DEF ServeAzure
      <4> QED  BY <1>1, <1>4, <2>1, <2>3, <3>1, <3>2, <3>3, <4>1, RefusedInv
    <3>4. CASE off <= obj.n
      <4>1. S = {<<off, Clamp(obj.n)>>}
        BY <1>1, <2>1, <3>1, <3>4, CountClamps DEF ServeAzure
      <4>2. \/ off = Clamp(obj.n) /\ CloseQuietly("invalid")
            \/ off < Clamp(obj.n) /\ Reader(obj, off, Clamp(obj.n))
        <5>1. S # {}
          BY <4>1
        <5>2. PICK r \in S : \/ r[1] = r[2] /\ CloseQuietly("invalid")
                             \/ r[1] < r[2] /\ Reader(obj, r[1], r[2])
          BY <3>2, <5>1
        <5>3. r[1] = off /\ r[2] = Clamp(obj.n)
          BY <4>1
        <5> QED  BY <5>2, <5>3 DEF Reader
      <4>3. off = Clamp(obj.n) <=> off = obj.n
        BY <1>1, <2>1, <3>1, <3>4 DEF Clamp, TypeOK
      <4>4. CASE off = obj.n
        BY <1>1, <1>4, <2>1, <2>3, <3>1, <4>2, <4>3, <4>4, RefusedInv
      <4>5. CASE off < obj.n
        BY <1>1, <1>4, <2>1, <3>1, <3>5, <4>2, <4>3, <4>5, ReaderInv
      <4> QED  BY <2>1, <3>1, <3>4, <4>4, <4>5
    <3> QED  BY <2>1, <3>1, <3>3, <3>4
  <2> QED  BY <1>1, <2>2, <2>3
<1> QED  BY <1>2, <1>4, <1>5

\* ... and with a last position that has wrapped around.
LEMMA AzureWrappedInv ==
  ASSUME Inv, AzureWrapped
  PROVE  Inv'
<1>1. /\ pc = "open" /\ op = "range" /\ UNCHANGED <<args, store, failed>>
      /\ obj \in seen /\ obj # None /\ WrapsOnAzure
  BY DEF AzureWrapped, Open, Inv, TypeOK, WrapsOnAzure
<1>2. CASE CloseQuietly("invalid")
  BY <1>1, <1>2, RefusedInv
<1>3. CASE CloseQuietly("error")
  <2> USE DEF CloseQuietly, Return
  <2>1. WrapsOnAzure'
    BY <1>1 DEF WrapsOnAzure, CountWraps, Count, args
  <2>2. ErrorsAreTold'
    BY <1>1, <1>3, <2>1 DEF ErrorsAreTold
  <2> QED  BY <1>1, <1>3, <2>2, EndInv DEF Inv, TypeOK, Results
<1>4. CASE obj.n > 0 /\ Reader(obj, 0, obj.n)
  BY <1>1, <1>4, ReaderInv
<1> QED  BY <1>2, <1>3, <1>4 DEF AzureWrapped

-----------------------------------------------------------------------------
\* The caller reads to the end: that is the range, of the version that was opened.
LEMMA ReadInv ==
  ASSUME Inv, Read
  PROVE  Inv'
<1>1. /\ pc = "read" /\ file \in seen /\ IsObject(file) /\ op \in {"get", "range"}
      /\ op = "range" => off >= 0 /\ len # 0
      /\ IF WrapsOnAzure THEN span = <<0, file.n>> /\ file.n > 0
         ELSE span = <<off, Clamp(file.n)>> /\ (op = "range" => off < file.n)
  BY DEF Inv, CallInv, SpanInv, Read, IsObject
<1>2. file.v \in Nat /\ file.n \in Nat /\ file.n <= MaxLen
  BY <1>1, ObjectType DEF Inv, IsObject
<1> DEFINE first == span[1]
           end == span[2]
           Target == IF WrapsOnAzure THEN 0..(file.n - 1) ELSE Wanted(file)
<1>3. /\ end \in Int /\ first \in Nat /\ first <= end /\ (op = "range" => first < end)
      /\ Target = first..(end - 1) /\ (WrapsOnAzure \/ first = off)
  <2>1. CASE WrapsOnAzure
    BY <1>1, <1>2, <2>1
  <2>2. CASE ~WrapsOnAzure
    BY <1>1, <1>2, <2>2, ClampIsWanted DEF Inv
  <2> QED  BY <2>1, <2>2
<1>4. out' = [i \in 1..(end - first) |-> <<file.v, first + i - 1>>]
  BY DEF Read
<1> HIDE DEF first, end, Target
<1>5. /\ UNCHANGED <<args, store, failed>> /\ file' = None /\ pc' = "done" /\ result' = "ok"
  BY DEF Read, CloseQuietly, Return
<1>6. TypeOK' /\ CallInv' /\ SpanInv' /\ ErrorsAreTold'
  BY <1>5 DEF Inv, TypeOK, CallInv, SpanInv, ErrorsAreTold, args, store, Results
<1>7. {out'[i] : i \in DOMAIN out'} = {<<file.v, i>> : i \in Target}
  <2>1. ASSUME NEW i \in 1..(end - first)
        PROVE  out'[i] = <<file.v, first + i - 1>> /\ first + i - 1 \in first..(end - 1)
    BY <1>3, <1>4
  <2>2. ASSUME NEW j \in first..(end - 1)
        PROVE  j - first + 1 \in 1..(end - first) /\ out'[j - first + 1] = <<file.v, j>>
    BY <1>3, <1>4
  <2>3. DOMAIN out' = 1..(end - first)
    BY <1>4
  <2> QED  BY <1>3, <2>1, <2>2, <2>3
<1>8. WrapsOnAzure \/ \A i \in DOMAIN out' : out'[i][2] = off + i - 1
  BY <1>3, <1>4
<1>9. op = "range" => out' # <<>>
  <2>1. ASSUME op = "range" PROVE out' # <<>>
    <3>1. 1 \in DOMAIN out'
      BY <1>3, <1>4, <2>1
    <3> QED  BY <3>1
  <2> QED  BY <2>1
<1>10. ReadsTheRange'
  <2>1. off' = off /\ len' = len /\ op' = op /\ seen' = seen /\ kind' = kind
    BY <1>5 DEF args, store
  <2>2. (IF WrapsOnAzure' THEN 0..(file.n - 1)
         ELSE {i \in 0..(file.n - 1) : i >= off' /\ (len' < 0 \/ i - off' < len')}) = Target
    BY <2>1 DEF Wanted, Target, WrapsOnAzure, CountWraps, Count
  <2>3. WrapsOnAzure' = WrapsOnAzure
    BY <2>1 DEF WrapsOnAzure, CountWraps, Count
  <2> QED  BY <1>1, <1>7, <1>8, <1>9, <2>1, <2>2, <2>3 DEF ReadsTheRange, Wanted, IsObject
<1> QED  BY <1>6, <1>10 DEF Inv

\* A request fails: that is what the call tells, ssh's open apart.
LEMMA FailInv ==
  ASSUME Inv, Fail
  PROVE  Inv'
<1> USE DEF Fail, CloseQuietly, Return, Open
<1>1. ErrorsAreTold'
  BY DEF Inv, TypeOK, ErrorsAreTold, FailedOpenAsMissing, args, store
<1> QED  BY <1>1, EndInv DEF Results

\* Other clients change what is stored, not what a call has found.
LEMMA ChangeInv ==
  ASSUME Inv, Change
  PROVE  Inv'
<1> USE DEF Change, Inv
<1>1. obj' \in Stored /\ (obj' = Dir => kind \in Trees)
  BY DirIsNoObject, ReadsAssumption DEF Objects, Stored, TypeOK
<1>2. TypeOK'
  BY <1>1 DEF TypeOK, args
<1>3. CallInv' /\ SpanInv'
  BY DEF CallInv, SpanInv, Clamp, args, WrapsOnAzure, CountWraps, Count
<1>4. ReadsTheRange' /\ ErrorsAreTold'
  BY DEF CallInv, ReadsTheRange, ErrorsAreTold
<1> QED  BY <1>2, <1>3, <1>4

\* A call begins with nothing open.
LEMMA InitInv == Init => Inv
<1> SUFFICES ASSUME Init PROVE Inv
  OBVIOUS
<1> USE ReadsAssumption DEF Init
<1>1. TypeOK
  <2>1. obj \in Stored /\ (obj = Dir => kind \in Trees)
    BY DirIsNoObject DEF Stored, Objects
  <2>2. off \in Int /\ len \in Int /\ len <= MaxInt /\ (op # "range" => off = 0 /\ len = -1)
    BY DEF Init
  <2> QED  BY <2>1, <2>2 DEF TypeOK, Results
<1>2. CallInv /\ SpanInv /\ ReadsTheRange /\ ErrorsAreTold
  BY DEF CallInv, SpanInv, ReadsTheRange, ErrorsAreTold
<1> QED  BY <1>1, <1>2 DEF Inv

\* Every step of the call and of the other clients keeps the invariant.
LEMMA NextInv == Inv /\ [Next]_vars => Inv'
<1> SUFFICES ASSUME Inv, [Next]_vars PROVE Inv'
  OBVIOUS
<1>1. CASE UNCHANGED vars
  BY <1>1 DEF Inv, TypeOK, CallInv, SpanInv, ReadsTheRange, ErrorsAreTold, Wanted, Clamp,
              IsObject, WrapsOnAzure, CountWraps, Count, DirectoryAsObject, FailedOpenAsMissing,
              vars, args, store
<1>2. CASE Call
  <2>1. UNCHANGED <<args, store, failed, file, span>> /\ pc = "call"
    BY <1>2 DEF Call
  <2>2. CASE op = "range" /\ (off < 0 \/ len = 0) /\ Return("invalid")
    <3>1. ErrorsAreTold'
      BY <2>1, <2>2 DEF Inv, CallInv, ErrorsAreTold, Return, args
    <3> QED  BY <2>1, <2>2, <3>1, EndInv DEF Inv, TypeOK, CallInv, Return, Results
  <2>3. CASE ~(op = "range" /\ (off < 0 \/ len = 0)) /\ Goto(IF kind = "ssh" THEN "client" ELSE "open")
    <3>1. CallInv' /\ SpanInv'
      BY <2>1, <2>3 DEF Inv, TypeOK, CallInv, SpanInv, Goto, args, store
    <3> QED  BY <2>1, <2>3, <3>1, GoInv
  <2> QED  BY <1>2, <2>2, <2>3 DEF Call
<1>3. CASE SshClient
  <2>1. UNCHANGED <<args, store, failed, file, span>> /\ pc = "client" /\ Goto("open")
    BY <1>3 DEF SshClient
  <2>2. CallInv' /\ SpanInv'
    BY <2>1 DEF Inv, CallInv, SpanInv, Goto, args, store
  <2> QED  BY <2>1, <2>2, GoInv
<1>4. CASE FsOpen \/ SshOpen
  BY <1>4, OpenFileInv DEF FsOpen, SshOpen, Open
<1>5. CASE FsSize \/ SshSize
  BY <1>5, CheckSizeInv DEF FsSize, SshSize, SizeOf
<1>6. CASE FsStat \/ FsExists \/ SshStat \/ SshExists \/ S3Stat \/ S3Exists \/ AzureStat \/ AzureExists
  BY <1>6, FoundInv DEF FsStat, FsExists, SshStat, SshExists, S3Stat, S3Exists, AzureStat, AzureExists
<1>7. CASE S3GetObject
  BY <1>7, S3GetObjectInv
<1>8. CASE AzureDownload \/ AzureWrapped
  BY <1>8, AzureDownloadInv, AzureWrappedInv
<1>9. CASE Read
  BY <1>9, ReadInv
<1>10. CASE ReadDir
  <2>1. ErrorsAreTold'
    BY <1>10 DEF ReadDir, CloseQuietly, Return, Inv, TypeOK, CallInv, ErrorsAreTold, DirectoryAsObject, args, store
  <2> QED  BY <1>10, <2>1, EndInv DEF ReadDir, CloseQuietly, Return, Results, Inv, TypeOK
<1>11. CASE Fail
  BY <1>11, FailInv
<1>12. CASE Change
  BY <1>12, ChangeInv
<1> QED
  BY <1>1, <1>2, <1>3, <1>4, <1>5, <1>6, <1>7, <1>8, <1>9, <1>10, <1>11, <1>12 DEF Next, Done

\* The invariant of a read on any of the four backends.
THEOREM InvHolds == Spec => []Inv
<1> QED  BY InitInv, NextInv, PTL DEF Spec

\* On every backend a read that ends well delivers the range that was asked for, also
\* where the Range header or the comparison comes near the largest int64; on azure,
\* whose count is not guarded, unless offset + count - 1 overflows.
THEOREM RangesAreExact == Spec => []ReadsTheRange
<1>1. Inv => ReadsTheRange  BY DEF Inv
<1> QED  BY <1>1, InvHolds, PTL

\* On every backend an error says what happened, and leaves nothing open.
THEOREM ReadErrorsTold == Spec => []ErrorsAreTold
<1>1. Inv => ErrorsAreTold  BY DEF Inv
<1> QED  BY <1>1, InvHolds, PTL
=============================================================================
