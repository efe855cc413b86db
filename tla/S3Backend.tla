----------------------------- MODULE S3Backend -----------------------------
(***************************************************************************)
(* s3/storage.go: copies and deletions on a bucket that other clients use  *)
(* at the same time.  Every request is one atomic step of the service,     *)
(* which is external: objects are replaced whole, a conditional copy fails *)
(* with 412 when the source's ETag is another, an upload's parts become an *)
(* object when it is completed, DeleteObjects answers per key.             *)
(*                                                                         *)
(* A key is the sequence of its segments (KeyPath).  Content is a sequence *)
(* of Parts pieces, and its ETag is the content itself: the code only ever *)
(* compares ETags.                                                         *)
(***************************************************************************)
EXTENDS KeyPath

CONSTANTS
  Procs,       \* callers, each with at most one call in flight
  Keys,        \* the keys of the bucket
  Dirs,        \* the prefixes DeleteAll is called with, as key prefixes
  Values,      \* bodies
  Big,         \* the bodies above maxCopyObjectSize
  Parts,       \* the number of parts of a multipart copy, count in copyParts
  Limit,       \* copyConcurrency
  Batch,       \* deleteObjectsBatchSize
  Uploads,     \* upload ids
  KeyErrors,   \* DeleteObjects may report an error for a single key
  None

ASSUME S3Numbers == /\ Parts \in Nat \ {0} /\ Limit \in Nat \ {0}
                    /\ Batch \in Nat \ {0} /\ KeyErrors \in BOOLEAN
Full(v) == [i \in 1..Parts |-> v]
Whole == {Full(v) : v \in Values}

ASSUME S3Sets == /\ Big \subseteq Values /\ None \notin Keys \cup Uploads \cup Whole
                 /\ Keys \cup Dirs \subseteq Seq(STRING)

VARIABLES
  obj,       \* obj[k]: the content of an object, or None
  uploads,   \* the multipart uploads the service holds open
  lost,      \* history: uploads whose abort failed or whose id never arrived
  pc,        \* pc[p]: the request p sends next
  op,        \* op[p]: the call p is in
  from, to,  \* srcKey and dstKey
  etag,      \* etag[p]: the ETag the listing or the HEAD reported
  upload,    \* upload[p]: p's upload id
  part,      \* part[p][i]: the goroutine copying part i
  piece,     \* piece[p][i]: what the service has stored for part i
  gerr,      \* gerr[p]: the first error of the copy
  todo,      \* todo[p]: keys still to check or to delete, or prefixes to walk
  keys,      \* keys[p]: the keys Delete was given, or those the walk has met
  missing,   \* missing[p]: the keys Delete did not find
  erased,    \* history: the keys the service confirmed deleted for p's call
  res        \* res[p]: how p's last call ended

server == <<obj, uploads, lost>>
copyVars == <<from, to, etag, upload, part, piece, gerr>>
delVars == <<todo, keys, missing, erased>>
vars == <<server, pc, op, copyVars, delVars, res>>

Idle == [i \in 1..Parts |-> "todo"]
NoPieces == [i \in 1..Parts |-> None]

\* Keys, prefixes, and what path.Join makes of them.
Paths == Seq(STRING) \cup
  UNION {{Addressed(d, k) : k \in Seq(STRING)} : d \in Keys \cup Dirs \cup {None}}

TypeOK ==
  /\ obj \in [Keys -> [1..Parts -> Values] \cup {None}]
  /\ uploads \subseteq Uploads /\ lost \subseteq Uploads
  /\ pc \in [Procs -> {"idle", "listed", "head", "object", "tags", "create", "parts",
                       "complete", "abort", "check", "delete", "walk"}]
  /\ op \in [Procs -> {"none", "copy", "delete", "deleteall"}]
  /\ from \in [Procs -> Keys \cup Dirs \cup {None}] /\ to \in [Procs -> Keys \cup {None}]
  /\ etag \in [Procs -> Whole \cup {None}]
  /\ upload \in [Procs -> Uploads \cup {None}]
  /\ part \in [Procs -> [1..Parts -> {"todo", "sent", "ok", "failed"}]]
  /\ piece \in [Procs -> [1..Parts -> Values \cup {None}]]
  /\ gerr \in [Procs -> {"nil", "missing", "changed", "error"}]
  /\ keys \in [Procs -> SUBSET Seq(STRING)]
  /\ todo \in [Procs -> SUBSET Paths] /\ missing \in [Procs -> SUBSET Paths]
  /\ erased \in [Procs -> SUBSET Paths]
  /\ res \in [Procs -> {"none", "ok", "missing", "changed", "error"}]

Init ==
  /\ obj \in [Keys -> Whole \cup {None}]
  /\ uploads = {} /\ lost = {}
  /\ pc = [p \in Procs |-> "idle"]
  /\ op = [p \in Procs |-> "none"]
  /\ from = [p \in Procs |-> None] /\ to = [p \in Procs |-> None]
  /\ etag = [p \in Procs |-> None]
  /\ upload = [p \in Procs |-> None]
  /\ part = [p \in Procs |-> Idle]
  /\ piece = [p \in Procs |-> NoPieces]
  /\ gerr = [p \in Procs |-> "nil"]
  /\ todo = [p \in Procs |-> {}] /\ keys = [p \in Procs |-> {}]
  /\ missing = [p \in Procs |-> {}] /\ erased = [p \in Procs |-> {}]
  /\ res = [p \in Procs |-> "none"]

IsBig(c) == c # None /\ c[1] \in Big

-----------------------------------------------------------------------------
Begin(p, o, at, s, d, e, set) ==
  /\ pc[p] = "idle"
  /\ pc' = [pc EXCEPT ![p] = at]
  /\ op' = [op EXCEPT ![p] = o]
  /\ from' = [from EXCEPT ![p] = s]
  /\ to' = [to EXCEPT ![p] = d]
  /\ etag' = [etag EXCEPT ![p] = e]
  /\ todo' = [todo EXCEPT ![p] = set]
  /\ keys' = [keys EXCEPT ![p] = IF o = "delete" THEN set ELSE {}]
  /\ res' = [res EXCEPT ![p] = "none"]
  /\ UNCHANGED <<server, upload, part, piece, gerr, missing, erased>>

Return(p, r) ==
  /\ pc' = [pc EXCEPT ![p] = "idle"]
  /\ op' = [op EXCEPT ![p] = "none"]
  /\ from' = [from EXCEPT ![p] = None]
  /\ to' = [to EXCEPT ![p] = None]
  /\ etag' = [etag EXCEPT ![p] = None]
  /\ upload' = [upload EXCEPT ![p] = None]
  /\ part' = [part EXCEPT ![p] = Idle]
  /\ piece' = [piece EXCEPT ![p] = NoPieces]
  /\ gerr' = [gerr EXCEPT ![p] = "nil"]
  /\ todo' = [todo EXCEPT ![p] = {}]
  /\ keys' = [keys EXCEPT ![p] = {}]
  /\ missing' = [missing EXCEPT ![p] = {}]
  /\ erased' = [erased EXCEPT ![p] = {}]
  /\ res' = [res EXCEPT ![p] = r]

Goto(p, at) == pc' = [pc EXCEPT ![p] = at] /\ UNCHANGED <<op, from, to, res>>

\* PutObject of this or of another client replaces an object as a whole; another
\* client may also delete it.
PutObject == \E k \in Keys, c \in Whole \cup {None} :
  /\ obj[k] # c
  /\ obj' = [obj EXCEPT ![k] = c]
  /\ UNCHANGED <<uploads, lost, pc, op, copyVars, delVars, res>>

-----------------------------------------------------------------------------
\* Copy and copyListed.

\* Copy, CopyAll and Delete join their paths onto the prefix, so they name clean keys.
Named == {k \in Keys : IsClean(k)}

Copy(p) == \E s, d \in Named : Begin(p, "copy", "head", s, d, None, {})

\* A call of copyListed by CopyAll: the ETag is the one List reported, and it is
\* used when the object is not too big and is not copied onto itself.
CopyListed(p) == \E s, d \in Named :
  /\ obj[s] # None
  /\ IF IsBig(obj[s]) \/ s = d
       THEN Begin(p, "copy", "head", s, d, None, {})
       ELSE Begin(p, "copy", "listed", s, d, obj[s], {})

HeadObject(p) ==
  /\ pc[p] = "head"
  /\ \/ obj[from[p]] = None /\ Return(p, "missing")
     \/ obj[from[p]] # None /\ from[p] = to[p] /\ Return(p, "ok")
     \/ /\ obj[from[p]] # None /\ from[p] # to[p]
        /\ etag' = [etag EXCEPT ![p] = obj[from[p]]]
        /\ Goto(p, IF IsBig(obj[from[p]]) THEN "tags" ELSE "object")
        /\ UNCHANGED <<upload, part, piece, gerr, delVars>>
  /\ UNCHANGED server

\* Mutant: CopySourceIfMatch is not sent.
MatchesAny(p) == obj[from[p]] # None

\* copyObject: CopyObject with CopySourceIfMatch.  A stale listing is answered by
\* a fresh HEAD, any other mismatch is ErrSourceChanged.
Matches(p) == obj[from[p]] = etag[p]

CopyObject(p) ==
  /\ pc[p] \in {"listed", "object"} /\ Matches(p)
  /\ obj' = [obj EXCEPT ![to[p]] = obj[from[p]]]
  /\ Return(p, "ok")
  /\ UNCHANGED <<uploads, lost>>

\* The copy is made, its answer is lost.
CopyObjectLost(p) ==
  /\ pc[p] \in {"listed", "object"} /\ Matches(p)
  /\ obj' = [obj EXCEPT ![to[p]] = obj[from[p]]]
  /\ Return(p, "error")
  /\ UNCHANGED <<uploads, lost>>

CopyObjectFail(p) ==
  /\ pc[p] \in {"listed", "object"} /\ ~Matches(p)
  /\ \/ obj[from[p]] = None /\ Return(p, "missing")
     \/ obj[from[p]] # None /\ pc[p] = "object" /\ Return(p, "changed")
     \/ /\ obj[from[p]] # None /\ pc[p] = "listed"
        /\ Goto(p, "head")
        /\ UNCHANGED <<etag, upload, part, piece, gerr, delVars>>
  /\ UNCHANGED server

-----------------------------------------------------------------------------
\* multipartCopy.

\* sourceTagging, when the source has tags.
GetObjectTagging(p) ==
  /\ pc[p] = "tags"
  /\ \/ obj[from[p]] = None /\ Return(p, "missing")
     \/ Goto(p, "create") /\ UNCHANGED <<etag, upload, part, piece, gerr, delVars>>
  /\ UNCHANGED server

\* The service gives an upload an id that no other upload has, or had while a call
\* still knows it.
Unused == Uploads \ (uploads \cup {upload[q] : q \in Procs})

CreateMultipartUpload(p) ==
  /\ pc[p] = "create"
  /\ \E u \in Unused :
       /\ uploads' = uploads \cup {u}
       /\ upload' = [upload EXCEPT ![p] = u]
  /\ Goto(p, "parts")
  /\ UNCHANGED <<obj, lost, etag, part, piece, gerr, delVars>>

\* The upload is created, its answer is lost.
CreateLost(p) ==
  /\ pc[p] = "create"
  /\ \E u \in Unused : uploads' = uploads \cup {u} /\ lost' = lost \cup {u}
  /\ Return(p, "error")
  /\ UNCHANGED obj

\* The goroutines of copyParts' errgroup.
Sent(p) == {i \in 1..Parts : part[p][i] = "sent"}

PartStart(p, i) ==
  /\ pc[p] = "parts" /\ part[p][i] = "todo"
  /\ \A j \in 1..(i - 1) : part[p][j] # "todo"
  /\ Cardinality(Sent(p)) < Limit
  /\ part' = [part EXCEPT ![p][i] = IF gerr[p] = "nil" THEN "sent" ELSE "failed"]
  /\ UNCHANGED <<server, pc, op, from, to, etag, upload, piece, gerr, delVars, res>>

\* Mutant: the parts are not pinned to one version.
PartCopiedAny(p, i) ==
  /\ part[p][i] = "sent" /\ obj[from[p]] # None
  /\ part' = [part EXCEPT ![p][i] = "ok"]
  /\ piece' = [piece EXCEPT ![p][i] = obj[from[p]][i]]
  /\ UNCHANGED <<server, pc, op, from, to, etag, upload, gerr, delVars, res>>

\* UploadPartCopy, pinned to the ETag of the HEAD.
PartCopied(p, i) ==
  /\ part[p][i] = "sent" /\ Matches(p)
  /\ part' = [part EXCEPT ![p][i] = "ok"]
  /\ piece' = [piece EXCEPT ![p][i] = obj[from[p]][i]]
  /\ UNCHANGED <<server, pc, op, from, to, etag, upload, gerr, delVars, res>>

\* Why UploadPartCopy fails: the source is gone, is another version, or else.
Reasons(p) == {"error"} \cup (IF obj[from[p]] = None THEN {"missing"} ELSE {})
                \cup (IF obj[from[p]] # None /\ ~Matches(p) THEN {"changed"} ELSE {})

PartFailed(p, i) ==
  /\ part[p][i] = "sent"
  /\ part' = [part EXCEPT ![p][i] = "failed"]
  /\ \E e \in Reasons(p) : gerr' = [gerr EXCEPT ![p] = IF @ = "nil" THEN e ELSE @]
  /\ UNCHANGED <<server, pc, op, from, to, etag, upload, piece, delVars, res>>

\* Mutant: the first error is not held back until every part has ended.
PartsDoneEarly(p) ==
  /\ pc[p] = "parts"
  /\ gerr[p] # "nil" \/ \A i \in 1..Parts : part[p][i] \in {"ok", "failed"}
  /\ Goto(p, IF gerr[p] = "nil" THEN "complete" ELSE "abort")
  /\ UNCHANGED <<server, etag, upload, part, piece, gerr, delVars>>

\* Mutant: a failed part ends the copy without an abort.
PartsDoneNoAbort(p) ==
  /\ pc[p] = "parts"
  /\ \A i \in 1..Parts : part[p][i] \in {"ok", "failed"}
  /\ \/ gerr[p] # "nil" /\ Return(p, gerr[p])
     \/ /\ gerr[p] = "nil" /\ Goto(p, "complete")
        /\ UNCHANGED <<etag, upload, part, piece, gerr, delVars>>
  /\ UNCHANGED server

\* g.Wait
PartsDone(p) ==
  /\ pc[p] = "parts"
  /\ \A i \in 1..Parts : part[p][i] \in {"ok", "failed"}
  /\ Goto(p, IF gerr[p] = "nil" THEN "complete" ELSE "abort")
  /\ UNCHANGED <<server, etag, upload, part, piece, gerr, delVars>>

CompleteMultipartUpload(p) ==
  /\ pc[p] = "complete"
  /\ obj' = [obj EXCEPT ![to[p]] = piece[p]]
  /\ uploads' = uploads \ {upload[p]}
  /\ Return(p, "ok")
  /\ UNCHANGED lost

\* It fails; the service may have completed the upload all the same.
CompleteFail(p) ==
  /\ pc[p] = "complete"
  /\ \/ UNCHANGED server
     \/ /\ obj' = [obj EXCEPT ![to[p]] = piece[p]]
        /\ uploads' = uploads \ {upload[p]}
        /\ UNCHANGED lost
  /\ gerr' = [gerr EXCEPT ![p] = "error"]
  /\ Goto(p, "abort")
  /\ UNCHANGED <<etag, upload, part, piece, delVars>>

\* AbortMultipartUpload, detached from ctx; if it fails the error is logged only.
AbortMultipartUpload(p) ==
  /\ pc[p] = "abort"
  /\ uploads' = uploads \ {upload[p]}
  /\ Return(p, gerr[p])
  /\ UNCHANGED <<obj, lost>>

AbortFail(p) ==
  /\ pc[p] = "abort"
  /\ lost' = lost \cup (uploads \cap {upload[p]})
  /\ Return(p, gerr[p])
  /\ UNCHANGED <<obj, uploads>>

-----------------------------------------------------------------------------
\* Delete: one HEAD per key, then deleteKnown.

Delete(p) == \E s \in SUBSET Named : Begin(p, "delete", "check", None, None, None, s)

DeleteHead(p) ==
  /\ pc[p] = "check"
  /\ \E k \in todo[p] :
       /\ todo' = [todo EXCEPT ![p] = @ \ {k}]
       /\ missing' = [missing EXCEPT ![p] = IF obj[k] = None THEN @ \cup {k} ELSE @]
  /\ UNCHANGED <<server, pc, op, copyVars, keys, erased, res>>

\* objs of deleteKnown: the keys the requests will name.
Objs(p) == IF op[p] = "deleteall" THEN {Addressed(from[p], k) : k \in keys[p]} ELSE keys[p]

DeleteDecide(p) ==
  /\ pc[p] = "check" /\ todo[p] = {}
  /\ \/ missing[p] # {} /\ Return(p, "missing")
     \/ /\ missing[p] = {}
        /\ todo' = [todo EXCEPT ![p] = Objs(p)]
        /\ Goto(p, "delete")
        /\ UNCHANGED <<etag, upload, part, piece, gerr, keys, missing, erased>>
  /\ UNCHANGED server

\* Mutant: only the first batch is sent.
DeleteObjectsOnce(p) ==
  /\ pc[p] = "delete" /\ todo[p] # {}
  /\ \E batch \in SUBSET todo[p] :
       /\ Cardinality(batch) = Min({Batch, Cardinality(todo[p])})
       /\ obj' = [k \in Keys |-> IF k \in batch THEN None ELSE obj[k]]
       /\ todo' = [todo EXCEPT ![p] = {}]
       /\ erased' = [erased EXCEPT ![p] = @ \cup batch]
  /\ UNCHANGED <<uploads, lost, pc, op, copyVars, keys, missing, res>>

\* deleteKnown: one DeleteObjects request per Batch keys.  The answer carries the
\* keys that could not be deleted; only the request's own error is looked at.
DeleteObjects(p) ==
  /\ pc[p] = "delete" /\ todo[p] # {}
  /\ \E batch \in SUBSET todo[p], errors \in SUBSET Keys :
       /\ Cardinality(batch) = Min({Batch, Cardinality(todo[p])})
       /\ errors \subseteq batch /\ (KeyErrors \/ errors = {})
       /\ obj' = [k \in Keys |-> IF k \in batch \ errors THEN None ELSE obj[k]]
       /\ todo' = [todo EXCEPT ![p] = @ \ batch]
       /\ erased' = [erased EXCEPT ![p] = @ \cup (batch \ errors)]
  /\ UNCHANGED <<uploads, lost, pc, op, copyVars, keys, missing, res>>

\* The request fails, after some of its keys were deleted.
DeleteObjectsFail(p) ==
  /\ pc[p] = "delete" /\ todo[p] # {}
  /\ \E done \in SUBSET todo[p] :
       /\ Cardinality(done) <= Batch
       /\ obj' = [k \in Keys |-> IF k \in done THEN None ELSE obj[k]]
  /\ Return(p, "error")
  /\ UNCHANGED <<uploads, lost>>

DeleteDone(p) ==
  /\ pc[p] = "delete" /\ todo[p] = {}
  /\ Return(p, "ok")
  /\ UNCHANGED server

-----------------------------------------------------------------------------
\* DeleteAll: Walk, one ListDir per prefix, then deleteKnown.

DeleteAll(p) == \E d \in Dirs : Begin(p, "deleteall", "walk", d, None, None, {d})

\* Mutant: the prefix is sent without its "/".
FilesOfNoSlash(d) ==
  {k \in Keys : obj[k] # None /\ Len(k) \in Len(d)..(Len(d) + 1) /\ IsPrefix(d, k)}

\* The keys directly under prefix d, a marker of d itself included, and the
\* common prefixes one level down.
FilesOf(d) == {k \in Keys : obj[k] # None /\ Len(k) = Len(d) + 1 /\ IsPrefix(d, k)}
DirsOf(d) == {SubSeq(k, 1, Len(d) + 1) :
                k \in {k \in Keys : obj[k] # None /\ Len(k) > Len(d) + 1 /\ IsPrefix(d, k)}}

ListDir(p) ==
  /\ pc[p] = "walk"
  /\ \E d \in todo[p] :
       /\ todo' = [todo EXCEPT ![p] = (@ \ {d}) \cup DirsOf(d)]
       /\ keys' = [keys EXCEPT ![p] = @ \cup FilesOf(d)]
  /\ UNCHANGED <<server, pc, op, copyVars, missing, erased, res>>

WalkDone(p) ==
  /\ pc[p] = "walk" /\ todo[p] = {}
  /\ \/ keys[p] = {} /\ Return(p, "missing")
     \/ /\ keys[p] # {}
        /\ todo' = [todo EXCEPT ![p] = Objs(p)]
        /\ Goto(p, "delete")
        /\ UNCHANGED <<etag, upload, part, piece, gerr, keys, missing, erased>>
  /\ UNCHANGED server

-----------------------------------------------------------------------------
\* A request fails for another reason, or ctx ends, before anything is changed
\* that would have to be undone.
Fail(p) ==
  /\ pc[p] \in {"listed", "head", "object", "tags", "create", "check", "walk"}
  /\ Return(p, "error")
  /\ UNCHANGED server

Step(p) ==
  \/ Copy(p) \/ CopyListed(p) \/ HeadObject(p) \/ CopyObject(p)
  \/ CopyObjectLost(p) \/ CopyObjectFail(p)
  \/ GetObjectTagging(p) \/ CreateMultipartUpload(p) \/ CreateLost(p)
  \/ (\E i \in 1..Parts : PartStart(p, i) \/ PartCopied(p, i) \/ PartFailed(p, i))
  \/ PartsDone(p) \/ CompleteMultipartUpload(p) \/ CompleteFail(p)
  \/ AbortMultipartUpload(p) \/ AbortFail(p)
  \/ Delete(p) \/ DeleteHead(p) \/ DeleteDecide(p) \/ DeleteObjects(p)
  \/ DeleteObjectsFail(p) \/ DeleteDone(p)
  \/ DeleteAll(p) \/ ListDir(p) \/ WalkDone(p)
  \/ Fail(p)

Next == (\E p \in Procs : Step(p)) \/ PutObject

Spec == Init /\ [][Next]_vars

-----------------------------------------------------------------------------
\* A multipart copy never puts parts of two versions of its source together, even
\* when the source is overwritten while parts are being copied.
WholeObjects == \A k \in Keys : obj[k] \in Whole \cup {None}

\* A copy that succeeds has written the version whose size it reports: the one the
\* HEAD or the listing saw.
CopiesTheReportedVersion ==
  [][\A p \in Procs : pc[p] \in {"listed", "object", "complete"} /\ res'[p] = "ok"
       => obj'[to[p]] = etag[p]]_vars

\* Parts are copied into an upload that is still open: the upload is aborted or
\* completed only after every part's goroutine has ended.
PartsGoToAnOpenUpload == \A p \in Procs :
  Sent(p) # {} => pc[p] = "parts" /\ upload[p] \in uploads

\* Every upload the service holds, and bills, belongs to a copy in flight, except
\* for those whose abort was tried and failed or whose id never arrived.
UploadsAccounted == uploads \subseteq lost \cup {upload[p] : p \in Procs}

\* Deletions that report success: the service has confirmed every key that the call's
\* requests were to name, however the keys were split into batches.
DeletesWhatItNamed ==
  [][\A p \in Procs : pc[p] = "delete" /\ res'[p] = "ok" => Objs(p) \subseteq erased[p]]_vars

\* DeleteAll deletes keys that its walk met under its prefix, and no others, whatever
\* other clients put and delete meanwhile, with one exception: for a key that is not
\* clean, such as a folder marker "a/", "a/../b" or "a//x", it deletes the key that
\* path.Join makes of its name, be that outside of the prefix or another object's.
\* (CopyAll refuses such keys, as "a/../../x" "would land outside" of the prefix,
\* copy.go:267-272; deleteKnown, storage.go:746-750, takes them.)
DeleteAllStaysUnderPrefix == \A p \in Procs :
  op[p] = "deleteall" => \A k \in erased[p] : \E u \in keys[p] :
    /\ IsStrictPrefix(from[p], u)
    /\ k = u \/ (~IsClean(u) /\ k = Addressed(from[p], u))
=============================================================================
