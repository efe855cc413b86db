------------------------------ MODULE S3Proofs ------------------------------
(***************************************************************************)
(* Proofs about S3Backend, for any number of callers, keys, parts and      *)
(* uploads.  The heart is the ETag: a part that was copied is a piece of   *)
(* the version the HEAD saw, and an upload is in the hands of one call     *)
(* from its creation to its end.                                           *)
(***************************************************************************)
EXTENDS S3Backend, TLAPS

Multipart == {"parts", "complete", "abort"}
Pinned == {"listed", "object", "tags", "create"} \cup Multipart
Deleting == {"check", "delete", "walk"}

\* What a call has in its hands at every program counter.
CallInv(p) ==
  /\ pc[p] # "idle" => res[p] = "none"
  /\ pc[p] \in {"head"} \cup Pinned => op[p] = "copy" /\ from[p] \in Keys /\ to[p] \in Keys
  /\ pc[p] \in Pinned => etag[p] \in Whole
  /\ pc[p] \notin Multipart => upload[p] = None /\ part[p] = Idle /\ gerr[p] = "nil"
  /\ pc[p] \in Multipart => upload[p] \in Uploads
  /\ pc[p] = "abort" => gerr[p] # "nil"

\* The parts of a multipart copy: one that is done is a piece of the pinned version,
\* one that failed has left its error, and none runs once g.Wait has returned.
PartsInv(p) ==
  /\ \A i \in 1..Parts : part[p][i] = "ok" => piece[p][i] = etag[p][i]
  /\ gerr[p] = "nil" => \A i \in 1..Parts : part[p][i] # "failed"
  /\ pc[p] \in {"complete", "abort"} => \A i \in 1..Parts : part[p][i] \in {"ok", "failed"}
  /\ pc[p] = "complete" => gerr[p] = "nil"

\* An upload is one call's until it is completed, aborted or lost.
UploadInv ==
  /\ \A p, q \in Procs : upload[p] # None /\ upload[p] = upload[q] => p = q
  /\ \A p \in Procs : pc[p] \in {"parts", "complete"} => upload[p] \in uploads
  /\ UploadsAccounted

\* What a deletion has done: a key that is not to do any more has been deleted, if the
\* service does not fail single keys; nothing is deleted that was not found or named.
DeleteInv(p) ==
  /\ pc[p] \notin Deleting => erased[p] = {} /\ op[p] \notin {"delete", "deleteall"}
  /\ pc[p] # "delete" => erased[p] = {}
  /\ pc[p] = "walk" => todo[p] \subseteq Seq(STRING)
  /\ pc[p] = "delete" => /\ todo[p] \subseteq Objs(p) /\ erased[p] \subseteq Objs(p)
                         /\ ~KeyErrors => Objs(p) \ todo[p] \subseteq erased[p]

\* The part of the type that only deletions change.
DeletionType ==
  /\ keys \in [Procs -> SUBSET Seq(STRING)]
  /\ todo \in [Procs -> SUBSET Paths] /\ missing \in [Procs -> SUBSET Paths]
  /\ erased \in [Procs -> SUBSET Paths]

Inv ==
  /\ TypeOK
  /\ \A p \in Procs : CallInv(p) /\ PartsInv(p) /\ DeleteInv(p)
  /\ UploadInv
  /\ WholeObjects

\* What a walk has found, and has still to list, is under its prefix.
WalkInv(p) == op[p] = "deleteall" =>
  /\ from[p] \in Seq(STRING)
  /\ pc[p] = "walk" => \A d \in todo[p] : IsPrefix(from[p], d)
  /\ \A k \in keys[p] : IsStrictPrefix(from[p], k)

-----------------------------------------------------------------------------
USE DEF Multipart, Pinned, Deleting, DeletionType

\* deleteKnown names the same keys as long as it is the same call with the same keys.
LEMMA ObjsStay ==
  ASSUME NEW q \in Procs, op'[q] = op[q], from'[q] = from[q], keys'[q] = keys[q]
  PROVE  Objs(q)' = Objs(q)
BY DEF Objs

\* A step that leaves a deletion alone.
LEMMA DeletionStays ==
  ASSUME NEW q \in Procs, DeleteInv(q), op'[q] = op[q], from'[q] = from[q], keys'[q] = keys[q],
         pc'[q] = pc[q], todo'[q] = todo[q], erased'[q] = erased[q]
  PROVE  DeleteInv(q)'
BY ObjsStay DEF DeleteInv

\* A call that is not deleting yet, or any more.
LEMMA NoDeletion ==
  ASSUME NEW q \in Procs, pc'[q] # "delete", erased'[q] = {},
         pc'[q] = "walk" => todo'[q] \subseteq Seq(STRING),
         pc'[q] \notin Deleting => op'[q] \notin {"delete", "deleteall"}
  PROVE  DeleteInv(q)'
BY DEF DeleteInv

\* A whole body is made of as many pieces as an upload has parts.
LEMMA WholeType == /\ Whole \subseteq [1..Parts -> Values]
                   /\ Idle \in [1..Parts -> {"todo", "sent", "ok", "failed"}]
                   /\ NoPieces \in [1..Parts -> Values \cup {None}]
                   /\ \A i \in 1..Parts : Idle[i] = "todo"
BY DEF Whole, Full, Idle, NoPieces

\* The objects of a bucket are whole, in the form that steps change them.
LEMMA ObjType ==
  ASSUME Inv
  PROVE  obj \in [Keys -> Whole \cup {None}]
BY DEF Inv, TypeOK, WholeObjects

\* Initially there are no uploads and no calls.
LEMMA InitInv == Init => Inv
<1> SUFFICES ASSUME Init PROVE Inv
  OBVIOUS
<1> USE WholeType, S3Sets DEF Init
<1>1. TypeOK
  BY DEF TypeOK
<1>2. \A p \in Procs : CallInv(p) /\ PartsInv(p) /\ DeleteInv(p)
  BY DEF CallInv, PartsInv, DeleteInv
<1>3. UploadInv /\ WholeObjects
  BY DEF UploadInv, UploadsAccounted, WholeObjects
<1> QED  BY <1>1, <1>2, <1>3 DEF Inv

\* A call begins with nothing in its hands.
LEMMA BeginInv ==
  ASSUME Inv, NEW p \in Procs, NEW o \in {"copy", "delete", "deleteall"},
         NEW at \in {"head", "listed", "check", "walk"},
         NEW s \in Keys \cup Dirs \cup {None}, NEW d \in Keys \cup {None},
         NEW e \in Whole \cup {None}, NEW set, set \subseteq Seq(STRING),
         at \in {"head", "listed"} => o = "copy" /\ s \in Keys /\ d \in Keys,
         at = "listed" => e \in Whole,
         Begin(p, o, at, s, d, e, set)
  PROVE  Inv'
<1> USE DEF Begin, Inv, server
<1>1. TypeOK'
  <2>1. DeletionType'
    <3>1. set \subseteq Paths
      BY DEF Paths
    <3> QED  BY <3>1 DEF TypeOK
  <2>2. pc' \in [Procs -> {"idle", "listed", "head", "object", "tags", "create", "parts",
                          "complete", "abort", "check", "delete", "walk"}]
    BY DEF TypeOK
  <2>3. /\ op' \in [Procs -> {"none", "copy", "delete", "deleteall"}]
        /\ from' \in [Procs -> Keys \cup Dirs \cup {None}] /\ to' \in [Procs -> Keys \cup {None}]
        /\ etag' \in [Procs -> Whole \cup {None}]
        /\ res' \in [Procs -> {"none", "ok", "missing", "changed", "error"}]
    BY DEF TypeOK
  <2> QED  BY <2>1, <2>2, <2>3 DEF TypeOK
<1>2. \A q \in Procs : CallInv(q)'
  BY DEF TypeOK, CallInv
<1>3. \A q \in Procs : PartsInv(q)'
  <2>1. ASSUME NEW q \in Procs, q # p PROVE PartsInv(q)'
    <3>1. /\ etag'[q] = etag[q] /\ pc'[q] = pc[q] /\ PartsInv(q)
          /\ part'[q] = part[q] /\ piece'[q] = piece[q] /\ gerr'[q] = gerr[q]
      BY <2>1 DEF TypeOK
    <3> QED  BY <3>1 DEF PartsInv
  <2>2. PartsInv(p)'
    <3>1. pc[p] = "idle" /\ pc'[p] = at /\ UNCHANGED <<part, gerr>>
      BY DEF TypeOK
    <3>2. \A i \in 1..Parts : part[p][i] = "todo"
      BY <3>1, WholeType DEF CallInv
    <3> QED  BY <3>1, <3>2 DEF PartsInv
  <2> QED  BY <2>1, <2>2
<1>4. \A q \in Procs : DeleteInv(q)'
  <2>1. DeleteInv(p)'
    <3>1. pc'[p] = at /\ erased'[p] = {} /\ todo'[p] = set /\ op'[p] = o
      BY DEF TypeOK, DeleteInv
    <3> QED  BY <3>1, NoDeletion
  <2>2. ASSUME NEW q \in Procs, q # p PROVE DeleteInv(q)'
    BY <2>2, DeletionStays DEF TypeOK
  <2> QED  BY <2>1, <2>2
<1>5. UploadInv' /\ WholeObjects'
  BY DEF TypeOK, UploadInv, UploadsAccounted, WholeObjects
<1> QED  BY <1>1, <1>2, <1>3, <1>4, <1>5

\* A call returns and leaves the service as its last request made it: objects whole,
\* and no upload that is neither lost nor another call's.
LEMMA ReturnInv ==
  ASSUME Inv, NEW p \in Procs, NEW r \in {"none", "ok", "missing", "changed", "error"},
         Return(p, r), obj' \in [Keys -> Whole \cup {None}],
         uploads' \subseteq Uploads, lost' \subseteq Uploads,
         \A q \in Procs \ {p} : upload[q] \in uploads => upload[q] \in uploads',
         uploads' \subseteq lost' \cup {upload[q] : q \in Procs \ {p}}
  PROVE  Inv'
<1> USE WholeType, S3Sets DEF Return, Inv
<1>1. TypeOK'
  BY DEF TypeOK
<1>2. \A q \in Procs : CallInv(q)'
  BY DEF TypeOK, CallInv
<1>3. \A q \in Procs : PartsInv(q)'
  BY DEF TypeOK, PartsInv
<1>4. \A q \in Procs : DeleteInv(q)'
  <2>1. DeleteInv(p)'
    <3>1. pc'[p] = "idle" /\ erased'[p] = {} /\ op'[p] = "none"
      BY DEF TypeOK
    <3> QED  BY <3>1, NoDeletion
  <2>2. ASSUME NEW q \in Procs, q # p PROVE DeleteInv(q)'
    BY <2>2, DeletionStays DEF TypeOK
  <2> QED  BY <2>1, <2>2
<1>5. UploadInv'
  <2>1. \A q \in Procs : upload'[q] = IF q = p THEN None ELSE upload[q]
    BY DEF TypeOK
  <2>2. \A q \in Procs : pc'[q] = IF q = p THEN "idle" ELSE pc[q]
    BY DEF TypeOK
  <2>3. UploadsAccounted'
    BY <2>1 DEF UploadsAccounted
  <2> QED  BY <2>1, <2>2, <2>3 DEF UploadInv
<1>6. WholeObjects'
  BY DEF WholeObjects
<1> QED  BY <1>1, <1>2, <1>3, <1>4, <1>5, <1>6

\* A call without an upload returns after a request that changes objects only.
LEMMA PlainReturnInv ==
  ASSUME Inv, NEW p \in Procs, NEW r \in {"none", "ok", "missing", "changed", "error"},
         Return(p, r), obj' \in [Keys -> Whole \cup {None}], UNCHANGED <<uploads, lost>>,
         pc[p] \notin Multipart
  PROVE  Inv'
<1>1. upload[p] = None
  BY DEF Inv, CallInv
<1>2. uploads \subseteq Uploads /\ lost \subseteq Uploads /\ None \notin uploads
  BY S3Sets DEF Inv, TypeOK
<1>3. uploads \subseteq lost \cup {upload[q] : q \in Procs \ {p}}
  BY <1>1, <1>2 DEF Inv, UploadInv, UploadsAccounted
<1> QED  BY <1>2, <1>3, ReturnInv

\* The other calls keep what they have of a copy.
OthersKeep(p) == UNCHANGED <<op, from, to, delVars, res>> /\
  \A q \in Procs \ {p} : /\ pc'[q] = pc[q] /\ etag'[q] = etag[q] /\ upload'[q] = upload[q]
                         /\ part'[q] = part[q] /\ piece'[q] = piece[q] /\ gerr'[q] = gerr[q]

\* A call that has no upload has not begun with its parts.
LEMMA NoParts ==
  ASSUME Inv, NEW p \in Procs, pc[p] \notin Multipart
  PROVE  gerr[p] = "nil" /\ upload[p] = None /\ \A i \in 1..Parts : part[p][i] = "todo"
BY WholeType DEF Inv, CallInv

\* A step of a copy that goes on concerns nobody else.
LEMMA CopyStepInv ==
  ASSUME Inv, NEW p \in Procs, pc[p] \in {"head"} \cup Pinned, pc'[p] \in {"head"} \cup Pinned,
         OthersKeep(p), TypeOK', CallInv(p)', PartsInv(p)', UploadInv', WholeObjects'
  PROVE  Inv'
<1> USE DEF Inv, OthersKeep, delVars
<1>1. \A q \in Procs : CallInv(q)'
  BY DEF CallInv
<1>2. \A q \in Procs : PartsInv(q)'
  BY DEF PartsInv
<1>3. \A q \in Procs : DeleteInv(q)'
  <2>1. pc[p] \notin Deleting /\ DeleteInv(p)'
    BY NoDeletion DEF DeleteInv
  <2>2. ASSUME NEW q \in Procs, q # p PROVE DeleteInv(q)'
    BY <2>2, DeletionStays
  <2> QED  BY <2>1, <2>2
<1> QED  BY <1>1, <1>2, <1>3

\* Nor does one of a deletion, and it has no upload.
LEMMA DeleteStepInv ==
  ASSUME Inv, NEW p \in Procs, pc[p] \in Deleting, pc'[p] \in Deleting,
         UNCHANGED <<uploads, lost, op, copyVars, res>>,
         \A q \in Procs \ {p} : /\ pc'[q] = pc[q] /\ todo'[q] = todo[q] /\ keys'[q] = keys[q]
                                /\ erased'[q] = erased[q],
         pc' \in [Procs -> {"idle", "listed", "head", "object", "tags", "create", "parts",
                            "complete", "abort", "check", "delete", "walk"}],
         DeletionType',
         obj' \in [Keys -> Whole \cup {None}], DeleteInv(p)'
  PROVE  Inv'
<1> USE WholeType DEF Inv, copyVars
<1>1. TypeOK'
  BY DEF TypeOK
<1>2. \A q \in Procs : CallInv(q)'
  BY DEF CallInv
<1>3. \A q \in Procs : PartsInv(q)'
  BY DEF PartsInv
<1>4. \A q \in Procs : DeleteInv(q)'
  BY DeletionStays
<1>5. UploadInv' /\ WholeObjects'
  BY DEF UploadInv, UploadsAccounted, WholeObjects
<1> QED  BY <1>1, <1>2, <1>3, <1>4, <1>5

-----------------------------------------------------------------------------
\* Copies.

\* One object is replaced.
LEMMA PutType ==
  ASSUME Inv, NEW k, NEW c \in Whole \cup {None}, obj' = [obj EXCEPT ![k] = c]
  PROVE  obj' \in [Keys -> Whole \cup {None}]
BY ObjType

\* The HEAD pins the copy to the version it saw.
LEMMA HeadObjectInv ==
  ASSUME Inv, NEW p \in Procs, HeadObject(p)
  PROVE  Inv'
<1>1. /\ pc[p] = "head" /\ from[p] \in Keys /\ to[p] \in Keys /\ op[p] = "copy"
      /\ UNCHANGED server /\ obj' \in [Keys -> Whole \cup {None}]
  BY ObjType DEF HeadObject, Inv, CallInv, server
<1>2. CASE Return(p, "missing") \/ Return(p, "ok")
  BY <1>1, <1>2, PlainReturnInv DEF server
<1>3. CASE /\ obj[from[p]] # None /\ etag' = [etag EXCEPT ![p] = obj[from[p]]]
           /\ Goto(p, IF IsBig(obj[from[p]]) THEN "tags" ELSE "object")
           /\ UNCHANGED <<upload, part, piece, gerr, delVars>>
  <2>1. obj[from[p]] \in Whole
    BY <1>1, <1>3, ObjType
  <2>2. TypeOK'
    BY <1>1, <1>3, <2>1 DEF Goto, server, delVars, Inv, TypeOK
  <2>3. OthersKeep(p) /\ pc'[p] \in {"tags", "object"}
    BY <1>3 DEF Goto, OthersKeep, Inv, TypeOK
  <2>4. CallInv(p)'
    BY <1>1, <1>3, <2>1, <2>3, SMTT(30) DEF Goto, Inv, TypeOK, CallInv
  <2>5. PartsInv(p)'
    BY <1>1, <1>3, <2>3, NoParts DEF PartsInv
  <2>6. UploadInv' /\ WholeObjects'
    BY <1>1, <1>3, <2>3 DEF OthersKeep, server, Inv, UploadInv, UploadsAccounted, WholeObjects
  <2> QED  BY <1>1, <2>2, <2>3, <2>4, <2>5, <2>6, CopyStepInv
<1> QED  BY <1>2, <1>3 DEF HeadObject

\* CopyObject writes the version it was pinned to, or nothing.
LEMMA CopyObjectInv ==
  ASSUME Inv, NEW p \in Procs, CopyObject(p) \/ CopyObjectLost(p)
  PROVE  Inv'
<1>1. from[p] \in Keys /\ obj[from[p]] \in Whole \cup {None}
  BY ObjType DEF CopyObject, CopyObjectLost, Inv, CallInv
<1>2. obj' \in [Keys -> Whole \cup {None}]
  BY <1>1, PutType DEF CopyObject, CopyObjectLost
<1> QED  BY <1>2, PlainReturnInv DEF CopyObject, CopyObjectLost

\* A stale listing is answered by a HEAD, a missing source or another version by an error.
LEMMA CopyObjectFailInv ==
  ASSUME Inv, NEW p \in Procs, CopyObjectFail(p)
  PROVE  Inv'
<1>1. pc[p] \in {"listed", "object"} /\ UNCHANGED server /\ obj' \in [Keys -> Whole \cup {None}]
  BY ObjType DEF CopyObjectFail, server
<1>2. CASE Return(p, "missing") \/ Return(p, "changed")
  BY <1>1, <1>2, PlainReturnInv DEF server
<1>3. CASE Goto(p, "head") /\ UNCHANGED <<etag, upload, part, piece, gerr, delVars>>
  <2>1. TypeOK'
    BY <1>1, <1>3 DEF Goto, server, delVars, Inv, TypeOK
  <2>2. OthersKeep(p) /\ pc'[p] = "head"
    BY <1>3 DEF Goto, OthersKeep, Inv, TypeOK
  <2>3. CallInv(p)'
    BY <1>1, <1>3, <2>2 DEF Goto, Inv, CallInv
  <2>4. PartsInv(p)'
    BY <1>1, <1>3, <2>2, NoParts DEF PartsInv
  <2>5. UploadInv' /\ WholeObjects'
    BY <1>1, <1>3, <2>2 DEF OthersKeep, server, Inv, UploadInv, UploadsAccounted, WholeObjects
  <2> QED  BY <1>1, <2>1, <2>2, <2>3, <2>4, <2>5, CopyStepInv
<1> QED  BY <1>2, <1>3 DEF CopyObjectFail

\* The tags are asked for, or the source is gone.
LEMMA TaggingInv ==
  ASSUME Inv, NEW p \in Procs, GetObjectTagging(p)
  PROVE  Inv'
<1>1. pc[p] = "tags" /\ UNCHANGED server /\ obj' \in [Keys -> Whole \cup {None}]
  BY ObjType DEF GetObjectTagging, server
<1>2. CASE Return(p, "missing")
  BY <1>1, <1>2, PlainReturnInv DEF server
<1>3. CASE Goto(p, "create") /\ UNCHANGED <<etag, upload, part, piece, gerr, delVars>>
  <2>1. TypeOK'
    BY <1>1, <1>3 DEF Goto, server, delVars, Inv, TypeOK
  <2>2. OthersKeep(p) /\ pc'[p] = "create"
    BY <1>3 DEF Goto, OthersKeep, Inv, TypeOK
  <2>3. CallInv(p)'
    BY <1>1, <1>3, <2>2 DEF Goto, Inv, CallInv
  <2>4. PartsInv(p)'
    BY <1>1, <1>3, <2>2, NoParts DEF PartsInv
  <2>5. UploadInv' /\ WholeObjects'
    BY <1>1, <1>3, <2>2 DEF OthersKeep, server, Inv, UploadInv, UploadsAccounted, WholeObjects
  <2> QED  BY <1>1, <2>1, <2>2, <2>3, <2>4, <2>5, CopyStepInv
<1> QED  BY <1>2, <1>3 DEF GetObjectTagging

\* A new upload is this call's, and nobody else's.
LEMMA CreateInv ==
  ASSUME Inv, NEW p \in Procs, CreateMultipartUpload(p)
  PROVE  Inv'
<1>1. PICK u \in Unused : uploads' = uploads \cup {u} /\ upload' = [upload EXCEPT ![p] = u]
  BY DEF CreateMultipartUpload
<1>2. u \in Uploads /\ u \notin uploads /\ \A q \in Procs : upload[q] # u
  BY <1>1 DEF Unused
<1>3. pc[p] = "create" /\ Goto(p, "parts") /\ UNCHANGED <<obj, lost, etag, part, piece, gerr, delVars>>
  BY DEF CreateMultipartUpload
<1>4. upload[p] = None /\ gerr[p] = "nil" /\ \A i \in 1..Parts : part[p][i] = "todo"
  BY <1>3, NoParts
<1>5. TypeOK'
  BY <1>1, <1>2, <1>3 DEF Goto, delVars, Inv, TypeOK
<1>6. OthersKeep(p) /\ pc'[p] = "parts" /\ upload'[p] = u
  BY <1>1, <1>3 DEF Goto, OthersKeep, Inv, TypeOK
<1>7. CallInv(p)'
  BY <1>2, <1>3, <1>4, <1>6 DEF Goto, Inv, CallInv
<1>8. PartsInv(p)'
  BY <1>3, <1>4, <1>6 DEF PartsInv
<1>9. UploadInv'
  <2>1. UploadsAccounted'
    <3> SUFFICES ASSUME NEW x \in uploads', x \notin lost' PROVE \E q \in Procs : upload'[q] = x
      BY DEF UploadsAccounted
    <3>1. CASE x = u
      BY <1>6, <3>1
    <3>2. CASE x # u
      <4>1. PICK q \in Procs : upload[q] = x
        BY <1>1, <1>3, <3>2 DEF Inv, UploadInv, UploadsAccounted
      <4>2. q # p
        BY <1>1, <1>4, <3>2, <4>1, S3Sets DEF Inv, TypeOK
      <4> QED  BY <1>6, <4>1, <4>2 DEF OthersKeep
    <3> QED  BY <3>1, <3>2
  <2> QED  BY <1>1, <1>2, <1>6, <2>1 DEF Inv, UploadInv, OthersKeep
<1>10. WholeObjects'
  BY <1>3 DEF Inv, WholeObjects
<1> QED  BY <1>3, <1>5, <1>6, <1>7, <1>8, <1>9, <1>10, CopyStepInv

\* The id of a new upload never arrives: the upload is lost from the start.
LEMMA CreateLostInv ==
  ASSUME Inv, NEW p \in Procs, CreateLost(p)
  PROVE  Inv'
<1>1. PICK u \in Uploads : uploads' = uploads \cup {u} /\ lost' = lost \cup {u}
  BY DEF CreateLost, Unused
<1>2. pc[p] = "create" /\ upload[p] = None /\ Return(p, "error") /\ obj' \in [Keys -> Whole \cup {None}]
  BY ObjType DEF CreateLost, Inv, CallInv
<1>3. uploads \subseteq lost \cup {upload[q] : q \in Procs \ {p}}
  BY <1>2, S3Sets DEF Inv, TypeOK, UploadInv, UploadsAccounted
<1>4. uploads' \subseteq Uploads /\ lost' \subseteq Uploads
  BY <1>1 DEF Inv, TypeOK
<1> QED  BY <1>1, <1>2, <1>3, <1>4, ReturnInv

\* Only copyParts has parts under way.
LEMMA SentInParts ==
  ASSUME Inv, NEW p \in Procs, NEW i \in 1..Parts, part[p][i] = "sent"
  PROVE  pc[p] = "parts"
<1>1. pc[p] \in Multipart
  BY NoParts
<1> QED  BY <1>1 DEF Inv, PartsInv

\* A part is started, unless another one has failed.
LEMMA PartStartInv ==
  ASSUME Inv, NEW p \in Procs, NEW i \in 1..Parts, PartStart(p, i)
  PROVE  Inv'
<1>1. pc[p] = "parts" /\ UNCHANGED <<server, pc, op, from, to, etag, upload, delVars, res>>
  BY SentInParts DEF PartStart
<1>2. TypeOK'
  BY <1>1 DEF PartStart, Inv, TypeOK, server, delVars
<1>3. OthersKeep(p)
  BY <1>1 DEF PartStart, OthersKeep, Inv, TypeOK
<1>4. CallInv(p)'
  BY <1>1 DEF PartStart, Inv, TypeOK, CallInv
<1>5. PartsInv(p)'
  BY <1>1 DEF PartStart, Inv, TypeOK, PartsInv
<1>6. UploadInv' /\ WholeObjects'
  BY <1>1 DEF server, Inv, UploadInv, UploadsAccounted, WholeObjects
<1> QED  BY <1>1, <1>2, <1>3, <1>4, <1>5, <1>6, CopyStepInv

\* A part is copied from the pinned version.
LEMMA PartCopiedInv ==
  ASSUME Inv, NEW p \in Procs, NEW i \in 1..Parts, PartCopied(p, i)
  PROVE  Inv'
<1>1. pc[p] = "parts" /\ UNCHANGED <<server, pc, op, from, to, etag, upload, delVars, res>>
  BY SentInParts DEF PartCopied
<1>pinned. obj[from[p]] = etag[p] /\ etag[p] \in [1..Parts -> Values]
  BY <1>1, WholeType DEF PartCopied, Matches, Inv, CallInv
<1>2. TypeOK'
  BY <1>1, <1>pinned DEF PartCopied, Inv, TypeOK, server, delVars
<1>3. OthersKeep(p)
  BY <1>1 DEF PartCopied, OthersKeep, Inv, TypeOK
<1>4. CallInv(p)'
  BY <1>1 DEF PartCopied, Inv, TypeOK, CallInv
<1>5. PartsInv(p)'
  <2>1. \A j \in 1..Parts : /\ part'[p][j] = (IF j = i THEN "ok" ELSE part[p][j])
                            /\ piece'[p][j] = (IF j = i THEN etag[p][i] ELSE piece[p][j])
    BY <1>pinned DEF PartCopied, Inv, TypeOK
  <2> QED  BY <1>1, <2>1 DEF PartCopied, Inv, PartsInv
<1>6. UploadInv' /\ WholeObjects'
  BY <1>1 DEF server, Inv, UploadInv, UploadsAccounted, WholeObjects
<1> QED  BY <1>1, <1>2, <1>3, <1>4, <1>5, <1>6, CopyStepInv

\* The first part that fails leaves its error.
LEMMA PartFailedInv ==
  ASSUME Inv, NEW p \in Procs, NEW i \in 1..Parts, PartFailed(p, i)
  PROVE  Inv'
<1>1. pc[p] = "parts" /\ UNCHANGED <<server, pc, op, from, to, etag, upload, delVars, res>>
  BY SentInParts DEF PartFailed
<1>2. TypeOK'
  BY <1>1 DEF PartFailed, Inv, TypeOK, server, delVars, Reasons
<1>3. OthersKeep(p)
  BY <1>1 DEF PartFailed, OthersKeep, Inv, TypeOK
<1>4. CallInv(p)'
  BY <1>1 DEF PartFailed, Inv, TypeOK, CallInv
<1>5. PartsInv(p)'
  BY <1>1 DEF PartFailed, Inv, TypeOK, PartsInv, Reasons
<1>6. UploadInv' /\ WholeObjects'
  BY <1>1 DEF server, Inv, UploadInv, UploadsAccounted, WholeObjects
<1> QED  BY <1>1, <1>2, <1>3, <1>4, <1>5, <1>6, CopyStepInv

\* g.Wait: all parts have ended.
LEMMA PartsDoneInv ==
  ASSUME Inv, NEW p \in Procs, PartsDone(p)
  PROVE  Inv'
<1>1. /\ pc[p] = "parts" /\ UNCHANGED <<server, etag, upload, part, piece, gerr, delVars>>
      /\ \A i \in 1..Parts : part[p][i] \in {"ok", "failed"}
      /\ Goto(p, IF gerr[p] = "nil" THEN "complete" ELSE "abort")
  BY DEF PartsDone
<1>2. OthersKeep(p) /\ pc'[p] = IF gerr[p] = "nil" THEN "complete" ELSE "abort"
  BY <1>1 DEF Goto, OthersKeep, Inv, TypeOK
<1>3. TypeOK'
  BY <1>1 DEF Goto, server, delVars, Inv, TypeOK
<1>4. CallInv(p)'
  BY <1>1, <1>2 DEF Goto, Inv, CallInv
<1>5. PartsInv(p)'
  BY <1>1, <1>2 DEF Inv, PartsInv
<1>6. UploadInv' /\ WholeObjects'
  BY <1>1, <1>2 DEF OthersKeep, server, Inv, UploadInv, UploadsAccounted, WholeObjects
<1> QED  BY <1>1, <1>2, <1>3, <1>4, <1>5, <1>6, CopyStepInv

\* The parts of an upload that is to be completed are all of the pinned version.
LEMMA PiecesAreOneVersion ==
  ASSUME Inv, NEW p \in Procs, pc[p] = "complete"
  PROVE  piece[p] = etag[p] /\ piece[p] \in Whole
<1>1. etag[p] \in Whole /\ etag[p] \in [1..Parts -> Values]
  BY WholeType DEF Inv, CallInv
<1>2. \A i \in 1..Parts : piece[p][i] = etag[p][i]
  BY DEF Inv, PartsInv
<1>3. piece[p] \in [1..Parts -> Values \cup {None}]
  BY DEF Inv, TypeOK
<1>4. piece[p] = [i \in 1..Parts |-> piece[p][i]] /\ etag[p] = [i \in 1..Parts |-> etag[p][i]]
  BY <1>1, <1>3
<1>5. piece[p] = etag[p]
  BY <1>2, <1>4
<1> QED  BY <1>1, <1>5

\* When a call's upload ends, that of no other call does, and no other is left over.
LEMMA UploadEnds ==
  ASSUME Inv, NEW p \in Procs, pc[p] \in Multipart
  PROVE  /\ \A q \in Procs \ {p} : upload[q] \in uploads => upload[q] \in uploads \ {upload[p]}
         /\ uploads \ {upload[p]} \subseteq lost \cup {upload[q] : q \in Procs \ {p}}
<1>1. upload[p] \in Uploads /\ upload[p] # None
  BY S3Sets DEF Inv, CallInv
<1>2. \A q \in Procs \ {p} : upload[q] # upload[p]
  BY <1>1 DEF Inv, UploadInv
<1> QED  BY <1>2 DEF Inv, UploadInv, UploadsAccounted

\* CompleteMultipartUpload: the object is the pinned version, the upload is gone.
LEMMA CompleteInv ==
  ASSUME Inv, NEW p \in Procs, CompleteMultipartUpload(p)
  PROVE  Inv'
<1>1. obj' \in [Keys -> Whole \cup {None}]
  BY PiecesAreOneVersion, PutType DEF CompleteMultipartUpload
<1>2. uploads' \subseteq Uploads /\ lost' \subseteq Uploads
  BY DEF CompleteMultipartUpload, Inv, TypeOK
<1> QED  BY <1>1, <1>2, UploadEnds, ReturnInv DEF CompleteMultipartUpload

\* It fails, with or without effect: the upload is aborted next.
LEMMA CompleteFailInv ==
  ASSUME Inv, NEW p \in Procs, CompleteFail(p)
  PROVE  Inv'
<1>1. /\ pc[p] = "complete" /\ Goto(p, "abort") /\ gerr' = [gerr EXCEPT ![p] = "error"]
      /\ UNCHANGED <<lost, etag, upload, part, piece, delVars>>
      /\ uploads' \in {uploads, uploads \ {upload[p]}}
  BY DEF CompleteFail, server
<1>2. obj' \in [Keys -> Whole \cup {None}]
  BY PiecesAreOneVersion, PutType, ObjType DEF CompleteFail, server
<1>3. OthersKeep(p) /\ pc'[p] = "abort" /\ gerr'[p] = "error"
  BY <1>1 DEF Goto, OthersKeep, Inv, TypeOK
<1>4. TypeOK'
  BY <1>1, <1>2, WholeType DEF Goto, delVars, Inv, TypeOK
<1>5. CallInv(p)'
  BY <1>1, <1>3 DEF Goto, Inv, CallInv
<1>6. PartsInv(p)'
  BY <1>1, <1>3 DEF Inv, PartsInv
<1>7. UploadInv'
  <2>1. \A q \in Procs \ {p} : upload[q] \in uploads => upload[q] \in uploads'
    BY <1>1, UploadEnds
  <2> QED  BY <1>1, <1>3, <2>1 DEF OthersKeep, Inv, UploadInv, UploadsAccounted
<1>8. WholeObjects'
  BY <1>2 DEF WholeObjects
<1> QED  BY <1>1, <1>3, <1>4, <1>5, <1>6, <1>7, <1>8, CopyStepInv

\* AbortMultipartUpload ends the upload, or the upload is lost.
LEMMA AbortInv ==
  ASSUME Inv, NEW p \in Procs, AbortMultipartUpload(p) \/ AbortFail(p)
  PROVE  Inv'
<1>1. /\ pc[p] = "abort" /\ Return(p, gerr[p]) /\ gerr[p] \in {"missing", "changed", "error"}
      /\ obj' \in [Keys -> Whole \cup {None}]
  BY ObjType DEF AbortMultipartUpload, AbortFail, Inv, TypeOK, CallInv
<1>2. uploads' \subseteq Uploads /\ lost' \subseteq Uploads
  BY DEF AbortMultipartUpload, AbortFail, Inv, TypeOK
<1>3. \A q \in Procs \ {p} : upload[q] \in uploads => upload[q] \in uploads'
  BY <1>1, UploadEnds DEF AbortMultipartUpload, AbortFail
<1>4. uploads' \subseteq lost' \cup {upload[q] : q \in Procs \ {p}}
  BY <1>1, UploadEnds DEF AbortMultipartUpload, AbortFail
<1> QED  BY <1>1, <1>2, <1>3, <1>4, ReturnInv

-----------------------------------------------------------------------------
\* Deletions.

\* What a walk lists are sequences of segments.
LEMMA NamesType ==
  ASSUME NEW d \in Seq(STRING)
  PROVE  DirsOf(d) \subseteq Seq(STRING) /\ FilesOf(d) \subseteq Seq(STRING)
<1>1. ASSUME NEW k \in Keys, Len(k) > Len(d) + 1 PROVE SubSeq(k, 1, Len(d) + 1) \in Seq(STRING)
  BY <1>1, S3Sets
<1> QED  BY <1>1, S3Sets DEF DirsOf, FilesOf

\* The keys that deleteKnown names.
LEMMA ObjsType == ASSUME Inv, NEW p \in Procs PROVE Objs(p) \subseteq Paths
<1>1. from[p] \in Keys \cup Dirs \cup {None} /\ keys[p] \subseteq Seq(STRING)
  BY DEF Inv, TypeOK
<1>2. {Addressed(from[p], k) : k \in Seq(STRING)} \subseteq Paths /\ Seq(STRING) \subseteq Paths
  BY <1>1, Zenon DEF Paths
<1>3. {Addressed(from[p], k) : k \in keys[p]} \subseteq {Addressed(from[p], k) : k \in Seq(STRING)}
  BY <1>1, Zenon
<1> QED  BY <1>1, <1>2, <1>3 DEF Objs

\* Delete looks at one key.
LEMMA DeleteHeadInv ==
  ASSUME Inv, NEW p \in Procs, DeleteHead(p)
  PROVE  Inv'
<1>1. PICK k \in todo[p] :
        /\ todo' = [todo EXCEPT ![p] = @ \ {k}]
        /\ missing' = [missing EXCEPT ![p] = IF obj[k] = None THEN @ \cup {k} ELSE @]
  BY DEF DeleteHead
<1>2. pc[p] = "check" /\ UNCHANGED <<server, pc, op, copyVars, keys, erased, res>>
  BY DEF DeleteHead
<1>3. DeletionType'
  BY <1>1, <1>2 DEF Inv, TypeOK
<1>4. DeleteInv(p)'
  BY <1>2, NoDeletion DEF Inv, DeleteInv
<1>5. \A q \in Procs \ {p} : todo'[q] = todo[q]
  BY <1>1 DEF Inv, TypeOK
<1> QED  BY <1>2, <1>3, <1>4, <1>5, ObjType, DeleteStepInv DEF server, Inv, TypeOK

\* Deleting begins: nothing is deleted yet, all of the keys are to do.
LEMMA ToDeleteInv ==
  ASSUME Inv, NEW p \in Procs, pc[p] \in {"check", "walk"}, UNCHANGED server,
         todo' = [todo EXCEPT ![p] = Objs(p)], Goto(p, "delete"),
         UNCHANGED <<etag, upload, part, piece, gerr, keys, missing, erased>>
  PROVE  Inv'
<1>1. DeletionType'
  BY ObjsType DEF Inv, TypeOK
<1>2. pc'[p] = "delete" /\ \A q \in Procs \ {p} : pc'[q] = pc[q] /\ todo'[q] = todo[q]
  BY DEF Goto, Inv, TypeOK
<1>3. pc' \in [Procs -> {"idle", "listed", "head", "object", "tags", "create", "parts",
                         "complete", "abort", "check", "delete", "walk"}]
  BY DEF Goto, Inv, TypeOK
<1>4. DeleteInv(p)'
  <2>1. Objs(p)' = Objs(p) /\ todo'[p] = Objs(p) /\ erased'[p] = {}
    BY ObjsStay DEF Goto, Inv, TypeOK, DeleteInv
  <2> QED  BY <1>2, <2>1 DEF DeleteInv
<1> QED  BY <1>1, <1>2, <1>3, <1>4, ObjType, DeleteStepInv DEF Goto, server, copyVars

\* All keys are there, or nothing is deleted; DeleteAll needs one key.
LEMMA DecideInv ==
  ASSUME Inv, NEW p \in Procs, DeleteDecide(p) \/ WalkDone(p)
  PROVE  Inv'
<1>1. pc[p] \in {"check", "walk"} /\ UNCHANGED server
  BY DEF DeleteDecide, WalkDone
<1>2. CASE Return(p, "missing")
  BY <1>1, <1>2, ObjType, PlainReturnInv DEF server
<1>3. CASE /\ todo' = [todo EXCEPT ![p] = Objs(p)] /\ Goto(p, "delete")
           /\ UNCHANGED <<etag, upload, part, piece, gerr, keys, missing, erased>>
  BY <1>1, <1>3, ToDeleteInv
<1> QED  BY <1>2, <1>3 DEF DeleteDecide, WalkDone

\* A set of keys is deleted.
LEMMA EraseType ==
  ASSUME Inv, NEW set, obj' = [k \in Keys |-> IF k \in set THEN None ELSE obj[k]]
  PROVE  obj' \in [Keys -> Whole \cup {None}]
BY ObjType

\* One request of deleteKnown.
LEMMA DeleteObjectsInv ==
  ASSUME Inv, NEW p \in Procs, DeleteObjects(p)
  PROVE  Inv'
<1>1. PICK batch \in SUBSET todo[p], errors \in SUBSET Keys :
        /\ errors \subseteq batch /\ (KeyErrors \/ errors = {})
        /\ obj' = [k \in Keys |-> IF k \in batch \ errors THEN None ELSE obj[k]]
        /\ todo' = [todo EXCEPT ![p] = @ \ batch]
        /\ erased' = [erased EXCEPT ![p] = @ \cup (batch \ errors)]
  BY DEF DeleteObjects
<1>2. pc[p] = "delete" /\ UNCHANGED <<uploads, lost, pc, op, copyVars, keys, missing, res>>
  BY DEF DeleteObjects
<1>3. DeletionType'
  BY <1>1, <1>2 DEF Inv, TypeOK
<1>4. DeleteInv(p)'
  <2>1. todo'[p] = todo[p] \ batch /\ erased'[p] = erased[p] \cup (batch \ errors)
    BY <1>1 DEF Inv, TypeOK
  <2>2. Objs(p)' = Objs(p)
    BY <1>2, ObjsStay DEF copyVars
  <2> QED  BY <1>1, <1>2, <2>1, <2>2 DEF Inv, DeleteInv
<1>5. \A q \in Procs \ {p} : todo'[q] = todo[q] /\ erased'[q] = erased[q]
  BY <1>1 DEF Inv, TypeOK
<1>6. obj' \in [Keys -> Whole \cup {None}]
  BY <1>1, EraseType
<1> QED  BY <1>2, <1>3, <1>4, <1>5, <1>6, DeleteStepInv DEF Inv, TypeOK

\* A walk lists one prefix.
LEMMA ListDirInv ==
  ASSUME Inv, NEW p \in Procs, ListDir(p)
  PROVE  Inv'
<1>1. PICK d \in todo[p] :
        /\ todo' = [todo EXCEPT ![p] = (@ \ {d}) \cup DirsOf(d)]
        /\ keys' = [keys EXCEPT ![p] = @ \cup FilesOf(d)]
  BY DEF ListDir
<1>2. pc[p] = "walk" /\ UNCHANGED <<server, pc, op, copyVars, missing, erased, res>>
  BY DEF ListDir
<1>3. DirsOf(d) \subseteq Seq(STRING) /\ FilesOf(d) \subseteq Seq(STRING)
  BY <1>1, <1>2, NamesType DEF Inv, DeleteInv
<1>4. DeletionType'
  <2> DEFINE D == DirsOf(d)  F == FilesOf(d)
  <2> HIDE DEF D, F
  <2>1. /\ todo' = [todo EXCEPT ![p] = (@ \ {d}) \cup D] /\ keys' = [keys EXCEPT ![p] = @ \cup F]
        /\ D \subseteq Seq(STRING) /\ F \subseteq Seq(STRING) /\ D \subseteq Paths
    BY <1>1, <1>3 DEF D, F, Paths
  <2> QED  BY <1>2, <2>1 DEF Inv, TypeOK
<1>5. DeleteInv(p)'
  <2>1. todo'[p] \subseteq Seq(STRING) /\ erased'[p] = {}
    BY <1>1, <1>2, <1>3 DEF Inv, TypeOK, DeleteInv
  <2> QED  BY <1>2, <2>1, NoDeletion
<1>6. \A q \in Procs \ {p} : todo'[q] = todo[q] /\ keys'[q] = keys[q]
  BY <1>1 DEF Inv, TypeOK
<1> QED  BY <1>2, <1>4, <1>5, <1>6, ObjType, DeleteStepInv DEF server, Inv, TypeOK

-----------------------------------------------------------------------------
\* Every request of a call, and of the other clients, keeps the invariant.
LEMMA NextInv == Inv /\ [Next]_vars => Inv'
<1> SUFFICES ASSUME Inv, [Next]_vars PROVE Inv'
  OBVIOUS
<1>1. CASE UNCHANGED vars
  <2>1. \A q \in Procs : DeleteInv(q)'
    BY <1>1, DeletionStays DEF Inv, vars, copyVars, delVars
  <2> QED  BY <1>1, <2>1 DEF Inv, TypeOK, CallInv, PartsInv, UploadInv, UploadsAccounted,
                             WholeObjects, vars, server, copyVars, delVars
<1>2. CASE PutObject
  <2>1. obj' \in [Keys -> Whole \cup {None}] /\ UNCHANGED <<uploads, lost, pc, op, copyVars, delVars, res>>
    BY <1>2, PutType DEF PutObject
  <2>2. TypeOK'
    BY <2>1, WholeType DEF Inv, TypeOK, copyVars, delVars
  <2>3. \A q \in Procs : DeleteInv(q)'
    BY <2>1, DeletionStays DEF Inv, copyVars, delVars
  <2> QED  BY <2>1, <2>2, <2>3 DEF Inv, CallInv, PartsInv, UploadInv, UploadsAccounted,
                                  WholeObjects, copyVars, delVars
<1>3. ASSUME NEW p \in Procs, Step(p) PROVE Inv'
  <2>1. CASE Copy(p)
    BY <2>1, BeginInv DEF Copy, Named
  <2>2. CASE CopyListed(p)
    <3>1. PICK s \in Keys, d \in Keys :
            /\ obj[s] # None
            /\ IF IsBig(obj[s]) \/ s = d THEN Begin(p, "copy", "head", s, d, None, {})
                                         ELSE Begin(p, "copy", "listed", s, d, obj[s], {})
      BY <2>2 DEF CopyListed, Named
    <3>2. obj[s] \in Whole
      BY <3>1, ObjType
    <3>3. CASE IsBig(obj[s]) \/ s = d
      BY <3>1, <3>3, BeginInv
    <3>4. CASE ~(IsBig(obj[s]) \/ s = d)
      BY <3>1, <3>2, <3>4, BeginInv
    <3> QED  BY <3>3, <3>4
  <2>3. CASE HeadObject(p)
    BY <2>3, HeadObjectInv
  <2>4. CASE CopyObject(p) \/ CopyObjectLost(p)
    BY <2>4, CopyObjectInv
  <2>5. CASE CopyObjectFail(p)
    BY <2>5, CopyObjectFailInv
  <2>6. CASE GetObjectTagging(p)
    BY <2>6, TaggingInv
  <2>7. CASE CreateMultipartUpload(p) \/ CreateLost(p)
    BY <2>7, CreateInv, CreateLostInv
  <2>8. CASE \E i \in 1..Parts : PartStart(p, i) \/ PartCopied(p, i) \/ PartFailed(p, i)
    BY <2>8, PartStartInv, PartCopiedInv, PartFailedInv
  <2>9. CASE PartsDone(p)
    BY <2>9, PartsDoneInv
  <2>10. CASE CompleteMultipartUpload(p) \/ CompleteFail(p)
    BY <2>10, CompleteInv, CompleteFailInv
  <2>11. CASE AbortMultipartUpload(p) \/ AbortFail(p)
    BY <2>11, AbortInv
  <2>12. CASE Delete(p)
    <3>1. PICK ks \in SUBSET Named : Begin(p, "delete", "check", None, None, None, ks)
      BY <2>12 DEF Delete
    <3>2. ks \subseteq Seq(STRING)
      BY S3Sets DEF Named
    <3> QED  BY <3>1, <3>2, BeginInv
  <2>13. CASE DeleteHead(p)
    BY <2>13, DeleteHeadInv
  <2>14. CASE DeleteDecide(p) \/ WalkDone(p)
    BY <2>14, DecideInv
  <2>15. CASE DeleteObjects(p)
    BY <2>15, DeleteObjectsInv
  <2>16. CASE DeleteObjectsFail(p)
    <3>1. obj' \in [Keys -> Whole \cup {None}]
      BY <2>16, EraseType DEF DeleteObjectsFail
    <3> QED  BY <2>16, <3>1, PlainReturnInv DEF DeleteObjectsFail
  <2>17. CASE DeleteDone(p) \/ Fail(p)
    BY <2>17, ObjType, PlainReturnInv DEF DeleteDone, Fail, server
  <2>18. CASE DeleteAll(p)
    <3>1. PICK d \in Dirs : Begin(p, "deleteall", "walk", d, None, None, {d})
      BY <2>18 DEF DeleteAll
    <3> QED  BY <3>1, S3Sets, BeginInv
  <2>19. CASE ListDir(p)
    BY <2>19, ListDirInv
  <2> QED
    BY <1>3, <2>1, <2>2, <2>3, <2>4, <2>5, <2>6, <2>7, <2>8, <2>9, <2>10, <2>11, <2>12, <2>13,
       <2>14, <2>15, <2>16, <2>17, <2>18, <2>19 DEF Step
<1> QED  BY <1>1, <1>2, <1>3 DEF Next

\* The invariant of the bucket: what a copy is pinned to, whose an upload is, what a
\* deletion has done.
THEOREM InvHolds == Spec => []Inv
<1> QED  BY InitInv, NextInv, PTL DEF Spec

\* The bucket and the local state of every call keep their types.
THEOREM TypeCorrect == Spec => []TypeOK
<1>1. Inv => TypeOK  BY DEF Inv
<1> QED  BY <1>1, InvHolds, PTL

\* UploadPartCopy with CopySourceIfMatch never mixes versions.
THEOREM ObjectsAreWhole == Spec => []WholeObjects
<1>1. Inv => WholeObjects  BY DEF Inv
<1> QED  BY <1>1, InvHolds, PTL

\* g.Wait returns before the upload is completed or aborted.
THEOREM PartsHaveAnUpload == Spec => []PartsGoToAnOpenUpload
<1>1. Inv => PartsGoToAnOpenUpload
  BY SentInParts DEF PartsGoToAnOpenUpload, Sent, Inv, UploadInv
<1> QED  BY <1>1, InvHolds, PTL

\* multipartCopy aborts its upload on every error path.
THEOREM UploadsAreAccounted == Spec => []UploadsAccounted
<1>1. Inv => UploadsAccounted  BY DEF Inv, UploadInv
<1> QED  BY <1>1, InvHolds, PTL

-----------------------------------------------------------------------------
\* How calls end.

\* A step of one call leaves alone what another call is doing.
LEMMA OthersUntouched ==
  ASSUME Inv, NEW p \in Procs, Step(p), NEW q \in Procs, q # p
  PROVE  /\ op'[q] = op[q] /\ from'[q] = from[q] /\ pc'[q] = pc[q] /\ res'[q] = res[q]
         /\ keys'[q] = keys[q] /\ todo'[q] = todo[q]
<1> DEFINE Control == op'[q] = op[q] /\ from'[q] = from[q] /\ pc'[q] = pc[q] /\ res'[q] = res[q]
           Found == keys'[q] = keys[q] /\ todo'[q] = todo[q]
<1>r. ASSUME NEW r, Return(p, r) PROVE Control /\ Found
  BY <1>r DEF Return, Inv, TypeOK
<1>g. ASSUME NEW at, Goto(p, at) PROVE Control
  BY <1>g DEF Goto, Inv, TypeOK
<1>b. ASSUME NEW o, NEW at, NEW s, NEW d, NEW e, NEW set, Begin(p, o, at, s, d, e, set)
      PROVE  Control /\ Found
  BY <1>b DEF Begin, Inv, TypeOK
<1>u. UNCHANGED delVars => Found
  BY DEF delVars
<1>n. /\ \A set : todo' = [todo EXCEPT ![p] = set] => todo'[q] = todo[q]
      /\ \A set : keys' = [keys EXCEPT ![p] = set] => keys'[q] = keys[q]
  BY DEF Inv, TypeOK
<1> HIDE DEF Control, Found
<1>1. CASE Copy(p) \/ CopyListed(p) \/ Delete(p) \/ DeleteAll(p)
  BY <1>1, <1>b DEF Copy, CopyListed, Delete, DeleteAll, Control, Found
<1>2. CASE HeadObject(p) \/ CopyObject(p) \/ CopyObjectLost(p) \/ CopyObjectFail(p)
            \/ GetObjectTagging(p)
  BY <1>2, <1>r, <1>g, <1>u DEF HeadObject, CopyObject, CopyObjectLost, CopyObjectFail,
     GetObjectTagging, Control, Found
<1>3. CASE CreateMultipartUpload(p) \/ CreateLost(p) \/ PartsDone(p)
  BY <1>3, <1>r, <1>g, <1>u DEF CreateMultipartUpload, CreateLost, PartsDone, Control, Found
<1>4. CASE \E i \in 1..Parts : PartStart(p, i) \/ PartCopied(p, i) \/ PartFailed(p, i)
  BY <1>4, <1>u DEF PartStart, PartCopied, PartFailed, Control, Found
<1>5. CASE CompleteMultipartUpload(p) \/ CompleteFail(p) \/ AbortMultipartUpload(p) \/ AbortFail(p)
  BY <1>5, <1>r, <1>g, <1>u DEF CompleteMultipartUpload, CompleteFail, AbortMultipartUpload,
     AbortFail, Control, Found
<1>6. CASE DeleteHead(p) \/ DeleteObjects(p)
  BY <1>6, <1>n DEF DeleteHead, DeleteObjects, copyVars, Control, Found
<1>7. CASE DeleteDecide(p) \/ WalkDone(p) \/ ListDir(p)
  BY <1>7, <1>r, <1>g, <1>n DEF DeleteDecide, WalkDone, ListDir, copyVars, Control, Found
<1>8. CASE DeleteObjectsFail(p) \/ DeleteDone(p) \/ Fail(p)
  BY <1>8, <1>r DEF DeleteObjectsFail, DeleteDone, Fail, Control, Found
<1> QED
  BY <1>1, <1>2, <1>3, <1>4, <1>5, <1>6, <1>7, <1>8 DEF Step

\* A call that is under way ends by a step of its own.
LEMMA OthersKeepResult ==
  ASSUME Inv, Next, NEW p \in Procs, res'[p] # res[p]
  PROVE  Step(p)
<1>1. ASSUME NEW q \in Procs, Step(q), q # p PROVE res'[p] = res[p]
  BY <1>1, OthersUntouched
<1> QED  BY <1>1 DEF Next, PutObject

\* The steps of a call that end it well.
LEMMA OkSteps ==
  ASSUME Inv, Next, NEW p \in Procs, pc[p] # "idle", res'[p] = "ok"
  PROVE  CopyObject(p) \/ CompleteMultipartUpload(p) \/ DeleteDone(p) \/ pc[p] = "head"
<1>1. Step(p) /\ res[p] = "none"
  BY OthersKeepResult DEF Inv, CallInv
<1>2. pc[p] = "abort" => gerr[p] # "ok"
  BY DEF Inv, TypeOK
<1>3. /\ \A r : Return(p, r) => res'[p] = r
      /\ \A at : Goto(p, at) => res'[p] = "none"
  BY <1>1 DEF Return, Goto, Inv, TypeOK
<1> QED
  BY <1>1, <1>2, <1>3 DEF Step, Copy, CopyListed, HeadObject, CopyObjectLost, CopyObjectFail,
     GetObjectTagging, CreateMultipartUpload, CreateLost, PartStart, PartCopied, PartFailed,
     PartsDone, CompleteFail, AbortMultipartUpload, AbortFail, Delete, DeleteHead, DeleteDecide,
     DeleteObjects, DeleteObjectsFail, DeleteAll, ListDir, WalkDone, Fail, Begin

CopyStep == \A p \in Procs : pc[p] \in {"listed", "object", "complete"} /\ res'[p] = "ok"
                               => obj'[to[p]] = etag[p]
DeleteStep == \A p \in Procs : pc[p] = "delete" /\ res'[p] = "ok" => Objs(p) \subseteq erased[p]

\* A copy writes the version that its HEAD, or the listing, reported the size of.
THEOREM CopiesReportedVersion == Spec => CopiesTheReportedVersion
<1>1. Inv /\ [Next]_vars => [CopyStep]_vars
  <2> SUFFICES ASSUME Inv, Next, NEW p \in Procs,
                      pc[p] \in {"listed", "object", "complete"}, res'[p] = "ok"
               PROVE  obj'[to[p]] = etag[p]
    BY DEF CopyStep
  <2>1. CopyObject(p) \/ CompleteMultipartUpload(p)
    BY OkSteps DEF DeleteDone
  <2>2. to[p] \in Keys /\ obj \in [Keys -> Whole \cup {None}]
    BY ObjType DEF Inv, CallInv
  <2>3. CASE CopyObject(p)
    BY <2>2, <2>3 DEF CopyObject, Matches
  <2>4. CASE CompleteMultipartUpload(p)
    BY <2>2, <2>4, PiecesAreOneVersion DEF CompleteMultipartUpload
  <2> QED  BY <2>1, <2>3, <2>4
<1> QED  BY <1>1, InvHolds, PTL DEF Spec, CopiesTheReportedVersion, CopyStep

\* Where the service does not fail single keys, a deletion that succeeds has deleted all
\* of its keys, in however many batches.
THEOREM DeletesAllItNamed == ASSUME ~KeyErrors PROVE Spec => DeletesWhatItNamed
<1>1. Inv /\ [Next]_vars => [DeleteStep]_vars
  <2> SUFFICES ASSUME Inv, Next, NEW p \in Procs, pc[p] = "delete", res'[p] = "ok"
               PROVE  Objs(p) \subseteq erased[p]
    BY DEF DeleteStep
  <2>1. DeleteDone(p)
    BY OkSteps DEF CopyObject, CompleteMultipartUpload
  <2> QED  BY <2>1 DEF DeleteDone, Inv, DeleteInv
<1> QED  BY <1>1, InvHolds, PTL DEF Spec, DeletesWhatItNamed, DeleteStep

-----------------------------------------------------------------------------
\* DeleteAll stays under its prefix.

\* A prefix, position by position.
LEMMA PrefixDef ==
  ASSUME NEW s \in Seq(STRING), NEW t \in Seq(STRING)
  PROVE  IsPrefix(s, t) <=> Len(s) <= Len(t) /\ \A i \in 1..Len(s) : s[i] = t[i]
<1>1. ASSUME IsPrefix(s, t), NEW i \in 1..Len(s) PROVE s[i] = t[i]
  <2>1. SubSeq(s, 1, Len(s))[i] = s[i] /\ SubSeq(t, 1, Len(s))[i] = t[i]
    BY <1>1 DEF IsPrefix
  <2> QED  BY <1>1, <2>1 DEF IsPrefix
<1>2. ASSUME Len(s) <= Len(t), \A i \in 1..Len(s) : s[i] = t[i] PROVE IsPrefix(s, t)
  <2>1. SubSeq(s, 1, Len(s)) = [i \in 1..Len(s) |-> s[i]] /\ SubSeq(t, 1, Len(s)) = [i \in 1..Len(s) |-> t[i]]
    BY <1>2
  <2> QED  BY <1>2, <2>1 DEF IsPrefix
<1> QED  BY <1>1, <1>2 DEF IsPrefix

\* What is listed under a prefix of the walk is under the walk's own.
LEMMA UnderPrefix ==
  ASSUME NEW f \in Seq(STRING), NEW d \in Seq(STRING), NEW k \in Seq(STRING),
         IsPrefix(f, d), IsPrefix(d, k), Len(k) > Len(d)
  PROVE  IsStrictPrefix(f, k) /\ IsPrefix(f, SubSeq(k, 1, Len(d) + 1))
<1>1. Len(f) <= Len(d) /\ \A i \in 1..Len(f) : f[i] = d[i]
  BY PrefixDef
<1>2. \A i \in 1..Len(d) : d[i] = k[i]
  BY PrefixDef
<1>3. Len(f) < Len(k) /\ \A i \in 1..Len(f) : f[i] = k[i]
  BY <1>1, <1>2
<1>4. IsStrictPrefix(f, k)
  BY <1>3, PrefixDef DEF IsStrictPrefix
<1> DEFINE e == SubSeq(k, 1, Len(d) + 1)
<1>5. e \in Seq(STRING) /\ Len(e) = Len(d) + 1 /\ \A i \in 1..(Len(d) + 1) : e[i] = k[i]
  OBVIOUS
<1> HIDE DEF e
<1>6. Len(f) <= Len(e) /\ \A i \in 1..Len(f) : f[i] = e[i]
  BY <1>1, <1>3, <1>5
<1>7. IsPrefix(f, e)
  BY <1>5, <1>6, PrefixDef
<1> QED  BY <1>4, <1>7 DEF e

\* A clean key is addressed as it is.
LEMMA CleanAddressed ==
  ASSUME NEW d \in Seq(STRING), NEW k \in Seq(STRING), IsClean(k)
  PROVE  Addressed(d, k) = k
<1> DEFINE name == [i \in 1..Len(k) |->
             IF i \in Len(d) + 1 .. Len(k) - 1 THEN Base(SubSeq(k, 1, i)) ELSE k[i]]
<1>1. ASSUME NEW i \in 1..Len(k) PROVE name[i] = k[i]
  <2> DEFINE s == SubSeq(k, 1, i)
  <2>1. Len(s) = i /\ s[i] = k[i]
    OBVIOUS
  <2>2. k[i] # ""
    BY DEF IsClean
  <2> HIDE DEF s
  <2>3. Base(s) = k[i]
    BY <2>1, <2>2 DEF Base
  <2> QED  BY <2>3 DEF s
<1>2. name = k
  BY <1>1
<1> QED  BY <1>2 DEF Addressed, Clean

\* Listing a prefix.
LEMMA ListDirWalk ==
  ASSUME Inv, NEW p \in Procs, WalkInv(p), ListDir(p)
  PROVE  WalkInv(p)'
<1> SUFFICES ASSUME op[p] = "deleteall" PROVE WalkInv(p)'
  BY DEF ListDir, WalkInv
<1>1. PICK d \in todo[p] :
        /\ todo' = [todo EXCEPT ![p] = (@ \ {d}) \cup DirsOf(d)]
        /\ keys' = [keys EXCEPT ![p] = @ \cup FilesOf(d)]
  BY DEF ListDir
<1>2. /\ todo'[p] = (todo[p] \ {d}) \cup DirsOf(d)
      /\ keys'[p] = keys[p] \cup FilesOf(d)
  BY <1>1 DEF Inv, TypeOK
<1>3. /\ pc[p] = "walk" /\ d \in Seq(STRING) /\ from[p] \in Seq(STRING) /\ IsPrefix(from[p], d)
      /\ UNCHANGED <<pc, op, from>>
  BY <1>1 DEF ListDir, Inv, TypeOK, DeleteInv, WalkInv, copyVars
<1>4. ASSUME NEW e \in DirsOf(d) PROVE IsPrefix(from[p], e)
  <2>1. PICK k \in Keys : Len(k) > Len(d) + 1 /\ IsPrefix(d, k) /\ e = SubSeq(k, 1, Len(d) + 1)
    BY <1>4 DEF DirsOf
  <2>2. k \in Seq(STRING) /\ Len(d) \in Nat /\ Len(k) \in Nat
    BY <1>3, S3Sets
  <2>3. Len(k) > Len(d)
    BY <2>1, <2>2
  <2> QED  BY <1>3, <2>1, <2>2, <2>3, UnderPrefix
<1>5. ASSUME NEW k \in FilesOf(d) PROVE IsStrictPrefix(from[p], k)
  <2>1. k \in Keys /\ Len(k) = Len(d) + 1 /\ IsPrefix(d, k)
    BY <1>5 DEF FilesOf
  <2>2. k \in Seq(STRING) /\ Len(d) \in Nat /\ Len(k) \in Nat
    BY <1>3, <2>1, S3Sets
  <2>3. Len(k) > Len(d)
    BY <2>1, <2>2
  <2> QED  BY <1>3, <2>1, <2>2, <2>3, UnderPrefix
<1>6. from'[p] = from[p] /\ \A e \in todo'[p] : IsPrefix(from[p], e)
  BY <1>2, <1>3, <1>4 DEF WalkInv
<1>7. \A k \in keys'[p] : IsStrictPrefix(from[p], k)
  BY <1>2, <1>5 DEF WalkInv
<1> QED  BY <1>3, <1>6, <1>7 DEF WalkInv

\* The other steps neither list nor move the walk.
LEMMA StillWalk ==
  ASSUME NEW q \in Procs, WalkInv(q),
         op'[q] # "deleteall"
           \/ /\ op'[q] = op[q] /\ from'[q] = from[q] /\ keys'[q] = keys[q]
              /\ pc'[q] = "walk" => pc[q] = "walk" /\ todo'[q] = todo[q]
  PROVE  WalkInv(q)'
BY DEF WalkInv

\* A step of a call keeps what its own walk has found under its prefix.
LEMMA OwnWalk ==
  ASSUME Inv, NEW p \in Procs, WalkInv(p), Step(p)
  PROVE  WalkInv(p)'
<1>1. ASSUME NEW r, Return(p, r) PROVE op'[p] # "deleteall"
  BY <1>1 DEF Return, Inv, TypeOK
<1>2. ASSUME NEW at, Goto(p, at), at # "walk", keys' = keys
      PROVE  op'[p] = op[p] /\ from'[p] = from[p] /\ keys'[p] = keys[p] /\ pc'[p] # "walk"
  BY <1>2 DEF Goto, Inv, TypeOK
<1>3. ASSUME NEW o, NEW at, NEW s, NEW d, NEW e, NEW set, o # "deleteall", Begin(p, o, at, s, d, e, set)
      PROVE  op'[p] # "deleteall"
  BY <1>3 DEF Begin, Inv, TypeOK
<1>4. CASE DeleteAll(p)
  <2>1. PICK d \in Dirs : Begin(p, "deleteall", "walk", d, None, None, {d})
    BY <1>4 DEF DeleteAll
  <2>2. d \in Seq(STRING) /\ IsPrefix(d, d)
    BY S3Sets, PrefixDef
  <2>3. from'[p] = d /\ todo'[p] = {d} /\ keys'[p] = {}
    BY <2>1 DEF Begin, Inv, TypeOK
  <2> QED  BY <2>2, <2>3 DEF WalkInv
<1>5. CASE ListDir(p)
  BY <1>5, ListDirWalk
<1>6. CASE Copy(p) \/ CopyListed(p) \/ Delete(p)
  BY <1>3, <1>6, StillWalk DEF Copy, CopyListed, Delete
<1>7. CASE HeadObject(p) \/ CopyObject(p) \/ CopyObjectLost(p) \/ CopyObjectFail(p)
            \/ GetObjectTagging(p)
  BY <1>1, <1>2, <1>7, StillWalk DEF HeadObject, CopyObject, CopyObjectLost, CopyObjectFail,
     GetObjectTagging, delVars
<1>8. CASE CreateMultipartUpload(p) \/ CreateLost(p) \/ PartsDone(p)
            \/ (\E i \in 1..Parts : PartStart(p, i) \/ PartCopied(p, i) \/ PartFailed(p, i))
  BY <1>1, <1>2, <1>8, StillWalk DEF CreateMultipartUpload, CreateLost, PartsDone,
     PartStart, PartCopied, PartFailed, delVars
<1>9. CASE CompleteMultipartUpload(p) \/ CompleteFail(p) \/ AbortMultipartUpload(p) \/ AbortFail(p)
  BY <1>1, <1>2, <1>9, StillWalk DEF CompleteMultipartUpload, CompleteFail, AbortMultipartUpload,
     AbortFail, delVars
<1>10. CASE DeleteHead(p) \/ DeleteObjects(p)
  BY <1>10, StillWalk DEF DeleteHead, DeleteObjects, copyVars
<1>11. CASE DeleteDecide(p) \/ WalkDone(p)
  BY <1>1, <1>2, <1>11, StillWalk DEF DeleteDecide, WalkDone
<1>12. CASE DeleteObjectsFail(p) \/ DeleteDone(p) \/ Fail(p)
  BY <1>1, <1>12, StillWalk DEF DeleteObjectsFail, DeleteDone, Fail
<1> QED
  BY <1>4, <1>5, <1>6, <1>7, <1>8, <1>9, <1>10, <1>11, <1>12 DEF Step

\* ... and that of no other call.
LEMMA OtherWalk ==
  ASSUME Inv, NEW p \in Procs, Step(p), NEW q \in Procs, q # p, WalkInv(q)
  PROVE  WalkInv(q)'
<1>1. op'[q] = op[q] /\ from'[q] = from[q] /\ keys'[q] = keys[q] /\ pc'[q] = pc[q] /\ todo'[q] = todo[q]
  BY OthersUntouched
<1> QED  BY <1>1, StillWalk

\* In any bucket: DeleteAll deletes keys that its walk met under its prefix, and for those
\* that are not clean the keys that path.Join makes of them, and nothing else, whatever
\* other clients put there while it walks.
THEOREM DeleteAllUnderPrefix == Spec => []DeleteAllStaysUnderPrefix
<1> DEFINE Walks == \A p \in Procs : WalkInv(p)
<1>1. Init => Walks
  BY DEF Init, WalkInv
<1>2. Inv /\ Walks /\ [Next]_vars => Walks'
  <2> SUFFICES ASSUME Inv, Walks, [Next]_vars, NEW q \in Procs PROVE WalkInv(q)'
    OBVIOUS
  <2>1. CASE UNCHANGED vars
    BY <2>1 DEF WalkInv, vars, copyVars, delVars
  <2>2. CASE PutObject
    BY <2>2 DEF PutObject, WalkInv, copyVars, delVars
  <2>3. ASSUME NEW p \in Procs, Step(p) PROVE WalkInv(q)'
    BY <2>3, OwnWalk, OtherWalk
  <2> QED  BY <2>1, <2>2, <2>3 DEF Next
<1>3. Inv /\ Walks => DeleteAllStaysUnderPrefix
  <2> SUFFICES ASSUME Inv, Walks, NEW p \in Procs, op[p] = "deleteall", NEW k \in erased[p]
               PROVE  \E u \in keys[p] : IsStrictPrefix(from[p], u)
                        /\ (k = u \/ (~IsClean(u) /\ k = Addressed(from[p], u)))
    BY DEF DeleteAllStaysUnderPrefix
  <2>1. k \in Objs(p)
    BY DEF Inv, DeleteInv
  <2>2. PICK u \in keys[p] : k = Addressed(from[p], u)
    BY <2>1 DEF Objs
  <2>3. IsStrictPrefix(from[p], u) /\ from[p] \in Seq(STRING) /\ u \in Seq(STRING)
    BY <2>2 DEF WalkInv, Inv, TypeOK
  <2>4. IsClean(u) => k = u
    BY <2>2, <2>3, CleanAddressed
  <2> QED  BY <2>2, <2>3, <2>4
<1> QED  BY <1>1, <1>2, <1>3, InvHolds, PTL DEF Spec
=============================================================================
