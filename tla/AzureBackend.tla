---------------------------- MODULE AzureBackend ----------------------------
(***************************************************************************)
(* azure/storage.go: Copy, PutObject, Delete and DeleteAll.  The service   *)
(* copies in the background: starting a copy answers "success" or          *)
(* "pending", and a pending one is polled until its status settles,        *)
(* aborted when ctx ends or a poll fails, and recognised by its copy id,   *)
(* as other clients write to the destination too.  A refused copy may be   *)
(* streamed through the client instead.  Deletions take one request per    *)
(* blob.                                                                   *)
(*                                                                         *)
(* The service is external.  It is modelled by what the code relies on: a  *)
(* blob remembers the id and the status of the copy that wrote it, a write *)
(* to a blob with a pending copy is refused, a pending copy ends with the  *)
(* source's content or with an empty blob.                                 *)
(***************************************************************************)
EXTENDS KeyPath

CONSTANTS
  Procs,     \* callers
  Blobs,     \* blob names
  Dirs,      \* the prefixes DeleteAll is called with
  Values,    \* contents
  Ids,       \* copy ids
  Copied,    \* the blobs that other clients start copies to and from
  Fallback,  \* WithClientSideCopyFallback is given
  Empty,     \* the content of a blob while its copy is pending, or after it failed
  None

ASSUME AzureAssumption ==
  /\ Fallback \in BOOLEAN /\ Copied \subseteq Blobs /\ Blobs \cup Dirs \subseteq Seq(STRING)
  /\ Empty \notin Values /\ None \notin Values \cup Blobs \cup Dirs \cup Ids \cup {Empty}

VARIABLES
  blob,      \* blob[b]: the content of b, or None
  cid,       \* cid[b]: the id of the copy that wrote b last, or None
  cst,       \* cst[b]: the status of that copy
  incoming,  \* incoming[b]: the content a pending copy will end with
  orphans,   \* history: the blobs with a pending copy that no call waits for: another
             \*   client's, one whose abort failed, one whose start was not answered, or
             \*   one whose poll was answered without a status
  pc,        \* pc[p]: the request p sends next
  from, to,  \* srcName and dstName; from[p] is also the prefix of a DeleteAll
  ctx,       \* ctx[p]: p's ctx
  id,        \* id[p]: the copy id p was given
  want,      \* want[p]: what p's copy copies (history), or streams
  bytes,     \* bytes[p]: the content whose size Copy reported
  names,     \* names[p]: the blobs Delete was given, or those the walk has met
  todo,      \* todo[p]: names still to check or to delete, or the prefixes to list
  missing,   \* missing[p]: those its checks did not find
  erased,    \* history: erased[p]: those it deleted
  absent,    \* history: absent[p]: the blobs that were missing at some time of p's call
  res        \* res[p]: how p's last call ended

server == <<blob, cid, cst, incoming, orphans>>
call == <<from, to, ctx, id, want>>
deletion == <<names, todo, missing, erased>>
control == <<server, pc, call, deletion, bytes, res>>
vars == <<control, absent>>

Statuses == {"none", "pending", "success", "failed", "aborted"}

Init ==
  /\ blob \in [Blobs -> Values \cup {None}]
  /\ cid = [b \in Blobs |-> None]
  /\ cst = [b \in Blobs |-> "none"]
  /\ incoming = [b \in Blobs |-> None]
  /\ orphans = {}
  /\ pc = [p \in Procs |-> "idle"]
  /\ from = [p \in Procs |-> None] /\ to = [p \in Procs |-> None]
  /\ ctx = [p \in Procs |-> "live"]
  /\ id = [p \in Procs |-> None]
  /\ want = [p \in Procs |-> None]
  /\ bytes = [p \in Procs |-> None]
  /\ names = [p \in Procs |-> {}] /\ todo = [p \in Procs |-> {}]
  /\ missing = [p \in Procs |-> {}] /\ erased = [p \in Procs |-> {}]
  /\ absent = [p \in Procs |-> {}]
  /\ res = [p \in Procs |-> "none"]

-----------------------------------------------------------------------------
Return(p, r, n) ==
  /\ pc' = [pc EXCEPT ![p] = "idle"]
  /\ from' = [from EXCEPT ![p] = None] /\ to' = [to EXCEPT ![p] = None]
  /\ ctx' = [ctx EXCEPT ![p] = "live"]
  /\ id' = [id EXCEPT ![p] = None]
  /\ want' = [want EXCEPT ![p] = None]
  /\ names' = [names EXCEPT ![p] = {}] /\ todo' = [todo EXCEPT ![p] = {}]
  /\ missing' = [missing EXCEPT ![p] = {}] /\ erased' = [erased EXCEPT ![p] = {}]
  /\ bytes' = [bytes EXCEPT ![p] = n]
  /\ res' = [res EXCEPT ![p] = r]

Goto(p, at) == pc' = [pc EXCEPT ![p] = at] /\ UNCHANGED <<from, to, ctx, deletion, bytes, res>>

Begin(p, at) ==
  /\ pc[p] = "idle"
  /\ pc' = [pc EXCEPT ![p] = at]
  /\ bytes' = [bytes EXCEPT ![p] = None]
  /\ res' = [res EXCEPT ![p] = "none"]

\* Names go through path.Join, so a call addresses only blobs with a clean name.
Named == {b \in Blobs : IsClean(b)}

Copy(p) ==
  /\ \E s, d \in Named :
       /\ from' = [from EXCEPT ![p] = s]
       /\ to' = [to EXCEPT ![p] = d]
       /\ Begin(p, IF s = d THEN "self" ELSE "start")
  /\ UNCHANGED <<server, ctx, id, want, deletion>>

\* PutObject streams its body as the fallback of Copy does.
PutObject(p) ==
  /\ \E d \in Named, v \in Values :
       /\ to' = [to EXCEPT ![p] = d]
       /\ want' = [want EXCEPT ![p] = v]
  /\ Begin(p, "stream")
  /\ UNCHANGED <<server, from, ctx, id, deletion>>

Cancel(p) ==
  /\ pc[p] # "idle" /\ ctx[p] = "live"
  /\ ctx' = [ctx EXCEPT ![p] = "done"]
  /\ UNCHANGED <<server, pc, from, to, id, want, deletion, bytes, res>>

\* A copy onto itself only checks that the source is there.
CopySelf(p) ==
  /\ pc[p] = "self"
  /\ Return(p, IF blob[from[p]] = None THEN "missing" ELSE "ok", None)
  /\ UNCHANGED server

\* StartCopyFromURL is accepted under a new id n; the copy is done at once, with
\* status "success", or goes on in the background.
Unused(n) == /\ \A b \in Blobs : cid[b] # n
             /\ \A p \in Procs : id[p] # n

Accept(s, d, n, status) ==
  /\ blob[s] # None /\ cst[d] # "pending" /\ cst[s] # "pending"
  /\ blob' = [blob EXCEPT ![d] = IF status = "success" THEN blob[s] ELSE Empty]
  /\ incoming' = [incoming EXCEPT ![d] = IF status = "success" THEN None ELSE blob[s]]
  /\ cid' = [cid EXCEPT ![d] = n]
  /\ cst' = [cst EXCEPT ![d] = status]

StartCopy(p) ==
  /\ pc[p] = "start"
  /\ \E n \in {n \in Ids : Unused(n)}, status \in {"success", "pending"} :
       /\ Accept(from[p], to[p], n, status)
       /\ orphans' = orphans \ {to[p]}
       /\ id' = [id EXCEPT ![p] = n]
       /\ want' = [want EXCEPT ![p] = blob[from[p]]]
       /\ Goto(p, IF status = "success" THEN "size" ELSE "poll")

\* The answer is lost, or carries no copy id: Copy fails, the copy goes on.
StartLost(p) ==
  /\ pc[p] = "start"
  /\ \E n \in {n \in Ids : Unused(n)} :
       Accept(from[p], to[p], n, "pending")
  /\ orphans' = orphans \cup {to[p]}
  /\ Return(p, "error", None)

\* BlobNotFound, a refusal, or another error.
StartFail(p) ==
  /\ pc[p] = "start"
  /\ \/ blob[from[p]] = None /\ Return(p, "missing", None)
     \/ Return(p, "error", None)
     \/ Goto(p, "refused") /\ UNCHANGED <<id, want>>
  /\ UNCHANGED server

\* The copy was done at once: the size is that of the destination now.
CopySize(p) ==
  /\ pc[p] = "size"
  /\ \/ blob[to[p]] # None /\ Return(p, "ok", blob[to[p]])
     \/ Return(p, "error", None)
  /\ UNCHANGED server

-----------------------------------------------------------------------------
\* awaitCopy.

\* p's copy is still pending at its destination; it is left so.
Running(p) == cid[to[p]] = id[p] /\ cst[to[p]] = "pending"
LeftAlone(p) == orphans' = IF Running(p) THEN orphans \cup {to[p]} ELSE orphans

\* Mutant: the copy id of the poll is not compared.
PollAnyId(p) ==
  /\ pc[p] = "poll" /\ blob[to[p]] # None
  /\ \/ cst[to[p]] = "pending" /\ UNCHANGED <<pc, call, deletion, bytes, res>>
     \/ cst[to[p]] \in {"none", "success"} /\ Return(p, "ok", blob[to[p]])
     \/ cst[to[p]] \in {"failed", "aborted"} /\ Return(p, "error", None)
  /\ UNCHANGED server

\* One poll of the destination that is answered.
Poll(p) ==
  /\ pc[p] = "poll" /\ blob[to[p]] # None
  /\ \/ cid[to[p]] # id[p] /\ Return(p, "error", None)
     \/ cid[to[p]] = id[p] /\ cst[to[p]] = "pending" /\ UNCHANGED <<pc, call, deletion, bytes, res>>
     \/ cid[to[p]] = id[p] /\ cst[to[p]] = "success" /\ Return(p, "ok", blob[to[p]])
     \/ cid[to[p]] = id[p] /\ cst[to[p]] \in {"failed", "aborted"} /\ Return(p, "error", None)
  /\ UNCHANGED server

\* The poll carries the copy's id and no status: awaitCopy returns an error and,
\* unlike on a poll that fails, does not abort the copy.
PollNoStatus(p) ==
  /\ pc[p] = "poll" /\ blob[to[p]] # None /\ cid[to[p]] = id[p]
  /\ LeftAlone(p)
  /\ Return(p, "error", None)
  /\ UNCHANGED <<blob, cid, cst, incoming>>

\* Mutant: a failed poll ends the call and leaves the copy running.
PollFailNoAbort(p) ==
  /\ pc[p] = "poll"
  /\ Return(p, "error", None)
  /\ UNCHANGED server

\* A poll that fails, a destination that is gone, or ctx.Done(): abort.
PollFail(p) ==
  /\ pc[p] = "poll"
  /\ Goto(p, "abort")
  /\ UNCHANGED <<server, id, want>>

\* Mutant: ctx is looked at only when the copy is no longer pending.
PollCancelledLate(p) ==
  pc[p] = "poll" /\ ctx[p] = "done" /\ cst[to[p]] # "pending" /\ PollFail(p)

PollCancelled(p) == ctx[p] = "done" /\ PollFail(p)

\* AbortCopyFromURL is detached from ctx.  It stops a pending copy, is refused
\* when there is none, or fails, which is only logged.
AbortCopy(p) ==
  /\ pc[p] = "abort"
  /\ IF Running(p)
       THEN /\ cst' = [cst EXCEPT ![to[p]] = "aborted"]
            /\ incoming' = [incoming EXCEPT ![to[p]] = None]
       ELSE UNCHANGED <<cst, incoming>>
  /\ Return(p, "error", None)
  /\ UNCHANGED <<blob, cid, orphans>>

AbortFail(p) ==
  /\ pc[p] = "abort"
  /\ LeftAlone(p)
  /\ Return(p, "error", None)
  /\ UNCHANGED <<blob, cid, cst, incoming>>

-----------------------------------------------------------------------------
\* copyRefused: the source is checked, then the blob is streamed if that is
\* allowed: GetObject, and PutObject of what was read.

CopyRefused(p) ==
  /\ pc[p] = "refused"
  /\ \/ blob[from[p]] = None /\ Return(p, "missing", None)
     \/ Return(p, "error", None)
     \/ /\ Fallback /\ blob[from[p]] # None
        /\ want' = [want EXCEPT ![p] = blob[from[p]]]
        /\ Goto(p, "stream") /\ UNCHANGED id
  /\ UNCHANGED server

\* The blob is written; closing the source may still fail.
StreamPut(p) ==
  /\ pc[p] = "stream" /\ cst[to[p]] # "pending"
  /\ blob' = [blob EXCEPT ![to[p]] = want[p]]
  /\ cid' = [cid EXCEPT ![to[p]] = None]
  /\ cst' = [cst EXCEPT ![to[p]] = "none"]
  /\ Return(p, "ok", want[p]) \/ Return(p, "error", None)
  /\ UNCHANGED <<incoming, orphans>>

StreamFail(p) ==
  /\ pc[p] = "stream"
  /\ Return(p, "error", None)
  /\ UNCHANGED server

-----------------------------------------------------------------------------
\* Delete: one GetProperties per blob, then deleteKnown.

Delete(p) ==
  /\ \E bs \in SUBSET Named :
       names' = [names EXCEPT ![p] = bs] /\ todo' = [todo EXCEPT ![p] = bs]
  /\ Begin(p, "check")
  /\ UNCHANGED <<server, call, missing, erased>>

DeleteCheck(p) ==
  /\ pc[p] = "check"
  /\ \E b \in todo[p] :
       /\ todo' = [todo EXCEPT ![p] = @ \ {b}]
       /\ missing' = [missing EXCEPT ![p] = IF blob[b] = None THEN @ \cup {b} ELSE @]
  /\ UNCHANGED <<server, pc, call, names, erased, bytes, res>>

\* The names that deleteKnown sends: blobName joins the prefix in front of what the
\* walk found, which may be another name than the one that was listed.
Objs(p) == IF from[p] = None THEN names[p] ELSE {Addressed(from[p], b) : b \in names[p]}

\* All of them are there, or nothing is deleted.
DeleteDecide(p) ==
  /\ pc[p] = "check" /\ todo[p] = {}
  /\ \/ missing[p] # {} /\ Return(p, "missing", None)
     \/ /\ missing[p] = {}
        /\ pc' = [pc EXCEPT ![p] = "delete"]
        /\ todo' = [todo EXCEPT ![p] = Objs(p)]
        /\ UNCHANGED <<call, names, missing, erased, bytes, res>>
  /\ UNCHANGED server

\* deleteKnown: one request per name.  A blob with a pending copy is refused.
DeleteBlob(p) == \E b \in Blobs \cap todo[p] :
  /\ pc[p] = "delete" /\ cst[b] # "pending" /\ blob[b] # None
  /\ blob' = [blob EXCEPT ![b] = None]
  /\ cid' = [cid EXCEPT ![b] = None]
  /\ cst' = [cst EXCEPT ![b] = "none"]
  /\ todo' = [todo EXCEPT ![p] = @ \ {b}]
  /\ erased' = [erased EXCEPT ![p] = @ \cup {b}]
  /\ UNCHANGED <<incoming, orphans, pc, call, names, missing, bytes, res>>

\* Mutant: a blob that is gone by now is reported as missing.
DeleteGoneMissing(p) == \E b \in todo[p] :
  /\ pc[p] = "delete" /\ (b \in Blobs => blob[b] = None)
  /\ Return(p, "missing", None)
  /\ UNCHANGED server

\* BlobNotFound: the blob was deleted by somebody else, which is as good, or there
\* never was one of the joined name.
DeleteGone(p) == \E b \in todo[p] :
  /\ pc[p] = "delete" /\ (b \in Blobs => blob[b] = None)
  /\ todo' = [todo EXCEPT ![p] = @ \ {b}]
  /\ UNCHANGED <<server, pc, call, names, missing, erased, bytes, res>>

DeleteDone(p) ==
  /\ pc[p] = "delete" /\ todo[p] = {}
  /\ Return(p, "ok", None)
  /\ UNCHANGED server

\* DeleteAll: Walk, which lists a prefix at a time, then deleteKnown.
DeleteAll(p) ==
  /\ \E d \in Dirs : from' = [from EXCEPT ![p] = d] /\ todo' = [todo EXCEPT ![p] = {d}]
  /\ Begin(p, "walk")
  /\ UNCHANGED <<server, to, ctx, id, want, names, missing, erased>>

\* BlobItems and BlobPrefixes of the listing of prefix d.
FilesOf(d) == {b \in Blobs : blob[b] # None /\ Len(b) = Len(d) + 1 /\ IsPrefix(d, b)}
DirsOf(d) == {SubSeq(b, 1, Len(d) + 1) :
                b \in {b \in Blobs : blob[b] # None /\ Len(b) > Len(d) + 1 /\ IsPrefix(d, b)}}

ListDir(p) ==
  /\ pc[p] = "walk"
  /\ \E d \in todo[p] :
       /\ names' = [names EXCEPT ![p] = @ \cup FilesOf(d)]
       /\ todo' = [todo EXCEPT ![p] = (@ \ {d}) \cup DirsOf(d)]
  /\ UNCHANGED <<server, pc, call, missing, erased, bytes, res>>

WalkDone(p) ==
  /\ pc[p] = "walk" /\ todo[p] = {}
  /\ \/ names[p] = {} /\ Return(p, "missing", None)
     \/ /\ names[p] # {}
        /\ pc' = [pc EXCEPT ![p] = "delete"]
        /\ todo' = [todo EXCEPT ![p] = Objs(p)]
        /\ UNCHANGED <<call, names, missing, erased, bytes, res>>
  /\ UNCHANGED server

\* A request of a deletion fails, or ctx ends.
DeleteFail(p) ==
  /\ pc[p] \in {"check", "walk", "delete"} /\ todo[p] # {}
  /\ Return(p, "error", None)
  /\ UNCHANGED server

-----------------------------------------------------------------------------
\* The service ends a pending copy; other clients write, copy and delete blobs.

CopyEnds(b) ==
  /\ cst[b] = "pending"
  /\ \/ /\ cst' = [cst EXCEPT ![b] = "success"]
        /\ blob' = [blob EXCEPT ![b] = incoming[b]]
     \/ /\ cst' = [cst EXCEPT ![b] = "failed"]
        /\ UNCHANGED blob
  /\ incoming' = [incoming EXCEPT ![b] = None]
  /\ orphans' = orphans \ {b}
  /\ UNCHANGED <<cid, pc, call, deletion, bytes, res>>

OtherWrite(b) ==
  /\ cst[b] # "pending"
  /\ \E v \in Values \cup {None} : v # blob[b] /\ blob' = [blob EXCEPT ![b] = v]
  /\ cid' = [cid EXCEPT ![b] = None]
  /\ cst' = [cst EXCEPT ![b] = "none"]
  /\ UNCHANGED <<incoming, orphans, pc, call, deletion, bytes, res>>

OtherCopy(b) ==
  /\ \E s \in Copied \ {b}, n \in {n \in Ids : Unused(n)}, status \in {"success", "pending"} :
       /\ Accept(s, b, n, status)
       /\ orphans' = IF status = "pending" THEN orphans \cup {b} ELSE orphans
  /\ UNCHANGED <<pc, call, deletion, bytes, res>>

-----------------------------------------------------------------------------
Caller(p) ==
  \/ Copy(p) \/ Cancel(p) \/ CopySelf(p) \/ StartCopy(p) \/ StartLost(p) \/ StartFail(p)
  \/ CopySize(p) \/ Poll(p) \/ PollNoStatus(p) \/ PollFail(p) \/ AbortCopy(p)
  \/ AbortFail(p) \/ CopyRefused(p) \/ PutObject(p) \/ StreamPut(p) \/ StreamFail(p)
  \/ Delete(p) \/ DeleteCheck(p) \/ DeleteDecide(p) \/ DeleteBlob(p) \/ DeleteGone(p)
  \/ DeleteDone(p) \/ DeleteAll(p) \/ ListDir(p) \/ WalkDone(p) \/ DeleteFail(p)

\* What is missing while a deletion is under way.
Observe == absent' = [p \in Procs |->
  IF pc'[p] \in {"check", "walk", "delete"}
    THEN absent[p] \cup {b \in Blobs : blob'[b] = None} ELSE {}]

Next ==
  /\ \/ \E p \in Procs : Caller(p)
     \/ \E b \in Blobs : CopyEnds(b) \/ OtherWrite(b)
     \/ \E b \in Copied : OtherCopy(b)
  /\ Observe

Spec == Init /\ [][Next]_vars

\* Every request is answered or fails, and the select of awaitCopy sees a ctx that
\* is done.  Nothing is assumed of how long a copy stays pending.
FairSpec == Spec /\ \A p \in Procs :
  /\ WF_control(CopySelf(p)) /\ WF_control(StartCopy(p) \/ StartLost(p) \/ StartFail(p))
  /\ WF_control(CopySize(p)) /\ WF_control(PollCancelled(p))
  /\ WF_control(AbortCopy(p) \/ AbortFail(p))
  /\ WF_control(CopyRefused(p)) /\ WF_control(StreamPut(p) \/ StreamFail(p))
  /\ WF_control(DeleteCheck(p) \/ DeleteDecide(p) \/ DeleteBlob(p) \/ DeleteGone(p)
                  \/ DeleteDone(p) \/ ListDir(p) \/ WalkDone(p) \/ DeleteFail(p))

-----------------------------------------------------------------------------
\* A copy still running in the service has a Copy waiting for it, unless it is
\* somebody else's, its abort failed, its start was not answered, or a poll reported
\* its id without a status.  The last is awaitCopy's one exit from a copy it knows of
\* that sends no abort (azure/storage.go:514-517): there the purpose that :503 states,
\* "Abort so a Copy that reports failure does not still change dst", is not kept.
NoCopyLeftRunning == \A b \in Blobs : cst[b] = "pending" =>
  \/ b \in orphans
  \/ \E p \in Procs : pc[p] \in {"poll", "abort"} /\ to[p] = b /\ id[p] = cid[b]

\* A polled copy that succeeds reports the size of its own content, not that of a
\* later write by somebody else.
PolledSizeIsOwn ==
  [][\A p \in Procs : pc[p] = "poll" /\ res'[p] = "ok" => bytes'[p] = want[p]]_vars

\* A deletion that succeeds: every name it sent, and with it every blob with a clean
\* name that it was given or found under its prefix, was gone at some time of the
\* call.  Only a blob whose name path.Join changes may have been there throughout: the
\* folder marker "a/" is sent as "a", its BlobNotFound is passed over, and DeleteAll
\* returns nil over it.  One that reports missing blobs met one, and deleted nothing,
\* whatever other clients put and deleted between its requests.
DeletionsAreTold ==
  [][\A p \in Procs : pc[p] \in {"check", "walk", "delete"} =>
       /\ res'[p] = "ok" => /\ Objs(p) \cap Blobs \subseteq absent[p]
                            /\ \A b \in names[p] \ absent[p] : ~IsClean(b)
       /\ res'[p] = "missing" =>
            erased[p] = {} /\ IF pc[p] = "walk" THEN names[p] = {}
                                               ELSE names[p] \cap absent[p] # {}]_vars

\* A call whose ctx ends returns, however long the service keeps a copy pending.
CancelledCopyReturns == \A p \in Procs : ctx[p] = "done" ~> pc[p] = "idle"
=============================================================================
