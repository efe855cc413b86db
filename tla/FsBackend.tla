----------------------------- MODULE FsBackend -----------------------------
(***************************************************************************)
(* internal/fsbackend/backend.go: the storage behind the directory and the *)
(* inmemory backends.  Several callers, in one program or in several,      *)
(* share one filesystem; every filesystem call is one step, so the steps   *)
(* of their operations interleave.                                         *)
(*                                                                         *)
(* The filesystem is modelled as far as the code depends on it: directory  *)
(* entries name inodes, an open handle keeps its inode, a rename replaces  *)
(* the entry of its target, a removed entry leaves open handles usable.    *)
(* An object's content is a sequence of Pieces pieces, so that a file cut  *)
(* short or put together from two bodies is a state of the model.          *)
(***************************************************************************)
EXTENDS Naturals, Sequences

CONSTANTS
  Procs,      \* callers, each with at most one call in flight
  Keys,       \* object paths
  Dirs,       \* directory paths
  Temps,      \* names TempFile can draw, ".copy-*"
  Inos,       \* inode numbers
  Values,     \* bodies
  DirOf,      \* the directory of every key and every temporary name
  Pieces,     \* pieces of a body
  Ops,        \* the operations the callers use
  None

Paths == Keys \cup Dirs
Names == Keys \cup Temps
Under == [x \in Paths |-> IF x \in Dirs THEN {k \in Keys : DirOf[k] = x} ELSE {x}]

ASSUME PiecesAssumption == Pieces \in Nat \ {0}
ASSUME DirOfAssumption == DirOf \in [Names -> Dirs]
ASSUME DisjointAssumption ==
  /\ Keys \cap Temps = {} /\ Keys \cap Dirs = {} /\ Temps \cap Dirs = {}
  /\ None \notin Names \cup Dirs \cup Inos \cup Values

Full(v) == [i \in 1..Pieces |-> v]
Whole(c) == \E v \in Values : c = Full(v)
Content(c) == IF Whole(c) THEN c[1] ELSE c

VARIABLES
  entry,     \* entry[n]: the inode a name stands for, or None
  data,      \* data[i]: what has been written to an inode
  dirs,      \* the directories that exist
  pc,        \* pc[p]: the filesystem call p makes next
  op,        \* op[p]: the operation p is in, "none" between calls
  from,      \* from[p]: srcPath of a copy, filePath of a read, DeleteAll's prefix
  to,        \* to[p]: the destination of a put or a copy
  body,      \* body[p]: the body of a put; for a copy or a read (history) the
             \*   content its source had when p last looked, for DeleteAll
             \*   (history) that of an object it found
  tmp,       \* tmp[p]: the name of p's temporary file
  in,        \* in[p]: the inode p has looked at or has open for reading
  out,       \* out[p]: the inode p has open for writing
  writer,    \* writer[p]: the goroutine of writeAll
  todo,      \* todo[p]: the paths still to look at or to remove
  paths,     \* paths[p]: Delete's filePaths
  missing,   \* missing[p]: the paths Delete did not find
  dirty,     \* dirty[p]: a deletion has removed something
  res,       \* res[p]: how p's last call ended
  orphans    \* history: temporaries left by a kill or by a failed removal

fsVars == <<entry, data, dirs>>
copyVars == <<body, tmp, in, out, writer>>
delVars == <<todo, paths, missing, dirty>>
vars == <<fsVars, pc, op, from, to, copyVars, delVars, res, orphans>>

AllOps == {"put", "copy", "get", "delete", "deleteall"}
ASSUME OpsAssumption == Ops \subseteq AllOps

PCs == {"idle", "put_mkdir", "copy_stat", "copy_same", "copy_open", "copy_mkdir",
        "temp", "write", "fill", "drain", "rename", "remove",
        "get_open", "get_read", "check", "unlink", "all_stat", "all_unlink"}

TypeOK ==
  /\ entry \in [Names -> Inos \cup {None}]
  /\ data \in [Inos -> Seq(Values)]
  /\ dirs \subseteq Dirs
  /\ pc \in [Procs -> PCs]
  /\ op \in [Procs -> AllOps \cup {"none"}]
  /\ from \in [Procs -> Paths \cup {None}]
  /\ to \in [Procs -> Keys \cup {None}]
  /\ body \in [Procs -> Values \cup {None}]
  /\ tmp \in [Procs -> Temps \cup {None}]
  /\ in \in [Procs -> Inos \cup {None}]
  /\ out \in [Procs -> Inos \cup {None}]
  /\ writer \in [Procs -> {"none", "running", "done", "failed"}]
  /\ todo \in [Procs -> SUBSET Paths]
  /\ paths \in [Procs -> SUBSET Paths]
  /\ missing \in [Procs -> SUBSET Paths]
  /\ dirty \in [Procs -> BOOLEAN]
  /\ res \in [Procs -> {"none", "ok", "missing", "error", "killed"}]
  /\ orphans \subseteq Temps

\* Any tree of whole objects; two keys may be hard links to one file.
Init ==
  /\ entry \in [Names -> Inos \cup {None}]
  /\ \A t \in Temps : entry[t] = None
  /\ data \in [Inos -> {Full(v) : v \in Values}]
  /\ dirs \in SUBSET Dirs
  /\ \A k \in Keys : entry[k] # None => DirOf[k] \in dirs
  /\ pc = [p \in Procs |-> "idle"]
  /\ op = [p \in Procs |-> "none"]
  /\ from = [p \in Procs |-> None]
  /\ to = [p \in Procs |-> None]
  /\ body = [p \in Procs |-> None]
  /\ tmp = [p \in Procs |-> None]
  /\ in = [p \in Procs |-> None]
  /\ out = [p \in Procs |-> None]
  /\ writer = [p \in Procs |-> "none"]
  /\ todo = [p \in Procs |-> {}]
  /\ paths = [p \in Procs |-> {}]
  /\ missing = [p \in Procs |-> {}]
  /\ dirty = [p \in Procs |-> FALSE]
  /\ res = [p \in Procs |-> "none"]
  /\ orphans = {}

IsFile(x) == x \in Keys /\ entry[x] # None

-----------------------------------------------------------------------------
\* Calls begin and end.  A returning call has closed every handle it opened.

Begin(p, o, at, s, d, v, set) ==
  /\ pc[p] = "idle" /\ o \in Ops
  /\ pc' = [pc EXCEPT ![p] = at]
  /\ op' = [op EXCEPT ![p] = o]
  /\ from' = [from EXCEPT ![p] = s]
  /\ to' = [to EXCEPT ![p] = d]
  /\ body' = [body EXCEPT ![p] = v]
  /\ todo' = [todo EXCEPT ![p] = set]
  /\ paths' = [paths EXCEPT ![p] = set]
  /\ res' = [res EXCEPT ![p] = "none"]
  /\ UNCHANGED <<fsVars, tmp, in, out, writer, missing, dirty, orphans>>

Return(p, r) ==
  /\ pc' = [pc EXCEPT ![p] = "idle"]
  /\ op' = [op EXCEPT ![p] = "none"]
  /\ from' = [from EXCEPT ![p] = None]
  /\ to' = [to EXCEPT ![p] = None]
  /\ body' = [body EXCEPT ![p] = None]
  /\ tmp' = [tmp EXCEPT ![p] = None]
  /\ in' = [in EXCEPT ![p] = None]
  /\ out' = [out EXCEPT ![p] = None]
  /\ writer' = [writer EXCEPT ![p] = "none"]
  /\ todo' = [todo EXCEPT ![p] = {}]
  /\ paths' = [paths EXCEPT ![p] = {}]
  /\ missing' = [missing EXCEPT ![p] = {}]
  /\ dirty' = [dirty EXCEPT ![p] = FALSE]
  /\ res' = [res EXCEPT ![p] = r]

\* p goes on to the filesystem call `at`; its arguments stay.
Goto(p, at) ==
  /\ pc' = [pc EXCEPT ![p] = at]
  /\ UNCHANGED <<op, from, to, body, res>>

\* p has looked at its source, or opened it, and goes on.
Look(p, at) ==
  /\ pc' = [pc EXCEPT ![p] = at]
  /\ in' = [in EXCEPT ![p] = entry[from[p]]]
  /\ body' = [body EXCEPT ![p] = Content(data[entry[from[p]]])]
  /\ UNCHANGED <<op, from, to, tmp, out, writer, delVars, res>>

-----------------------------------------------------------------------------
\* PutObject: a temporary file next to the destination, renamed over it.

PutObject(p) == \E k \in Keys, v \in Values : Begin(p, "put", "put_mkdir", None, k, v, {})

MkdirAll(p) ==
  /\ pc[p] \in {"put_mkdir", "copy_mkdir"}
  /\ dirs' = dirs \cup {DirOf[to[p]]}
  /\ Goto(p, "temp")
  /\ UNCHANGED <<entry, data, tmp, in, out, writer, delVars, orphans>>

\* An inode number is free when no name and no open handle refers to it.  One a
\* call has only looked at is not reused within that call: sameFile relies on it.
Free(i) ==
  /\ \A n \in Names : entry[n] # i
  /\ \A q \in Procs : i \notin {in[q], out[q]}

\* afero.TempFile creates its file exclusively, under a name no other call drew.
TempFile(p) ==
  /\ pc[p] = "temp"
  /\ DirOf[to[p]] \in dirs
  /\ \E t \in Temps, i \in Inos :
       /\ DirOf[t] = DirOf[to[p]]
       /\ entry[t] = None
       /\ \A q \in Procs : tmp[q] # t
       /\ Free(i)
       /\ entry' = [entry EXCEPT ![t] = i]
       /\ data' = [data EXCEPT ![i] = <<>>]
       /\ tmp' = [tmp EXCEPT ![p] = t]
       /\ out' = [out EXCEPT ![p] = i]
  /\ Goto(p, IF op[p] = "put" THEN "write" ELSE "fill")
  /\ writer' = [writer EXCEPT ![p] = IF op[p] = "put" THEN "none" ELSE "running"]
  /\ UNCHANGED <<dirs, in, delVars, orphans>>

\* io.Copy(tmp, ctxReader): one piece of the body.
PutWrite(p) ==
  /\ pc[p] = "write"
  /\ Len(data[out[p]]) < Pieces
  /\ data' = [data EXCEPT ![out[p]] = Append(@, body[p])]
  /\ UNCHANGED <<entry, dirs, pc, op, from, to, copyVars, delVars, res, orphans>>

\* Mutant: a body that ends early is taken for complete.
PutCloseShort(p) ==
  /\ pc[p] = "write"
  /\ out' = [out EXCEPT ![p] = None]
  /\ Goto(p, "rename")
  /\ UNCHANGED <<fsVars, tmp, in, writer, delVars, orphans>>

\* The body is at its end: tmp is closed.
PutClose(p) ==
  /\ pc[p] = "write"
  /\ Len(data[out[p]]) = Pieces
  /\ out' = [out EXCEPT ![p] = None]
  /\ Goto(p, "rename")
  /\ UNCHANGED <<fsVars, tmp, in, writer, delVars, orphans>>

\* The write, the close or ctx failed: tmp is closed and will be removed.
PutFail(p) ==
  /\ pc[p] = "write"
  /\ out' = [out EXCEPT ![p] = None]
  /\ Goto(p, "remove")
  /\ UNCHANGED <<fsVars, tmp, in, writer, delVars, orphans>>

\* Mutant: the destination is overwritten in place when it exists.
RenameByCopy(p) ==
  /\ pc[p] = "rename"
  /\ entry[tmp[p]] # None
  /\ IF entry[to[p]] = None
       THEN entry' = [entry EXCEPT ![to[p]] = entry[tmp[p]], ![tmp[p]] = None] /\ UNCHANGED data
       ELSE /\ entry' = [entry EXCEPT ![tmp[p]] = None]
            /\ data' = [data EXCEPT ![entry[to[p]]] = data[entry[tmp[p]]]]
  /\ Return(p, "ok")
  /\ UNCHANGED <<dirs, orphans>>

\* renameIntoPlace: the temporary takes the place of the destination, and the
\* call has succeeded.  It cannot when someone has removed the temporary.
Rename(p) ==
  /\ pc[p] = "rename"
  /\ entry[tmp[p]] # None
  /\ entry' = [entry EXCEPT ![to[p]] = entry[tmp[p]], ![tmp[p]] = None]
  /\ Return(p, "ok")
  /\ UNCHANGED <<data, dirs, orphans>>

\* Mutant: a failed rename returns without removing the temporary.
RenameFailLeaves(p) ==
  /\ pc[p] = "rename"
  /\ Return(p, "error")
  /\ UNCHANGED <<fsVars, orphans>>

RenameFail(p) ==
  /\ pc[p] = "rename"
  /\ Goto(p, "remove")
  /\ UNCHANGED <<fsVars, tmp, in, out, writer, delVars, orphans>>

\* History: p's temporary, if it is there, will be nobody's.
Abandon(p) == orphans' = orphans \cup {t \in Temps : tmp[p] = t /\ entry[t] # None}

\* removeQuietly: a temporary that is already gone is no error.
RemoveQuietly(p) ==
  /\ pc[p] = "remove"
  /\ entry' = [entry EXCEPT ![tmp[p]] = None]
  /\ Return(p, "error")
  /\ UNCHANGED <<data, dirs, orphans>>

RemoveQuietlyFail(p) ==
  /\ pc[p] = "remove"
  /\ Abandon(p)
  /\ Return(p, "error")
  /\ UNCHANGED fsVars

-----------------------------------------------------------------------------
\* Copy.

Copy(p) == \E s \in Paths, d \in Keys : Begin(p, "copy", "copy_stat", s, d, None, {})

\* Stat(src): a missing source or a directory is ErrFileNotFound.
CopyStat(p) ==
  /\ pc[p] = "copy_stat"
  /\ \/ /\ IsFile(from[p])
        /\ Look(p, "copy_same")
     \/ ~IsFile(from[p]) /\ Return(p, "missing")
  /\ UNCHANGED <<fsVars, orphans>>

\* Mutant: any destination that exists is taken for the source.
SameFileAny(p) == from[p] = to[p] \/ entry[to[p]] # None

\* sameFile: one path, or one inode, is a successful copy of nothing.
SameFile(p) == from[p] = to[p] \/ entry[to[p]] = in[p]

CopySame(p) ==
  /\ pc[p] = "copy_same"
  /\ \/ SameFile(p) /\ Return(p, "ok")
     \/ /\ ~SameFile(p)
        /\ Goto(p, "copy_open")
        /\ UNCHANGED <<tmp, in, out, writer, delVars>>
  /\ UNCHANGED <<fsVars, orphans>>

\* Open(src), which may have vanished since Stat.
CopyOpen(p) ==
  /\ pc[p] = "copy_open"
  /\ \/ /\ IsFile(from[p])
        /\ Look(p, "copy_mkdir")
     \/ ~IsFile(from[p]) /\ Return(p, "missing")
  /\ UNCHANGED <<fsVars, orphans>>

\* The goroutine of writeAll: io.Copy(dst, src), one piece at a time.
CopyPiece(p) ==
  /\ writer[p] = "running" /\ in[p] # None
  /\ Len(data[out[p]]) < Len(data[in[p]])
  /\ data' = [data EXCEPT ![out[p]] = Append(@, data[in[p]][Len(@) + 1])]
  /\ UNCHANGED <<entry, dirs, pc, op, from, to, copyVars, delVars, res, orphans>>

\* ... which ends with the source, or with an error, as it must once src is
\* closed under it.
CopyDone(p) ==
  /\ writer[p] = "running"
  /\ \/ /\ in[p] # None /\ Len(data[out[p]]) = Len(data[in[p]])
        /\ writer' = [writer EXCEPT ![p] = "done"]
     \/ writer' = [writer EXCEPT ![p] = "failed"]
  /\ UNCHANGED <<fsVars, pc, op, from, to, body, tmp, in, out, delVars, res, orphans>>

\* case r = <-done: both files are closed; the copy is renamed or given up.
\* Closing dst may fail as well.
FillDone(p) ==
  /\ pc[p] = "fill" /\ writer[p] \in {"done", "failed"}
  /\ \/ writer[p] = "done" /\ Goto(p, "rename")
     \/ Goto(p, "remove")
  /\ in' = [in EXCEPT ![p] = None]
  /\ out' = [out EXCEPT ![p] = None]
  /\ writer' = [writer EXCEPT ![p] = "none"]
  /\ UNCHANGED <<fsVars, tmp, delVars, orphans>>

\* case <-ctx.Done(): closes src under the goroutine, which may be done already.
FillCancel(p) ==
  /\ pc[p] = "fill"
  /\ in' = [in EXCEPT ![p] = None]
  /\ Goto(p, "drain")
  /\ UNCHANGED <<fsVars, tmp, out, writer, delVars, orphans>>

\* Mutant: the goroutine is not waited for.
DrainNoWait(p) ==
  /\ pc[p] = "drain"
  /\ out' = [out EXCEPT ![p] = None]
  /\ Goto(p, "remove")
  /\ UNCHANGED <<fsVars, tmp, in, writer, delVars, orphans>>

\* <-done, then dst.Close().
DrainDone(p) ==
  /\ pc[p] = "drain" /\ writer[p] \in {"done", "failed"}
  /\ out' = [out EXCEPT ![p] = None]
  /\ writer' = [writer EXCEPT ![p] = "none"]
  /\ Goto(p, "remove")
  /\ UNCHANGED <<fsVars, tmp, in, delVars, orphans>>

-----------------------------------------------------------------------------
\* GetObject returns the open file; the caller reads it and closes it later.

GetObject(p) == \E k \in Keys : Begin(p, "get", "get_open", k, None, None, {})

GetOpen(p) ==
  /\ pc[p] = "get_open"
  /\ \/ /\ IsFile(from[p])
        /\ Look(p, "get_read")
     \/ ~IsFile(from[p]) /\ Return(p, "missing")
  /\ UNCHANGED <<fsVars, orphans>>

GetClose(p) ==
  /\ pc[p] = "get_read"
  /\ Return(p, "ok")
  /\ UNCHANGED <<fsVars, orphans>>

-----------------------------------------------------------------------------
\* Delete looks at every path before it removes the first.

Delete(p) == \E s \in SUBSET Paths : Begin(p, "delete", "check", None, None, None, s)

DeleteCheck(p) ==
  /\ pc[p] = "check"
  /\ \E x \in todo[p] :
       /\ todo' = [todo EXCEPT ![p] = @ \ {x}]
       /\ missing' = [missing EXCEPT ![p] = IF IsFile(x) THEN @ ELSE @ \cup {x}]
  /\ UNCHANGED <<fsVars, pc, op, from, to, copyVars, paths, dirty, res, orphans>>

DeleteDecide(p) ==
  /\ pc[p] = "check" /\ todo[p] = {}
  /\ \/ missing[p] # {} /\ Return(p, "missing")
     \/ /\ missing[p] = {}
        /\ todo' = [todo EXCEPT ![p] = paths[p]]
        /\ Goto(p, "unlink")
        /\ UNCHANGED <<tmp, in, out, writer, paths, missing, dirty>>
  /\ UNCHANGED <<fsVars, orphans>>

\* Remove; a path that has vanished since the check is no error.
DeleteUnlink(p) ==
  /\ pc[p] = "unlink"
  /\ \E x \in todo[p] :
       /\ todo' = [todo EXCEPT ![p] = @ \ {x}]
       /\ entry' = [entry EXCEPT ![x] = None]
  /\ dirty' = [dirty EXCEPT ![p] = TRUE]
  /\ UNCHANGED <<data, dirs, pc, op, from, to, copyVars, paths, missing, res, orphans>>

DeleteDone(p) ==
  /\ pc[p] = "unlink" /\ todo[p] = {}
  /\ Return(p, "ok")
  /\ UNCHANGED <<fsVars, orphans>>

-----------------------------------------------------------------------------
\* DeleteAll: Stat, then RemoveAll, which unlinks name after name, temporaries
\* of other calls too, and removes the directory once it is empty.

DeleteAll(p) == \E x \in Paths :
  Begin(p, "deleteall", "all_stat", x, None, None, Under[x])

\* History: an object that was under the prefix when DeleteAll looked.
Met(p) ==
  \/ \E k \in Under[from[p]] :
       IsFile(k) /\ body' = [body EXCEPT ![p] = Content(data[entry[k]])]
  \/ (\A k \in Under[from[p]] : ~IsFile(k)) /\ UNCHANGED body

\* Stat asks whether the path is there, not whether an object is under it: a
\* directory that holds none passes too.
AllStat(p) ==
  /\ pc[p] = "all_stat"
  /\ \/ /\ IsFile(from[p]) \/ from[p] \in dirs
        /\ pc' = [pc EXCEPT ![p] = "all_unlink"]
        /\ Met(p)
        /\ UNCHANGED <<op, from, to, res, tmp, in, out, writer, delVars>>
     \/ ~IsFile(from[p]) /\ from[p] \notin dirs /\ Return(p, "missing")
  /\ UNCHANGED <<fsVars, orphans>>

\* The names RemoveAll(x) has to remove.
Tree(x) == {n \in Names : n = x \/ (x \in Dirs /\ DirOf[n] = x)}

\* A file is removed by one unlink, whatever happens to its name afterwards.
AllUnlink(p) ==
  /\ pc[p] = "all_unlink"
  /\ from[p] \in Dirs \/ ~dirty[p]
  /\ \E n \in Tree(from[p]) :
       /\ entry[n] # None
       /\ entry' = [entry EXCEPT ![n] = None]
       /\ todo' = [todo EXCEPT ![p] = IF from[p] \in Dirs THEN @ ELSE @ \ {n}]
       /\ dirty' = [dirty EXCEPT ![p] = dirty[p] \/ n \in Keys]
       /\ orphans' = orphans \ {n}
  /\ UNCHANGED <<data, dirs, pc, op, from, to, copyVars, paths, missing, res>>

AllDone(p) ==
  /\ pc[p] = "all_unlink"
  /\ \/ from[p] \notin Dirs /\ dirty[p]
     \/ \A n \in Tree(from[p]) : entry[n] = None
  /\ dirs' = dirs \ {from[p]}
  /\ Return(p, "ok")
  /\ UNCHANGED <<entry, data, orphans>>

-----------------------------------------------------------------------------
\* A filesystem call that fails for another reason ends the call with its error,
\* where there is no temporary to remove yet.  A directory in the way of a
\* destination is one such reason.
Fail(p) ==
  /\ pc[p] \in {"put_mkdir", "copy_stat", "copy_same", "copy_open", "copy_mkdir",
                "temp", "get_open", "get_read", "check", "unlink",
                "all_stat", "all_unlink"}
  /\ Return(p, "error")
  /\ UNCHANGED <<fsVars, orphans>>

\* The program dies: the kernel closes its handles, its temporary stays.
Kill(p) ==
  /\ pc[p] # "idle"
  /\ Abandon(p)
  /\ Return(p, "killed")
  /\ UNCHANGED fsVars

-----------------------------------------------------------------------------
Step(p) ==
  \/ PutObject(p) \/ MkdirAll(p) \/ TempFile(p)
  \/ PutWrite(p) \/ PutClose(p) \/ PutFail(p)
  \/ Rename(p) \/ RenameFail(p) \/ RemoveQuietly(p) \/ RemoveQuietlyFail(p)
  \/ Copy(p) \/ CopyStat(p) \/ CopySame(p) \/ CopyOpen(p)
  \/ CopyPiece(p) \/ CopyDone(p) \/ FillDone(p) \/ FillCancel(p) \/ DrainDone(p)
  \/ GetObject(p) \/ GetOpen(p) \/ GetClose(p)
  \/ Delete(p) \/ DeleteCheck(p) \/ DeleteDecide(p) \/ DeleteUnlink(p) \/ DeleteDone(p)
  \/ DeleteAll(p) \/ AllStat(p) \/ AllUnlink(p) \/ AllDone(p)
  \/ Fail(p) \/ Kill(p)

Next == \E p \in Procs : Step(p)

Spec == Init /\ [][Next]_vars

-----------------------------------------------------------------------------
\* An object is never a file cut short, nor a mixture of two bodies, whatever
\* puts, copies, deletions, cancellations, I/O errors and kills have happened:
\* what PutObject and Copy write becomes visible by a rename only.
WholeObjects == \A k \in Keys : entry[k] # None => Whole(data[entry[k]])

\* A temporary file on the disk belongs to a call in flight, except for those a
\* kill or a failed removal left: no error path of PutObject or Copy forgets one.
TempsAccounted == \A t \in Temps :
  entry[t] # None <=> t \in orphans \/ \E p \in Procs : tmp[p] = t /\ entry[t] # None

\* The goroutine of writeAll never outlives the wait for it: when the temporary
\* is renamed or removed, nobody writes to it any more.
WriterInsideCall == \A p \in Procs :
  writer[p] # "none" => pc[p] \in {"fill", "drain"} /\ out[p] # None

\* While a caller reads on, its handle and the file behind it stay as they are.
ReadersUndisturbed == \A p \in Procs :
  pc[p] \in {"get_read", "fill"} /\ pc'[p] = pc[p] /\ in[p] # None
    => in'[p] = in[p] /\ data'[in[p]] = data[in[p]]

\* A reader that has opened an object reads that version to the end: its file is
\* not written to, however often the object is overwritten or deleted.
ReadersKeepTheirVersion == [][ReadersUndisturbed]_vars

\* What the contract calls an object is the content of the file a key names, and
\* while Delete still looks at its paths, all of them are to be removed.
StoredObj == [k \in Keys |-> IF entry[k] = None THEN None ELSE Content(data[entry[k]])]
StoredTodo == [p \in Procs |-> IF pc[p] = "check" THEN paths[p] ELSE todo[p]]

Store == INSTANCE ObjectStore WITH
  obj <- StoredObj, got <- body, todo <- StoredTodo, gone <- missing

\* The backend implements the Storager contract, but for one thing that the
\* contract module names as not promised: DeleteAll of a directory that holds no
\* object succeeds (backend.go:517-529 asks Stat for the path only), where
\* storager.go:76-77 says "An empty prefix is a *MissingObjectsError".
ImplementsObjectStore == Store!Spec
=============================================================================
