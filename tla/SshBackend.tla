----------------------------- MODULE SshBackend -----------------------------
(***************************************************************************)
(* ssh/storage.go: puts, copies and deletions through SFTP.  Every request *)
(* is one step of the server, which several clients use at once; between   *)
(* two requests anything can happen to the tree, the connection can drop,  *)
(* and the client can die.                                                 *)
(*                                                                         *)
(* The server is external.  What the code relies on: PosixRename replaces  *)
(* a file in one step, if the server has it; Rename refuses a target that  *)
(* exists; both move a directory with everything in it; Remove and         *)
(* RemoveDirectory refuse a directory that is not empty.  A file is not    *)
(* written to once it has its final name, so what Open reads is what was   *)
(* there.  Directories are one level deep.                                 *)
(***************************************************************************)
EXTENDS Naturals

CONSTANTS
  Procs,    \* the calls that are made, each by a goroutine or a program of its own
  Keys,     \* object paths; one of them may be the directory of others
  Temps,    \* names tempSibling can draw, ".copy-*"
  DirOf,    \* the directory of every name: a key or Root
  Root,     \* the storage's cwd, which is there
  Values,   \* bodies
  Ops,      \* Ops[p]: the operations p can be a call of
  Partial,  \* the content of a file that is being written
  Dir,      \* a directory
  None

Names == Keys \cup Temps
Files == Values \cup {Partial}

ASSUME SshTree ==
  /\ DirOf \in [Names -> Keys \cup {Root}]
  /\ \A n \in Names : DirOf[n] # Root => DirOf[DirOf[n]] = Root
ASSUME SshDisjoint ==
  /\ Keys \cap Temps = {} /\ Root \notin Names
  /\ None \notin Names \cup Values \cup {Partial, Dir, Root}
  /\ Partial # Dir /\ Values \cap {Partial, Dir} = {}
ASSUME SshOps == Ops \in [Procs -> SUBSET {"put", "copy", "delete", "deleteall"}]

VARIABLES
  node,     \* node[n]: the file or directory n names, or None
  moved,    \* moved[t][n]: what n named in a directory that was renamed to t
  pc,       \* pc[p]: the request p sends next
  op,       \* op[p]: the call p is in
  from,     \* from[p]: srcPath of a copy, DeleteAll's prefix
  to,       \* to[p]: the destination of a put or a copy
  body,     \* body[p]: what is written to it
  tmp,      \* tmp[p]: the file it is written to first
  aside,    \* aside[p]: the name replaceFile moves the destination to
  todo,     \* todo[p]: the names still to look at or to remove
  paths,    \* paths[p]: Delete's filePaths
  missing,  \* missing[p]: Delete has not found one of them
  res,      \* res[p]: how p ended, "none" before that
  wrote,    \* history, wrote[p]: p's file has been renamed to its destination
  objs,     \* history: the keys that held an object and were not deleted since
  prev,     \* history, prev[t]: the key whose object was moved to t
  orphans   \* history: temporaries left by a dropped connection or a failed request
            \*   that nobody has removed

tree == <<node, moved, objs, prev, orphans>>
args == <<op, from, to, body>>
delVars == <<todo, paths, missing>>
vars == <<tree, pc, args, tmp, aside, delVars, res, wrote>>

Empty == [n \in Names |-> None]

PCs == {"idle", "put_mkdir", "put_stat", "copy_stat", "copy_dst", "copy_open", "copy_mkdir",
        "create", "fill", "posix", "aside", "plain", "move", "restore", "drop_aside",
        "drop_tmp", "check", "unlink", "all_stat", "all_read", "all_unlink", "all_rmdir"}

TypeOK ==
  /\ node \in [Names -> Files \cup {Dir, None}]
  /\ moved \in [Temps -> [Names -> Files \cup {Dir, None}]]
  /\ pc \in [Procs -> PCs]
  /\ op \in [Procs -> {"none", "put", "copy", "delete", "deleteall"}]
  /\ from \in [Procs -> Keys \cup {None}] /\ to \in [Procs -> Keys \cup {None}]
  /\ body \in [Procs -> Values \cup {None}]
  /\ tmp \in [Procs -> Temps \cup {None}] /\ aside \in [Procs -> Temps \cup {None}]
  /\ todo \in [Procs -> SUBSET Names] /\ paths \in [Procs -> SUBSET Keys]
  /\ missing \in [Procs -> BOOLEAN]
  /\ res \in [Procs -> {"none", "ok", "missing", "error", "dropped"}]
  /\ wrote \in [Procs -> BOOLEAN]
  /\ objs \subseteq Keys
  /\ prev \in [Temps -> Keys \cup {None}]
  /\ orphans \subseteq Temps

IsFile(n) == node[n] \in Files
HasDir(n) == DirOf[n] \in {Root} \cup {k \in Keys : node[k] = Dir}
Inside(d) == {n \in Names : DirOf[n] = d /\ node[n] # None}
Held(t) == \E p \in Procs : t \in {tmp[p], aside[p]}

Init ==
  /\ node \in [Names -> Values \cup {Dir, None}]
  /\ \A t \in Temps : node[t] = None
  /\ \A k \in Keys : node[k] = Dir => DirOf[k] = Root
  /\ \A k \in Keys : node[k] # None => HasDir(k)
  /\ moved = [t \in Temps |-> Empty]
  /\ pc = [p \in Procs |-> "idle"]
  /\ op = [p \in Procs |-> "none"]
  /\ from = [p \in Procs |-> None] /\ to = [p \in Procs |-> None]
  /\ body = [p \in Procs |-> None]
  /\ tmp = [p \in Procs |-> None] /\ aside = [p \in Procs |-> None]
  /\ todo = [p \in Procs |-> {}] /\ paths = [p \in Procs |-> {}]
  /\ missing = [p \in Procs |-> FALSE]
  /\ res = [p \in Procs |-> "none"]
  /\ wrote = [p \in Procs |-> FALSE]
  /\ objs = {k \in Keys : IsFile(k)}
  /\ prev = [t \in Temps |-> None]
  /\ orphans = {}

-----------------------------------------------------------------------------
\* What the server does.

\* n, a file or a directory, gets the name m, which nobody has; a directory takes
\* along what is in it.
Renamed(n, m) ==
  /\ node' = [x \in Names |->
       CASE x = m -> node[n]
         [] x = n \/ (node[n] = Dir /\ DirOf[x] = n) -> None
         [] n \in Temps /\ x # n /\ moved[n][x] # None -> moved[n][x]
         [] OTHER -> node[x]]
  /\ moved' = [t \in Temps |->
       CASE t = m -> [x \in Names |-> IF node[n] = Dir /\ DirOf[x] = n THEN node[x] ELSE None]
         [] t = n -> Empty
         [] OTHER -> moved[t]]
  /\ prev' = [t \in Temps |-> CASE t = m /\ IsFile(n) -> n
                                [] t = n -> None
                                [] OTHER -> prev[t]]
  /\ objs' = IF m \in Keys /\ IsFile(n) THEN objs \cup {m} ELSE objs
  /\ orphans' = orphans \cup {t \in Temps : n \in Temps /\ moved[n][t] # None /\ ~Held(t)}

CanRename(n, m) == node[n] # None /\ node[m] = None /\ HasDir(m)

\* A file or an empty directory is removed.
Removed(n) ==
  /\ node' = [node EXCEPT ![n] = None]
  /\ prev' = [t \in Temps |-> IF t = n THEN None ELSE prev[t]]
  /\ UNCHANGED moved

CanRemove(n) == IsFile(n) \/ (node[n] = Dir /\ Inside(n) = {} /\ (n \in Temps => moved[n] = Empty))

\* A deletion has removed n: the object of that name, or the last trace of one.
Deleted(n) ==
  /\ Removed(n)
  /\ objs' = objs \ {k \in Keys : k = n \/ (n \in Temps /\ prev[n] = k /\ ~IsFile(k))}
  /\ orphans' = orphans \ {n}

-----------------------------------------------------------------------------
\* Calls begin and end.

Begin(p, o, at, s, d, v, set) ==
  /\ pc[p] = "idle" /\ res[p] = "none" /\ o \in Ops[p]
  /\ pc' = [pc EXCEPT ![p] = at]
  /\ op' = [op EXCEPT ![p] = o]
  /\ from' = [from EXCEPT ![p] = s]
  /\ to' = [to EXCEPT ![p] = d]
  /\ body' = [body EXCEPT ![p] = v]
  /\ todo' = [todo EXCEPT ![p] = set]
  /\ paths' = [paths EXCEPT ![p] = set]
  /\ UNCHANGED <<tree, tmp, aside, missing, res, wrote>>

Return(p, r) ==
  /\ pc' = [pc EXCEPT ![p] = "idle"]
  /\ op' = [op EXCEPT ![p] = "none"]
  /\ from' = [from EXCEPT ![p] = None] /\ to' = [to EXCEPT ![p] = None]
  /\ body' = [body EXCEPT ![p] = None]
  /\ tmp' = [tmp EXCEPT ![p] = None] /\ aside' = [aside EXCEPT ![p] = None]
  /\ todo' = [todo EXCEPT ![p] = {}] /\ paths' = [paths EXCEPT ![p] = {}]
  /\ missing' = [missing EXCEPT ![p] = FALSE]
  /\ res' = [res EXCEPT ![p] = r]

Goto(p, at) == pc' = [pc EXCEPT ![p] = at] /\ UNCHANGED <<op, from, to, res>>

\* p gives up its temporaries ts, which stay if they are there.
Abandon(ts) ==
  /\ orphans' = orphans \cup {t \in ts \cap Temps : node[t] # None}
  /\ UNCHANGED <<node, moved, objs, prev>>

-----------------------------------------------------------------------------
\* PutObject and Copy up to the temporary file.

PutObject(p) == \E k \in Keys, v \in Values : Begin(p, "put", "put_mkdir", None, k, v, {})

Copy(p) == \E s, d \in Keys : Begin(p, "copy", "copy_stat", s, d, None, {})

CopyStat(p) ==
  /\ pc[p] = "copy_stat"
  /\ \/ ~IsFile(from[p]) /\ Return(p, "missing") /\ UNCHANGED wrote
     \/ IsFile(from[p]) /\ from[p] = to[p] /\ Return(p, "ok") /\ UNCHANGED wrote
     \/ /\ IsFile(from[p]) /\ from[p] # to[p]
        /\ Goto(p, "copy_dst") /\ UNCHANGED <<body, tmp, aside, delVars, wrote>>
  /\ UNCHANGED tree

\* Stat(dst): a directory is refused.  PutObject looks at a success only: if its
\* request fails, it goes on whatever is there, while a failing one of Copy is a Fail.
StatDst(p) ==
  /\ pc[p] \in {"put_stat", "copy_dst"}
  /\ \/ node[to[p]] = Dir /\ Return(p, "error")
     \/ /\ node[to[p]] # Dir \/ pc[p] = "put_stat"
        /\ Goto(p, IF op[p] = "put" THEN "create" ELSE "copy_open")
        /\ UNCHANGED <<body, tmp, aside, delVars>>
  /\ UNCHANGED <<tree, wrote>>

\* Open(src).  A directory is opened as readily as a file; it has no body to read.
CopyOpen(p) ==
  /\ pc[p] = "copy_open"
  /\ \/ node[from[p]] = None /\ Return(p, "missing")
     \/ /\ node[from[p]] # None
        /\ body' = [body EXCEPT ![p] = IF IsFile(from[p]) THEN node[from[p]] ELSE None]
        /\ Goto(p, "copy_mkdir") /\ UNCHANGED <<tmp, aside, delVars>>
  /\ UNCHANGED <<tree, wrote>>

MkdirAll(p) ==
  /\ pc[p] \in {"put_mkdir", "copy_mkdir"}
  /\ \/ /\ \A k \in Keys : k = DirOf[to[p]] => ~IsFile(k)
        /\ node' = [n \in Names |-> IF n = DirOf[to[p]] THEN Dir ELSE node[n]]
        /\ Goto(p, IF op[p] = "put" THEN "put_stat" ELSE "create")
        /\ UNCHANGED <<body, tmp, aside, delVars>>
     \/ /\ \E k \in Keys : k = DirOf[to[p]] /\ IsFile(k)
        /\ Return(p, "error") /\ UNCHANGED node
  /\ UNCHANGED <<moved, objs, prev, orphans, wrote>>

\* tempSibling draws a name nobody has used.
Unused(t) ==
  node[t] = None /\ (\A u \in Temps : moved[u][t] = None) /\ ~Held(t)

Create(p) ==
  /\ pc[p] = "create"
  /\ HasDir(to[p])
  /\ \E t \in Temps :
       /\ Unused(t) /\ DirOf[t] = DirOf[to[p]]
       /\ node' = [node EXCEPT ![t] = Partial]
       /\ prev' = [prev EXCEPT ![t] = None]
       /\ orphans' = orphans \ {t}
       /\ tmp' = [tmp EXCEPT ![p] = t]
  /\ Goto(p, "fill")
  /\ UNCHANGED <<moved, objs, body, aside, delVars, wrote>>

\* io.Copy and Close: the file is written wherever it is by now, or fails to be.
Fill(p) ==
  /\ pc[p] = "fill" /\ body[p] # None
  /\ node' = [node EXCEPT ![tmp[p]] = IF @ = Partial THEN body[p] ELSE @]
  /\ moved' = [t \in Temps |->
       [moved[t] EXCEPT ![tmp[p]] = IF @ = Partial THEN body[p] ELSE @]]
  /\ Goto(p, "posix")
  /\ UNCHANGED <<objs, prev, orphans, body, tmp, aside, delVars, wrote>>

\* Mutant: an error of the copy or of the close is not looked at.
FillFailIgnored(p) ==
  /\ pc[p] = "fill"
  /\ Goto(p, "posix")
  /\ UNCHANGED <<tree, body, tmp, aside, delVars, wrote>>

FillFail(p) ==
  /\ pc[p] = "fill"
  /\ Goto(p, "drop_tmp")
  /\ UNCHANGED <<tree, body, tmp, aside, delVars, wrote>>

-----------------------------------------------------------------------------
\* replaceFile.

\* PosixRename replaces the destination in one step, unless it is a directory.
CanPosixRename(p) == node[tmp[p]] # None /\ node[to[p]] # Dir

PosixRename(p, r) ==
  /\ pc[p] = "posix" /\ CanPosixRename(p)
  /\ node' = [node EXCEPT ![to[p]] = node[tmp[p]], ![tmp[p]] = None]
  /\ objs' = objs \cup {to[p]}
  /\ wrote' = [wrote EXCEPT ![p] = TRUE]
  /\ Return(p, r)
  /\ UNCHANGED <<moved, prev, orphans>>

Replace(p) == PosixRename(p, "ok")

\* The file is replaced, and the connection drops before the answer.
ReplaceLost(p) == PosixRename(p, "dropped")

\* The server does not have posix-rename, or refuses.
PosixFail(p) ==
  /\ pc[p] = "posix"
  /\ Goto(p, "aside")
  /\ UNCHANGED <<tree, body, tmp, aside, delVars, wrote>>

\* Mutant: the destination is removed to make room.
MoveAsideRemoves(p) ==
  /\ pc[p] = "aside" /\ IsFile(to[p])
  /\ Removed(to[p])
  /\ Goto(p, "plain")
  /\ UNCHANGED <<objs, orphans, body, tmp, aside, delVars, wrote>>

\* Rename(dst, aside)
MoveAside(p) ==
  /\ pc[p] = "aside" /\ node[to[p]] # None
  /\ \E t \in Temps :
       /\ Unused(t) /\ DirOf[t] = DirOf[to[p]]
       /\ Renamed(to[p], t)
       /\ aside' = [aside EXCEPT ![p] = t]
  /\ Goto(p, "move")
  /\ UNCHANGED <<body, tmp, delVars, wrote>>

\* There is nothing to replace, or the request fails.
MoveAsideFail(p) ==
  /\ pc[p] = "aside"
  /\ \/ node[to[p]] = None /\ Goto(p, "plain")
     \/ Goto(p, "drop_tmp")
  /\ UNCHANGED <<tree, body, tmp, aside, delVars, wrote>>

\* Rename(src, dst), with nothing moved aside, or after the destination was.
MoveIn(p) ==
  /\ pc[p] \in {"plain", "move"} /\ CanRename(tmp[p], to[p])
  /\ Renamed(tmp[p], to[p])
  /\ wrote' = [wrote EXCEPT ![p] = TRUE]
  /\ \/ pc[p] = "plain" /\ Return(p, "ok")
     \/ pc[p] = "move" /\ Goto(p, "drop_aside") /\ UNCHANGED <<body, tmp, aside, delVars>>

\* Mutant: after the destination was moved aside, a failed rename is forgotten.
MoveInFailForgets(p) ==
  /\ pc[p] \in {"plain", "move"}
  /\ Goto(p, IF pc[p] = "plain" THEN "drop_tmp" ELSE "drop_aside")
  /\ UNCHANGED <<tree, body, tmp, aside, delVars, wrote>>

MoveInFail(p) ==
  /\ pc[p] \in {"plain", "move"}
  /\ Goto(p, IF pc[p] = "plain" THEN "drop_tmp" ELSE "restore")
  /\ UNCHANGED <<tree, body, tmp, aside, delVars, wrote>>

\* Rename(aside, dst).  If that fails too, the error says where the object is.
Restore(p) ==
  /\ pc[p] = "restore" /\ CanRename(aside[p], to[p])
  /\ Renamed(aside[p], to[p])
  /\ aside' = [aside EXCEPT ![p] = None]
  /\ Goto(p, "drop_tmp")
  /\ UNCHANGED <<body, tmp, delVars, wrote>>

RestoreFail(p) ==
  /\ pc[p] = "restore"
  /\ Abandon({aside[p]})
  /\ aside' = [aside EXCEPT ![p] = None]
  /\ Goto(p, "drop_tmp")
  /\ UNCHANGED <<body, tmp, delVars, wrote>>

\* removeQuietly, of the old object after a success and of the temporary after a
\* failure.
DropAside(p) ==
  /\ pc[p] = "drop_aside"
  /\ \/ CanRemove(aside[p]) /\ Removed(aside[p]) /\ UNCHANGED <<objs, orphans>>
     \/ Abandon({aside[p]})
  /\ Return(p, "ok")
  /\ UNCHANGED wrote

\* Mutant: the temporary is left.
DropTmpNever(p) ==
  /\ pc[p] = "drop_tmp"
  /\ Return(p, "error")
  /\ UNCHANGED <<tree, wrote>>

DropTmp(p) ==
  /\ pc[p] = "drop_tmp"
  /\ \/ CanRemove(tmp[p]) /\ Removed(tmp[p]) /\ UNCHANGED <<objs, orphans>>
     \/ Abandon({tmp[p]})
  /\ Return(p, "error")
  /\ UNCHANGED wrote

-----------------------------------------------------------------------------
\* Delete looks at every path before it removes the first.

Delete(p) == \E s \in SUBSET Keys : Begin(p, "delete", "check", None, None, None, s)

DeleteCheck(p) ==
  /\ pc[p] = "check"
  /\ \E k \in todo[p] :
       /\ todo' = [todo EXCEPT ![p] = @ \ {k}]
       /\ missing' = [missing EXCEPT ![p] = @ \/ ~IsFile(k)]
  /\ UNCHANGED <<tree, pc, args, tmp, aside, paths, res, wrote>>

DeleteDecide(p) ==
  /\ pc[p] = "check" /\ todo[p] = {}
  /\ \/ missing[p] /\ Return(p, "missing")
     \/ /\ ~missing[p]
        /\ todo' = [todo EXCEPT ![p] = paths[p]]
        /\ Goto(p, "unlink")
        /\ UNCHANGED <<body, tmp, aside, paths, missing>>
  /\ UNCHANGED <<tree, wrote>>

\* Remove; a path that has vanished is no error.  DeleteAll removes the entries
\* it has read in the same way.
Unlink(p) ==
  /\ pc[p] \in {"unlink", "all_unlink"}
  /\ \E n \in todo[p] :
       /\ todo' = [todo EXCEPT ![p] = @ \ {n}]
       /\ \/ CanRemove(n) /\ Deleted(n)
          \/ node[n] = None /\ UNCHANGED tree
  /\ UNCHANGED <<pc, args, tmp, aside, paths, missing, res, wrote>>

UnlinkDone(p) ==
  /\ pc[p] \in {"unlink", "all_unlink"} /\ todo[p] = {}
  /\ \/ pc[p] = "unlink" /\ Return(p, "ok")
     \/ /\ pc[p] = "all_unlink"
        /\ Goto(p, "all_rmdir")
        /\ UNCHANGED <<body, tmp, aside, delVars>>
  /\ UNCHANGED <<tree, wrote>>

\* DeleteAll: Stat, then removeAll: a file is removed; a directory is read, what
\* was read is removed, and the directory itself.
DeleteAll(p) == \E k \in Keys : Begin(p, "deleteall", "all_stat", k, None, None, {})

AllStat(p) ==
  /\ pc[p] = "all_stat"
  /\ \/ node[from[p]] = None /\ Return(p, "missing")
     \/ /\ node[from[p]] # None
        /\ Goto(p, "all_read")
        /\ UNCHANGED <<body, tmp, aside, delVars>>
  /\ UNCHANGED <<tree, wrote>>

\* removeAll's own Stat, with the ReadDir of a directory.
AllRead(p) ==
  /\ pc[p] = "all_read"
  /\ todo' = [todo EXCEPT ![p] = IF node[from[p]] = Dir THEN Inside(from[p]) ELSE {from[p]}]
  /\ Goto(p, IF node[from[p]] = Dir THEN "all_unlink" ELSE "unlink")
  /\ UNCHANGED <<tree, body, tmp, aside, paths, missing, wrote>>

\* RemoveDirectory fails when something was put there after ReadDir.
AllRmdir(p) ==
  /\ pc[p] = "all_rmdir"
  /\ \/ node[from[p]] = None /\ Return(p, "ok") /\ UNCHANGED tree
     \/ CanRemove(from[p]) /\ Deleted(from[p]) /\ Return(p, "ok")
     \/ node[from[p]] # None /\ Return(p, "error") /\ UNCHANGED tree
  /\ UNCHANGED wrote

-----------------------------------------------------------------------------
\* A request fails where there is no temporary to remove yet, or ctx has ended.
Fail(p) ==
  /\ pc[p] \in {"put_mkdir", "copy_stat", "copy_dst", "copy_open", "copy_mkdir", "create",
                "check", "unlink", "all_stat", "all_read", "all_unlink"}
  /\ Return(p, "error")
  /\ UNCHANGED <<tree, wrote>>

\* The connection drops, and every further request of the call fails; or the
\* program dies.  Nothing is cleaned up.
Drop(p) ==
  /\ pc[p] # "idle"
  /\ Abandon({tmp[p], aside[p]})
  /\ Return(p, "dropped")
  /\ UNCHANGED wrote

-----------------------------------------------------------------------------
Step(p) ==
  \/ PutObject(p) \/ Copy(p) \/ CopyStat(p) \/ StatDst(p) \/ CopyOpen(p) \/ MkdirAll(p)
  \/ Create(p) \/ Fill(p) \/ FillFail(p)
  \/ Replace(p) \/ ReplaceLost(p) \/ PosixFail(p) \/ MoveAside(p) \/ MoveAsideFail(p)
  \/ MoveIn(p) \/ MoveInFail(p) \/ Restore(p) \/ RestoreFail(p)
  \/ DropAside(p) \/ DropTmp(p)
  \/ Delete(p) \/ DeleteCheck(p) \/ DeleteDecide(p) \/ Unlink(p) \/ UnlinkDone(p)
  \/ DeleteAll(p) \/ AllStat(p) \/ AllRead(p) \/ AllRmdir(p)
  \/ Fail(p) \/ Drop(p)

Next == \E p \in Procs : Step(p)

Spec == Init /\ [][Next]_vars

-----------------------------------------------------------------------------
\* An object is never a file that is still being written, whatever puts, copies,
\* deletions, failures and dropped connections have happened, and whichever way
\* replaceFile took.
WholeObjects == \A k \in Keys : node[k] # Partial

\* An object that is replaced is never lost on the way: until someone deletes it,
\* its name holds an object, or the previous one is complete under the name
\* replaceFile moved it to, also when two puts move the same object, a rename
\* fails and cannot be undone, or the connection drops between two renames.
ReplacedNotLost == \A k \in objs :
  \/ node[k] \in Values
  \/ \E t \in Temps : moved[t][k] \in Values
  \/ \E t \in Temps : /\ prev[t] = k
                      /\ node[t] \in Values \/ \E u \in Temps : moved[u][t] \in Values

\* A put or a copy reports success exactly when its file was renamed to the
\* destination, unless the connection dropped, which leaves the question open.
ReportsWhatItDid ==
  [][\A p \in Procs : tmp[p] # None /\ pc'[p] = "idle"
       => res'[p] = "dropped" \/ (res'[p] = "ok" <=> wrote'[p])]_vars

\* A temporary on the server belongs to a call in flight, unless a dropped
\* connection or a failed request left it: no error path forgets one.
TempsAccounted == \A t \in Temps : node[t] # None => t \in orphans \/ Held(t)
=============================================================================
