---------------------------- MODULE ObjectStore ----------------------------
(***************************************************************************)
(* What the Storager interface (storager.go) promises of one storage that  *)
(* several callers use at once, whichever backend holds the bytes.         *)
(*                                                                         *)
(* An object is a whole value or it is not there.  A PutObject or a Copy   *)
(* takes effect in one step, or never.  A Copy or a read works on a value  *)
(* the source really had while the call was running.  Delete and DeleteAll *)
(* remove their objects one by one, and Delete removes none of them once   *)
(* it has met a missing one.                                               *)
(*                                                                         *)
(* One action is not part of that promise: EndDeleteAllOfEmptyDir, which   *)
(* is what the backends on a filesystem do instead of keeping it.          *)
(***************************************************************************)
EXTENDS Naturals

CONSTANTS
  Procs,    \* callers, each with at most one call in flight
  Keys,     \* the names of objects
  Dirs,     \* names that are directories, never objects
  Values,   \* the contents an object can have
  Under,    \* Under[d]: the keys a directory-like prefix d covers
  None      \* no object, no value, no key

Paths == Keys \cup Dirs

VARIABLES
  obj,      \* obj[k]: the content of object k, or None
  op,       \* op[p]: the call p is making, "none" between calls
  from,     \* from[p]: the path a copy or a read takes its value from
  to,       \* to[p]: the key a put or a copy writes
  got,      \* got[p]: the value to write, or the value read; for DeleteAll that
            \*   of an object it found under its prefix
  todo,     \* todo[p]: the paths a deletion has still to remove
  gone,     \* gone[p]: the paths a deletion found missing
  dirty,    \* dirty[p]: a deletion has started to remove
  res       \* res[p]: how p's last call ended

vars == <<obj, op, from, to, got, todo, gone, dirty, res>>
args == <<from, to, got, todo, gone, dirty>>

TypeOK ==
  /\ obj \in [Keys -> Values \cup {None}]
  /\ op \in [Procs -> {"none", "put", "copy", "get", "delete", "deleteall"}]
  /\ from \in [Procs -> Paths \cup {None}]
  /\ to \in [Procs -> Keys \cup {None}]
  /\ got \in [Procs -> Values \cup {None}]
  /\ todo \in [Procs -> SUBSET Paths]
  /\ gone \in [Procs -> SUBSET Paths]
  /\ dirty \in [Procs -> BOOLEAN]
  /\ res \in [Procs -> {"none", "ok", "missing", "error", "killed"}]

Init ==
  /\ obj \in [Keys -> Values \cup {None}]
  /\ op = [p \in Procs |-> "none"]
  /\ from = [p \in Procs |-> None]
  /\ to = [p \in Procs |-> None]
  /\ got = [p \in Procs |-> None]
  /\ todo = [p \in Procs |-> {}]
  /\ gone = [p \in Procs |-> {}]
  /\ dirty = [p \in Procs |-> FALSE]
  /\ res = [p \in Procs |-> "none"]

Holds(x) == x \in Keys /\ obj[x] # None

-----------------------------------------------------------------------------
\* The call of p ends with result r, and its arguments are forgotten.
Return(p, r) ==
  /\ op' = [op EXCEPT ![p] = "none"]
  /\ from' = [from EXCEPT ![p] = None]
  /\ to' = [to EXCEPT ![p] = None]
  /\ got' = [got EXCEPT ![p] = None]
  /\ todo' = [todo EXCEPT ![p] = {}]
  /\ gone' = [gone EXCEPT ![p] = {}]
  /\ dirty' = [dirty EXCEPT ![p] = FALSE]
  /\ res' = [res EXCEPT ![p] = r]

Begin(p, o, s, d, v, t) ==
  /\ op[p] = "none"
  /\ op' = [op EXCEPT ![p] = o]
  /\ from' = [from EXCEPT ![p] = s]
  /\ to' = [to EXCEPT ![p] = d]
  /\ got' = [got EXCEPT ![p] = v]
  /\ todo' = [todo EXCEPT ![p] = t]
  /\ res' = [res EXCEPT ![p] = "none"]
  /\ UNCHANGED <<obj, gone, dirty>>

BeginPut(p) == \E k \in Keys, v \in Values : Begin(p, "put", None, k, v, {})

BeginCopy(p) == \E s \in Paths, d \in Keys : Begin(p, "copy", s, d, None, {})

BeginGet(p) == \E s \in Keys : Begin(p, "get", s, None, None, {})

BeginDelete(p) == \E t \in SUBSET Paths : Begin(p, "delete", None, None, None, t)

BeginDeleteAll(p) == \E x \in Paths :
  Begin(p, "deleteall", x, None, None, Under[x])

\* A copy or a read takes the value its source has now.  A copy looks at its
\* source before it opens it, and may take a newer value the second time.
Capture(p) ==
  /\ op[p] \in {"copy", "get"}
  /\ Holds(from[p])
  /\ got' = [got EXCEPT ![p] = obj[from[p]]]
  /\ UNCHANGED <<obj, op, from, to, todo, gone, dirty, res>>

\* The one step in which a put or a copy takes effect, and with it succeeds.
Install(p) ==
  /\ op[p] \in {"put", "copy"} /\ got[p] # None
  /\ obj' = [obj EXCEPT ![to[p]] = got[p]]
  /\ Return(p, "ok")

\* A copy onto itself changes nothing.
InstallSelf(p) ==
  /\ op[p] = "copy" /\ got[p] # None /\ from[p] = to[p]
  /\ Return(p, "ok") /\ UNCHANGED obj

EndGet(p) ==
  /\ op[p] = "get" /\ got[p] # None
  /\ Return(p, "ok") /\ UNCHANGED obj

\* A deletion looks at a path and finds no object there.
Notice(p) ==
  /\ op[p] = "delete" /\ ~dirty[p]
  /\ \E x \in todo[p] :
       ~Holds(x) /\ gone' = [gone EXCEPT ![p] = @ \cup {x}]
  /\ UNCHANGED <<obj, op, from, to, got, todo, dirty, res>>

\* A deletion removes one object: never after it has met a missing one.  Under
\* a directory the object may come back, and is then still to be removed.
Erase(p) ==
  /\ op[p] \in {"delete", "deleteall"}
  /\ gone[p] = {}
  /\ \E k \in todo[p] \cap Keys :
       /\ obj' = [obj EXCEPT ![k] = None]
       /\ todo' = [todo EXCEPT ![p] = IF from[p] \in Dirs THEN @ ELSE @ \ {k}]
  /\ dirty' = [dirty EXCEPT ![p] = TRUE]
  /\ UNCHANGED <<op, from, to, got, gone, res>>

EndDelete(p) ==
  /\ op[p] = "delete" /\ todo[p] = {}
  /\ Return(p, "ok") /\ UNCHANGED obj

\* DeleteAll meets an object under its prefix.
Find(p) ==
  /\ op[p] = "deleteall"
  /\ \E k \in todo[p] : Holds(k) /\ got' = [got EXCEPT ![p] = obj[k]]
  /\ UNCHANGED <<obj, op, from, to, todo, gone, dirty, res>>

\* DeleteAll succeeds at a moment when nothing is left under its prefix, and
\* only if it met or removed an object there: "An empty prefix is a
\* *MissingObjectsError wrapping ErrFileNotFound" (storager.go:76-77).
EndDeleteAll(p) ==
  /\ op[p] = "deleteall"
  /\ got[p] # None \/ dirty[p]
  /\ \A k \in todo[p] : obj[k] = None
  /\ Return(p, "ok") /\ UNCHANGED obj

\* NOT PROMISED, against storager.go:76-77 and the conformance suite's
\* "Removing a prefix that holds nothing is an error" (storagetest.go:473): the
\* prefix is a directory that held no object when the call looked, the call
\* removed none, and it succeeds.
EndDeleteAllOfEmptyDir(p) ==
  /\ op[p] = "deleteall" /\ from[p] \in Dirs
  /\ got[p] = None /\ ~dirty[p]
  /\ \A k \in todo[p] : obj[k] = None
  /\ Return(p, "ok") /\ UNCHANGED obj

\* ErrFileNotFound: the source is not there, a path to delete was not, or the
\* prefix is empty; then this call has changed nothing.
Missing(p) ==
  /\ \/ op[p] \in {"copy", "get"} /\ ~Holds(from[p])
     \/ op[p] = "deleteall" /\ ~dirty[p] /\ \A k \in todo[p] : obj[k] = None
     \/ op[p] = "delete" /\ gone[p] # {} /\ ~dirty[p]
  /\ Return(p, "missing") /\ UNCHANGED obj

\* Any other failure: a put or a copy has had no effect.
Fail(p) == op[p] # "none" /\ Return(p, "error") /\ UNCHANGED obj

\* The program is killed in the middle of the call.
Kill(p) == op[p] # "none" /\ Return(p, "killed") /\ UNCHANGED obj

-----------------------------------------------------------------------------
Step(p) ==
  \/ BeginPut(p) \/ BeginCopy(p) \/ BeginGet(p)
  \/ BeginDelete(p) \/ BeginDeleteAll(p)
  \/ Capture(p) \/ Install(p) \/ InstallSelf(p) \/ EndGet(p)
  \/ Notice(p) \/ Erase(p) \/ EndDelete(p)
  \/ Find(p) \/ EndDeleteAll(p) \/ EndDeleteAllOfEmptyDir(p)
  \/ Missing(p) \/ Fail(p) \/ Kill(p)

Next == \E p \in Procs : Step(p)

Spec == Init /\ [][Next]_vars
=============================================================================
