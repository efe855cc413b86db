------------------------------ MODULE CopyAll ------------------------------
(***************************************************************************)
(* copy.go: CopyListed, the engine behind CopyAll of every backend.  It    *)
(* lists the source prefix once, drops folder markers and whatever lies    *)
(* under a destination nested in the source, and copies the objects in     *)
(* goroutines of an errgroup with a limit.  The first error, or the end of *)
(* the caller's ctx, cancels the rest.                                     *)
(*                                                                         *)
(* A key is the sequence of its segments; joining a name onto a prefix is  *)
(* concatenation for the clean names the engine lets through.  The copy of *)
(* one object is what ObjectStore promises of Copy: it takes the value the *)
(* source has at one moment and installs it at a later one, or it fails.   *)
(* An object's content is named by the key that held it at the start.      *)
(***************************************************************************)
EXTENDS Naturals, SequencesExt

CONSTANTS
  Sorted,     \* the names that can appear under a prefix, in the order of List
  Pairs,      \* the pairs <<srcPrefix, dstPrefix>> considered
  Limit,      \* ObjectConcurrency
  None

Names == Range(Sorted)
Under(prefix) == {prefix \o r : r \in Names}
Keys == UNION {Under(pair[1]) \cup Under(pair[2]) : pair \in Pairs}

ASSUME LimitAssumption == Limit \in Nat \ {0}
ASSUME NamesAssumption ==
  /\ Sorted \in Seq(Seq(STRING)) /\ \A r \in Names : r # <<>>
  /\ Pairs \subseteq Seq(STRING) \X Seq(STRING) /\ None \notin Keys

VARIABLES
  obj,       \* obj[k]: the content of the object at k, or None
  src, dst,  \* the arguments of the call
  ctx,       \* the caller's ctx: "live" or "done"
  phase,     \* where CopyListed is: "list", "spawn", "returned"
  queue,     \* the objects g.Go has still to be called for
  work,      \* work[r]: the goroutine copying r
  val,       \* val[r]: the content that copy has taken
  total,     \* total.Objects
  gerr,      \* the errgroup's first error
  result,    \* what CopyListed returned
  orig       \* history: obj at the start

vars == <<obj, src, dst, ctx, phase, queue, work, val, total, gerr, result, orig>>

Active(r) == work[r] \in {"started", "copying", "taken", "written"}
InFlight == {r \in Names : Active(r)}

\* Any objects under the source; what the destination held is never read.
Init ==
  /\ \E pair \in Pairs : src = pair[1] /\ dst = pair[2]
  /\ \E present \in SUBSET Names :
       obj = [k \in Keys |-> IF \E r \in present : k = src \o r THEN k ELSE None]
  /\ orig = obj
  /\ ctx = "live"
  /\ phase = "list"
  /\ queue = {}
  /\ work = [r \in Names |-> "none"]
  /\ val = [r \in Names |-> None]
  /\ total = 0
  /\ gerr = "nil"
  /\ result = "none"

-----------------------------------------------------------------------------
\* A folder marker: a key ending in "/" has an empty last segment.
Marker(r) == Last(r) = ""

\* cleanRelative, of a name of one segment or more.  The name "." passes, as
\* path.Clean keeps it.
CleanRelative(r) == r = <<".">> \/ \A i \in 1..Len(r) : r[i] \notin {"", "..", "."}

\* Mutant: a destination inside the source is copied into itself.
UnderNestedNever(r) == FALSE

\* nestedPrefix: dstPrefix lies strictly inside srcPrefix, and r under it.  An
\* object named exactly like the destination is not under it.
UnderNested(r) ==
  /\ IsStrictPrefix(src, dst)
  /\ IsStrictPrefix(dst, src \o r)

Return(r) == phase' = "returned" /\ result' = r /\ UNCHANGED queue

\* List, and everything decided from the listing before the first copy.
List ==
  /\ phase = "list"
  /\ LET objects == {r \in Names : obj[src \o r] # None /\ ~Marker(r)}
         kept == {r \in objects : ~UnderNested(r)}
     IN \/ objects = {} /\ Return("missing")
        \/ (\E r \in objects : ~CleanRelative(r)) /\ Return("unsafe")
        \/ /\ objects # {} /\ \A r \in objects : CleanRelative(r)
           /\ \/ kept = {} /\ Return("ok")
              \/ /\ kept # {}
                 /\ queue' = kept /\ phase' = "spawn" /\ UNCHANGED result
  /\ UNCHANGED <<obj, src, dst, ctx, work, val, total, gerr, orig>>

\* The listing itself fails, or ctx has ended.
ListFail ==
  /\ phase = "list"
  /\ Return("list")
  /\ UNCHANGED <<obj, src, dst, ctx, work, val, total, gerr, orig>>

\* gctx is done when the caller's ctx is, or when the group has an error.
GroupDone == ctx = "done" \/ gerr # "nil"

\* The loop goes through the objects in the order they were listed in.
NextOf(r) == \E i \in DOMAIN Sorted : /\ Sorted[i] = r /\ r \in queue
                                     /\ \A j \in 1..(i - 1) : Sorted[j] \notin queue

\* Mutant: after an error the loop waits instead of going on.
GoUntilError ==
  /\ phase = "spawn" /\ ~GroupDone
  /\ Cardinality(InFlight) < Limit
  /\ \E r \in Names : /\ NextOf(r)
                     /\ work' = [work EXCEPT ![r] = "started"]
                     /\ queue' = queue \ {r}
  /\ UNCHANGED <<obj, src, dst, ctx, phase, val, total, gerr, result, orig>>

\* g.Go waits for one of the Limit slots and starts the goroutine.
Go ==
  /\ phase = "spawn"
  /\ Cardinality(InFlight) < Limit
  /\ \E r \in Names : /\ NextOf(r)
                     /\ work' = [work EXCEPT ![r] = "started"]
                     /\ queue' = queue \ {r}
  /\ UNCHANGED <<obj, src, dst, ctx, phase, val, total, gerr, result, orig>>

\* Mutant: the last error is kept.
EndWithLast(r, e) ==
  /\ work' = [work EXCEPT ![r] = "failed"]
  /\ gerr' = e
  /\ UNCHANGED <<obj, src, dst, ctx, phase, queue, val, total, result, orig>>

\* A goroutine ends with an error: the first one is kept and cancels the group.
EndWith(r, e) ==
  /\ work' = [work EXCEPT ![r] = "failed"]
  /\ gerr' = IF gerr = "nil" THEN e ELSE gerr
  /\ UNCHANGED <<obj, src, dst, ctx, phase, queue, val, total, result, orig>>

\* A goroutine that got its slot after a failure or a cancel does not start.
Skip(r) == work[r] = "started" /\ GroupDone /\ EndWith(r, "cancel")

Begin(r) ==
  /\ work[r] = "started" /\ ~GroupDone
  /\ work' = [work EXCEPT ![r] = "copying"]
  /\ UNCHANGED <<obj, src, dst, ctx, phase, queue, val, total, gerr, result, orig>>

\* copyObject looks at its source, and takes its content.
Take(r) ==
  /\ work[r] = "copying" /\ obj[src \o r] # None
  /\ work' = [work EXCEPT ![r] = "taken"]
  /\ val' = [val EXCEPT ![r] = obj[src \o r]]
  /\ UNCHANGED <<obj, src, dst, ctx, phase, queue, total, gerr, result, orig>>

\* copyObject installs it; a copy onto itself writes nothing.
Install(r) ==
  /\ work[r] = "taken"
  /\ work' = [work EXCEPT ![r] = "written"]
  /\ obj' = IF src = dst THEN obj ELSE [obj EXCEPT ![dst \o r] = val[r]]
  /\ UNCHANGED <<src, dst, ctx, phase, queue, val, total, gerr, result, orig>>

\* copyObject fails: the source is gone, the backend says no, its answer is lost
\* after the object was written, or gctx is done.
CopyMissing(r) == work[r] = "copying" /\ obj[src \o r] = None /\ EndWith(r, "copy")
CopyFail(r) == work[r] \in {"copying", "taken", "written"} /\ EndWith(r, "copy")
CopyCancelled(r) ==
  /\ work[r] \in {"copying", "taken"} /\ GroupDone
  /\ EndWith(r, "cancel")

\* Mutant: the totals are added up without the mutex, and an update can be lost.
CountUnlocked(r) ==
  /\ work[r] = "written"
  /\ total' \in {total, total + 1}
  /\ work' = [work EXCEPT ![r] = "done"]
  /\ UNCHANGED <<obj, src, dst, ctx, phase, queue, val, gerr, result, orig>>

\* The totals are added up under a mutex, and the slot is given back.
Count(r) ==
  /\ work[r] = "written"
  /\ total' = total + 1
  /\ work' = [work EXCEPT ![r] = "done"]
  /\ UNCHANGED <<obj, src, dst, ctx, phase, queue, val, gerr, result, orig>>

\* g.Wait returns once every goroutine has ended.
Wait ==
  /\ phase = "spawn" /\ queue = {} /\ InFlight = {}
  /\ Return(IF gerr = "nil" THEN "ok" ELSE gerr)
  /\ UNCHANGED <<obj, src, dst, ctx, work, val, total, gerr, orig>>

-----------------------------------------------------------------------------
\* The caller's ctx ends; another client deletes a source object.

Cancel ==
  /\ ctx = "live" /\ phase = "spawn"
  /\ ctx' = "done"
  /\ UNCHANGED <<obj, src, dst, phase, queue, work, val, total, gerr, result, orig>>

Vanish(r) ==
  /\ phase = "spawn" /\ obj[src \o r] = src \o r
  /\ obj' = [obj EXCEPT ![src \o r] = None]
  /\ UNCHANGED <<src, dst, ctx, phase, queue, work, val, total, gerr, result, orig>>

-----------------------------------------------------------------------------
Worker(r) == Skip(r) \/ Begin(r) \/ Take(r) \/ Install(r) \/ CopyMissing(r)
               \/ CopyFail(r) \/ CopyCancelled(r) \/ Count(r)

Engine == List \/ ListFail \/ Go \/ Wait \/ \E r \in Names : Worker(r)

Done == phase = "returned" /\ UNCHANGED vars

Next == Engine \/ Cancel \/ (\E r \in Names : Vanish(r)) \/ Done

\* Every goroutine runs, and every copy ends: the ctx of a copy bounds it.
Spec == Init /\ [][Next]_vars
FairSpec == Spec /\ WF_vars(List \/ ListFail) /\ WF_vars(Go) /\ WF_vars(Wait)
              /\ \A r \in Names : WF_vars(Worker(r))

-----------------------------------------------------------------------------
\* The objects the call set out to copy.
Chosen == {r \in Names : orig[src \o r] # None /\ ~UnderNested(r) /\ CleanRelative(r)}

\* Every copy that is done put at the destination what its own source held when
\* CopyAll began, however the copies interleave: no copy of the same call has
\* overwritten a source that was still to be read, also when the destination is
\* inside the source.
CopiesTheListedContent == \A r \in Names :
  work[r] = "done" => obj[dst \o r] = src \o r \/ src = dst

\* CopyAll returns nil only when every listed object has been copied, and counts
\* exactly the copies that were made, also when it returns an error.
CountsItsCopies == phase = "returned" =>
  /\ total = Cardinality({r \in Names : work[r] = "done"})
  /\ result = "ok" => {r \in Names : work[r] = "done"} = Chosen
  /\ result \in {"missing", "unsafe", "list"} => total = 0

\* An error that says the copy was cancelled means the caller's ctx has ended; a
\* failed copy is reported as itself, not as the cancellation it caused.
CauseIsReported == result = "cancel" => ctx = "done"

\* CopyAll always returns.
Terminates == <>(phase = "returned")
=============================================================================
