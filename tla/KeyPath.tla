------------------------------ MODULE KeyPath ------------------------------
(***************************************************************************)
(* What the object stores do to the name of an object on its way from a    *)
(* listing back to a request (s3/storage.go, azure/storage.go, utils.go).  *)
(*                                                                         *)
(* A name is the sequence of the segments between its slashes, so a folder *)
(* marker "a/" is <<"a", "">> and "a//x" is <<"a", "", "x">>; a prefix is  *)
(* written without its final slash.  Any such name is legal in a bucket or *)
(* a container.                                                            *)
(***************************************************************************)
EXTENDS Naturals, SequencesExt

\* A name that path.Clean returns as it is, and that does not go up: cleanRelative.
IsClean(k) == k # <<>> /\ \A i \in 1..Len(k) : k[i] \notin {"", ".", ".."}

\* path.Clean of a relative path.
CleanStep(out, s) ==
  IF s \in {"", "."} THEN out
  ELSE IF s = ".." /\ out # <<>> /\ Last(out) # ".." THEN Front(out)
  ELSE Append(out, s)
Rebuilt(k) == LET out == FoldLeft(CleanStep, <<>>, k) IN IF out = <<>> THEN <<".">> ELSE out
Clean(k) == IF IsClean(k) THEN k ELSE Rebuilt(k)

\* Dirname, filepath.Base of a prefix: its last segment that is not empty.
Base(d) == IF d[Len(d)] # "" THEN d[Len(d)]
           ELSE LET named == {i \in 1..Len(d) : d[i] # ""}
                IN IF named = {} THEN "" ELSE d[Max(named)]

\* The name that deleteKnown addresses for the object k which Walk found under the
\* prefix d: ListDir trims the prefix off, Walk joins the Dirnames of the prefixes on
\* the way in front of what is left, and deleteKnown joins d in front of that.
Addressed(d, k) ==
  Clean([i \in 1..Len(k) |->
           IF i \in Len(d) + 1 .. Len(k) - 1 THEN Base(SubSeq(k, 1, i)) ELSE k[i]])
=============================================================================
