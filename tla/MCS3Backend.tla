---------------------------- MODULE MCS3Backend ----------------------------
(***************************************************************************)
(* Small buckets for S3Backend.                                            *)
(***************************************************************************)
EXTENDS S3Backend

\* An object next to a prefix of the same name, one two levels below it, and three keys
\* under the prefix that path.Join turns into other ones: the folder marker "a/"
\* becomes "a", "a//x" becomes "a/a/x", and "a/../x" becomes "x".
MCKeys == { <<"a">>, <<"a", "a", "x">>, <<"a", "">>, <<"a", "..", "x">>, <<"a", "", "x">> }
MCDirs == { <<"a">> }

\* KeyPath's Clean rebuilds a clean name as it is, and leaves nothing unclean in the
\* middle of a name; "a//x" is found under the Dirname "a" once more.
ASSUME CleanAssumption ==
  /\ \A k \in SeqOf({"a", "b", "", ".", ".."}, 4) \ {<<>>} :
       /\ IsClean(k) => Rebuilt(k) = k
       /\ Clean(Clean(k)) = Clean(k)
       /\ \A i, j \in 1..Len(Clean(k)) : i < j /\ Clean(k)[j] = ".." => Clean(k)[i] = ".."
  /\ Addressed(<<"a">>, <<"a", "", "x">>) = <<"a", "a", "x">>
  /\ Addressed(<<"a">>, <<"a", "b", "..", "..", "x">>) = <<"x">>
=============================================================================
