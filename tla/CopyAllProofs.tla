--------------------------- MODULE CopyAllProofs ---------------------------
(***************************************************************************)
(* Proofs about CopyAll, for any listing, any prefixes and any limit.      *)
(* What a call has to copy is Chosen, which the listing fixes; the loop    *)
(* and the goroutines share it out between the queue and the copies.       *)
(***************************************************************************)
EXTENDS CopyAll, FiniteSetTheorems, TLAPS

Made == {r \in Names : work[r] = "done"}
Begun == {r \in Names : work[r] # "none"}
Refused == {"missing", "unsafe", "list"}

\* The state has its types; the prefixes are a pair that was considered.
TypeOK ==
  /\ <<src, dst>> \in Pairs
  /\ obj \in [Keys -> Keys \cup {None}] /\ orig \in [Keys -> Keys \cup {None}]
  /\ ctx \in {"live", "done"} /\ phase \in {"list", "spawn", "returned"}
  /\ queue \subseteq Names
  /\ work \in [Names -> {"none", "started", "copying", "taken", "written", "done", "failed"}]
  /\ val \in [Names -> Keys \cup {None}]
  /\ total \in Nat
  /\ gerr \in {"nil", "copy", "cancel"}
  /\ result \in {"none", "ok", "copy", "cancel"} \cup Refused

\* Every object chosen is in the queue or has been begun, from the listing to the end.
ShareInv ==
  /\ phase = "list" => obj = orig /\ result = "none" /\ gerr = "nil"
  /\ phase = "list" \/ result \in Refused => queue = {} /\ Begun = {}
  /\ phase # "list" /\ result \notin Refused => queue \cup Begun = Chosen /\ queue \cap Begun = {}
  /\ phase = "spawn" <=> phase # "list" /\ result = "none"
  /\ phase = "returned" => InFlight = {}

\* The group has an error once a goroutine failed, and a cancellation is the caller's.
ErrorInv ==
  /\ gerr = "nil" => \A r \in Names : work[r] # "failed"
  /\ gerr = "cancel" => ctx = "done"
  /\ result = "cancel" => ctx = "done"
  /\ result = "ok" => gerr = "nil" /\ queue = {}

\* The counter counts the copies that are done.
CountInv == total = Cardinality(Made)

Inv == TypeOK /\ ShareInv /\ ErrorInv /\ CountInv

-----------------------------------------------------------------------------
\* A storage lists finitely many names.
LEMMA NamesFinite == IsFiniteSet(Names)
<1>1. Sorted \in Seq(Seq(STRING)) /\ Len(Sorted) \in Nat /\ DOMAIN Sorted = 1..Len(Sorted)
  BY NamesAssumption
<1>2. IsFiniteSet(1..Len(Sorted))
  BY <1>1, FS_Interval
<1>3. Sorted \in Surjection(1..Len(Sorted), Names)
  BY <1>1 DEF Names, Range, Surjection
<1> QED  BY <1>2, <1>3, FS_Surjection

\* The keys a call with these prefixes reads and writes are keys.
LEMMA KeyTypes ==
  ASSUME <<src, dst>> \in Pairs, NEW r \in Names
  PROVE  /\ src \o r \in Keys /\ dst \o r \in Keys
         /\ src \in Seq(STRING) /\ dst \in Seq(STRING) /\ r \in Seq(STRING) /\ r # <<>>
<1>1. src \in Seq(STRING) /\ dst \in Seq(STRING)
  BY NamesAssumption
<1>2. r \in Seq(STRING) /\ r # <<>>
  BY NamesAssumption DEF Names, Range
<1>3. src \o r \in Under(src) /\ dst \o r \in Under(dst)
  BY DEF Under
<1>4. src \o r \in Keys /\ dst \o r \in Keys
  <2>1. <<src, dst>>[1] = src /\ <<src, dst>>[2] = dst
    OBVIOUS
  <2> QED  BY <2>1, <1>3 DEF Keys
<1> QED  BY <1>1, <1>2, <1>4

\* A folder marker is not a clean name, so that Chosen is what the listing keeps.
LEMMA MarkerUnclean ==
  ASSUME NEW r \in Names, CleanRelative(r) PROVE ~Marker(r)
<1>1. r \in Seq(STRING) /\ r # <<>>
  BY NamesAssumption DEF Names, Range
<1>2. Len(r) \in 1..Len(r)
  BY <1>1
<1>3. CASE r = <<".">>
  <2>1. Len(r) = 1 /\ r[1] = "."
    BY <1>3
  <2> QED  BY <2>1 DEF Marker, Last
<1>4. CASE r # <<".">>
  BY <1>1, <1>2, <1>4 DEF CleanRelative, Marker, Last
<1> QED  BY <1>3, <1>4

\* Initially nothing is begun.
LEMMA InitInv == Init => Inv
<1> SUFFICES ASSUME Init PROVE Inv
  OBVIOUS
<1>1. <<src, dst>> \in Pairs
  <2>1. PICK pair \in Pairs : src = pair[1] /\ dst = pair[2]
    BY DEF Init
  <2> QED  BY <2>1, NamesAssumption
<1>2. TypeOK
  BY <1>1 DEF Init, TypeOK, Refused
<1>3. Begun = {} /\ Made = {}
  BY DEF Init, Begun, Made
<1>4. ShareInv
  BY <1>3 DEF Init, ShareInv, Refused
<1>5. ErrorInv
  BY DEF Init, ErrorInv
<1>6. CountInv
  BY <1>3, FS_EmptySet DEF Init, CountInv
<1> QED  BY <1>2, <1>4, <1>5, <1>6 DEF Inv

\* What was chosen does not change once the call has its arguments.
LEMMA ChosenSame ==
  ASSUME UNCHANGED <<src, dst, orig>> PROVE Chosen' = Chosen
BY DEF Chosen, UnderNested

\* One goroutine goes on, to s: the others and the queue are as they were.
LEMMA WorkStep ==
  ASSUME Inv, NEW r \in Names, Active(r),
         NEW s \in {"copying", "taken", "written", "done", "failed"},
         work' = [work EXCEPT ![r] = s],
         UNCHANGED <<src, dst, ctx, phase, queue, result, orig>>,
         obj' \in [Keys -> Keys \cup {None}], val' \in [Names -> Keys \cup {None}],
         total' = IF s = "done" THEN total + 1 ELSE total,
         \/ s # "failed" /\ gerr' = gerr
         \/ \E e \in {"copy", "cancel"} : /\ gerr' = IF gerr = "nil" THEN e ELSE gerr
                                          /\ e = "cancel" => GroupDone
  PROVE  Inv'
<1> USE DEF Inv
<1>1. /\ work'[r] = s /\ \A q \in Names : q # r => work'[q] = work[q]
      /\ work[r] \in {"started", "copying", "taken", "written"}
  BY DEF TypeOK, Active
<1>2. phase = "spawn"
  <2>1. r \in Begun /\ r \in InFlight
    BY <1>1 DEF Begun, InFlight
  <2> QED  BY <2>1 DEF ShareInv, TypeOK
<1>3. gerr' \in {"nil", "copy", "cancel"} /\ (gerr' = "cancel" => ctx = "done")
      /\ (s = "failed" => gerr' # "nil") /\ (gerr # "nil" => gerr' # "nil")
  BY DEF TypeOK, ErrorInv, GroupDone
<1>4. TypeOK'
  <2>1. work' \in [Names -> {"none", "started", "copying", "taken", "written", "done", "failed"}]
    BY DEF TypeOK
  <2>2. total' \in Nat
    BY DEF TypeOK
  <2> QED  BY <2>1, <2>2, <1>3 DEF TypeOK
<1>5. ShareInv'
  <2>1. Begun' = Begun
    BY <1>1 DEF Begun
  <2> QED  BY <2>1, <1>2, ChosenSame DEF ShareInv
<1>6. ErrorInv'
  BY <1>1, <1>2, <1>3 DEF ErrorInv, ShareInv
<1>7. CountInv'
  <2>1. IsFiniteSet(Made) /\ r \notin Made
    <3>1. Made \in SUBSET Names
      BY DEF Made
    <3> QED  BY <3>1, <1>1, NamesFinite, FS_Subset DEF Made
  <2>2. CASE s = "done"
    <3>1. Made' = Made \cup {r}
      BY <2>2, <1>1 DEF Made
    <3>2. Cardinality(Made \cup {r}) = Cardinality(Made) + 1
      BY <2>1, FS_AddElement
    <3> QED  BY <2>2, <3>1, <3>2 DEF CountInv
  <2>3. CASE s # "done"
    <3>1. Made' = Made
      BY <2>3, <1>1 DEF Made
    <3> QED  BY <2>3, <3>1 DEF CountInv
  <2> QED  BY <2>2, <2>3
<1> QED  BY <1>4, <1>5, <1>6, <1>7

\* Every step keeps the invariant.
LEMMA NextInv == Inv /\ [Next]_vars => Inv'
<1> SUFFICES ASSUME Inv, [Next]_vars PROVE Inv'
  OBVIOUS
<1> USE DEF Inv
<1>0. (work' = work => Begun' = Begun /\ Made' = Made /\ InFlight' = InFlight)
  BY DEF Begun, Made, InFlight, Active
<1>1. CASE List
  <2> DEFINE objects == {r \in Names : obj[src \o r] # None /\ ~Marker(r)}
             kept == {r \in objects : ~UnderNested(r)}
  <2>1. /\ UNCHANGED <<obj, src, dst, ctx, work, val, total, gerr, orig>> /\ phase = "list"
        /\ \/ objects = {} /\ Return("missing")
           \/ (\E r \in objects : ~CleanRelative(r)) /\ Return("unsafe")
           \/ /\ \A r \in objects : CleanRelative(r)
              /\ \/ kept = {} /\ Return("ok")
                 \/ queue' = kept /\ phase' = "spawn" /\ UNCHANGED result
    BY <1>1 DEF List
  <2>2. /\ obj = orig /\ queue = {} /\ Begun = {} /\ result = "none"
        /\ gerr = "nil" /\ \A r \in Names : work[r] = "none"
    BY <2>1 DEF ShareInv, Begun
  <2>3. (\A r \in objects : CleanRelative(r)) => kept = Chosen
    BY <2>2, MarkerUnclean DEF Chosen
  <2>4. kept \subseteq Names
    OBVIOUS
  <2>5. Chosen' = Chosen /\ Begun' = {} /\ InFlight' = {}
    BY <2>1, <2>2, <1>0, ChosenSame DEF InFlight, Active
  <2>6. CountInv'
    BY <2>1, <1>0 DEF CountInv
  <2> HIDE DEF objects, kept
  <2>7. CASE \E m \in {"missing", "unsafe"} : Return(m)
    BY <2>1, <2>2, <2>5, <2>6, <2>7 DEF Return, TypeOK, ShareInv, ErrorInv, Refused
  <2>8. CASE kept = Chosen /\ kept = {} /\ Return("ok")
    BY <2>1, <2>2, <2>5, <2>6, <2>8 DEF Return, TypeOK, ShareInv, ErrorInv, Refused
  <2>9. CASE kept = Chosen /\ queue' = kept /\ phase' = "spawn" /\ UNCHANGED result
    <3>1. TypeOK'
      BY <2>1, <2>4, <2>9 DEF TypeOK
    <3>2. ShareInv'
      BY <2>1, <2>2, <2>5, <2>9 DEF ShareInv, Refused
    <3>3. ErrorInv'
      BY <2>1, <2>2, <2>9 DEF ErrorInv
    <3> QED  BY <3>1, <3>2, <3>3, <2>6
  <2> QED  BY <2>1, <2>3, <2>7, <2>8, <2>9
<1>2. CASE ListFail
  <2>1. queue = {} /\ Begun = {} /\ \A r \in Names : work[r] = "none"
    BY <1>2 DEF ListFail, ShareInv, Begun
  <2>2. Begun' = {} /\ InFlight' = {} /\ Made' = Made
    BY <1>2, <2>1, <1>0 DEF ListFail, InFlight, Active
  <2> QED  BY <1>2, <2>1, <2>2 DEF ListFail, Return, TypeOK, ShareInv, ErrorInv, CountInv, Refused
<1>3. CASE Go
  <2>1. PICK r \in Names : /\ NextOf(r) /\ work' = [work EXCEPT ![r] = "started"]
                           /\ queue' = queue \ {r}
    BY <1>3 DEF Go
  <2>2. /\ r \in queue /\ phase = "spawn" /\ work'[r] = "started"
        /\ UNCHANGED <<obj, src, dst, ctx, phase, val, total, gerr, result, orig>>
        /\ \A q \in Names : q # r => work'[q] = work[q]
    BY <1>3, <2>1 DEF Go, NextOf, TypeOK
  <2>3. result = "none" /\ queue \cup Begun = Chosen /\ queue \cap Begun = {}
    BY <2>2 DEF ShareInv, Refused
  <2>4. work[r] = "none"
    BY <2>2, <2>3 DEF Begun
  <2>5. Begun' = Begun \cup {r} /\ Made' = Made
    BY <2>2, <2>4 DEF Begun, Made
  <2>6. TypeOK'
    BY <2>1, <2>2 DEF TypeOK
  <2>7. ShareInv'
    BY <2>1, <2>2, <2>3, <2>5, ChosenSame DEF ShareInv, Refused
  <2>8. ErrorInv'
    BY <2>2, <2>3 DEF ErrorInv
  <2> QED  BY <2>2, <2>5, <2>6, <2>7, <2>8 DEF CountInv
<1>4. CASE Wait
  <2>1. /\ phase = "spawn" /\ queue = {} /\ InFlight = {} /\ phase' = "returned"
        /\ result' = IF gerr = "nil" THEN "ok" ELSE gerr
        /\ UNCHANGED <<obj, src, dst, ctx, work, val, total, gerr, orig, queue>>
    BY <1>4 DEF Wait, Return
  <2>2. result = "none" /\ queue \cup Begun = Chosen /\ queue \cap Begun = {}
    BY <2>1 DEF ShareInv, Refused
  <2>3. TypeOK'
    BY <2>1 DEF TypeOK
  <2>4. ShareInv'
    BY <2>1, <2>2, <1>0, ChosenSame DEF ShareInv, Refused, TypeOK
  <2>5. ErrorInv'
    BY <2>1 DEF ErrorInv, TypeOK
  <2> QED  BY <2>1, <2>3, <2>4, <2>5, <1>0 DEF CountInv
<1>5. ASSUME NEW r \in Names, Worker(r) PROVE Inv'
  <2>e. ASSUME NEW e \in {"copy", "cancel"}, EndWith(r, e), Active(r), e = "cancel" => GroupDone
        PROVE  Inv'
    BY <2>e, WorkStep DEF EndWith, TypeOK
  <2>1. CASE Skip(r) \/ CopyMissing(r) \/ CopyFail(r) \/ CopyCancelled(r)
    BY <2>1, <2>e DEF Skip, CopyMissing, CopyFail, CopyCancelled, Active
  <2>2. CASE Begin(r)
    BY <2>2, WorkStep DEF Begin, Active, TypeOK
  <2>3. CASE Take(r)
    <3>1. obj[src \o r] \in Keys \cup {None}
      BY KeyTypes DEF TypeOK
    <3>2. val' \in [Names -> Keys \cup {None}]
      BY <2>3, <3>1 DEF Take, TypeOK
    <3> QED  BY <2>3, <3>2, WorkStep DEF Take, Active, TypeOK
  <2>4. CASE Install(r)
    <3>1. obj' \in [Keys -> Keys \cup {None}]
      BY <2>4 DEF Install, TypeOK
    <3> QED  BY <2>4, <3>1, WorkStep DEF Install, Active, TypeOK
  <2>5. CASE Count(r)
    BY <2>5, WorkStep DEF Count, Active, TypeOK
  <2> QED  BY <1>5, <2>1, <2>2, <2>3, <2>4, <2>5 DEF Worker
<1>6. CASE Cancel
  BY <1>6, <1>0, ChosenSame DEF Cancel, TypeOK, ShareInv, ErrorInv, CountInv
<1>7. ASSUME NEW r \in Names, Vanish(r) PROVE Inv'
  <2>1. TypeOK' /\ phase = "spawn"
    BY <1>7 DEF Vanish, TypeOK
  <2> QED  BY <1>7, <2>1, <1>0, ChosenSame DEF Vanish, ShareInv, ErrorInv, CountInv
<1>8. CASE UNCHANGED vars
  BY <1>8, <1>0, ChosenSame DEF vars, TypeOK, ShareInv, ErrorInv, CountInv
<1> QED  BY <1>1, <1>2, <1>3, <1>4, <1>5, <1>6, <1>7, <1>8 DEF Next, Engine, Done

\* The inductive invariant of CopyListed.
THEOREM InvHolds == Spec => []Inv
BY InitInv, NextInv, PTL DEF Spec

\* CopyAll returns nil only when all it listed is copied, and counts the copies made.
THEOREM CountsAreRight == Spec => []CountsItsCopies
<1>1. Inv => CountsItsCopies
  <2> SUFFICES ASSUME Inv, phase = "returned" PROVE CountsItsCopies
    BY DEF CountsItsCopies
  <2> USE DEF Inv
  <2>1. total = Cardinality(Made)
    BY DEF CountInv
  <2>2. ASSUME result = "ok" PROVE Made = Chosen
    <3>1. queue = {} /\ gerr = "nil" /\ InFlight = {} /\ Begun = Chosen
      BY <2>2 DEF ShareInv, ErrorInv, Refused
    <3>2. Begun = Made
      BY <3>1 DEF Begun, Made, InFlight, Active, ErrorInv, TypeOK
    <3> QED  BY <3>1, <3>2
  <2>3. ASSUME result \in Refused PROVE total = 0
    <3>1. Made = {}
      BY <2>3 DEF ShareInv, Begun, Made
    <3> QED  BY <3>1, <2>1, FS_EmptySet
  <2> QED  BY <2>1, <2>2, <2>3 DEF CountsItsCopies, Made, Refused
<1> QED  BY <1>1, InvHolds, PTL

\* The error a failed CopyAll returns is a copy's own; it is a cancellation only if the
\* caller cancelled.
THEOREM CauseReported == Spec => []CauseIsReported
<1>1. Inv => CauseIsReported
  BY DEF Inv, ErrorInv, CauseIsReported
<1> QED  BY <1>1, InvHolds, PTL

-----------------------------------------------------------------------------
\* The content: what is still to be read is as it was listed, what was taken is the
\* source's own, and what was written stays.
ContentInv == src # dst =>
  /\ \A r \in Chosen : obj[src \o r] \in {src \o r, None}
  /\ \A r \in Names : work[r] = "taken" => val[r] = src \o r
  /\ \A r \in Names : work[r] \in {"written", "done"} => obj[dst \o r] = src \o r

\* Names joined onto one prefix are as different as the names.
LEMMA JoinLeft ==
  ASSUME NEW p \in Seq(STRING), NEW r \in Seq(STRING), NEW q \in Seq(STRING), p \o r = p \o q
  PROVE  r = q
<1>1. Len(r) = Len(q)
  <2>1. Len(p \o r) = Len(p) + Len(r) /\ Len(p \o q) = Len(p) + Len(q)
    OBVIOUS
  <2> QED  BY <2>1
<1>2. ASSUME NEW i \in 1..Len(r) PROVE r[i] = q[i]
  <2>1. (p \o r)[Len(p) + i] = r[i] /\ (p \o q)[Len(p) + i] = q[i]
    BY <1>1
  <2> QED  BY <2>1
<1>3. r = [i \in 1..Len(r) |-> r[i]] /\ q = [i \in 1..Len(q) |-> q[i]]
  OBVIOUS
<1> QED  BY <1>1, <1>2, <1>3

\* Prefixes joined onto one name are as different as the prefixes.
LEMMA JoinRight ==
  ASSUME NEW p \in Seq(STRING), NEW q \in Seq(STRING), NEW r \in Seq(STRING), p \o r = q \o r
  PROVE  p = q
<1>1. Len(p) = Len(q)
  <2>1. Len(p \o r) = Len(p) + Len(r) /\ Len(q \o r) = Len(q) + Len(r)
    OBVIOUS
  <2> QED  BY <2>1
<1>2. ASSUME NEW i \in 1..Len(p) PROVE p[i] = q[i]
  <2>1. (p \o r)[i] = p[i] /\ (q \o r)[i] = q[i]
    BY <1>1
  <2> QED  BY <2>1
<1> QED  BY <1>1, <1>2

\* Of two prefixes of one key the shorter one is a prefix of the longer one.
LEMMA PrefixOf ==
  ASSUME NEW p \in Seq(STRING), NEW r \in Seq(STRING), NEW q \in Seq(STRING),
         NEW s \in Seq(STRING), p \o r = q \o s, Len(p) <= Len(q)
  PROVE  IsPrefix(p, q)
<1>1. ASSUME NEW i \in 1..Len(p) PROVE p[i] = q[i]
  <2>1. (p \o r)[i] = p[i] /\ (q \o s)[i] = q[i]
    OBVIOUS
  <2> QED  BY <2>1
<1>2. SubSeq(p, 1, Len(p)) = [i \in 1..Len(p) |-> p[i]]
  OBVIOUS
<1>3. SubSeq(q, 1, Len(p)) = [i \in 1..Len(p) |-> q[i]]
  OBVIOUS
<1>4. SubSeq(p, 1, Len(p)) = SubSeq(q, 1, Len(p))
  BY <1>1, <1>2, <1>3
<1> QED  BY <1>4 DEF IsPrefix

\* Unless the source lies inside the destination, no copy is written to a key that is
\* still to be copied.
LEMMA Apart ==
  ASSUME <<src, dst>> \in Pairs, src # dst, ~IsStrictPrefix(dst, src),
         NEW r \in Names, NEW q \in Names, ~UnderNested(r), src \o r = dst \o q
  PROVE  FALSE
<1>1. /\ src \in Seq(STRING) /\ dst \in Seq(STRING) /\ r \in Seq(STRING) /\ q \in Seq(STRING)
      /\ q # <<>>
  BY KeyTypes
<1>2. CASE Len(dst) <= Len(src)
  BY <1>1, <1>2, PrefixOf DEF IsStrictPrefix
<1>3. CASE Len(src) <= Len(dst)
  <2>1. IsStrictPrefix(src, dst)
    BY <1>1, <1>3, PrefixOf DEF IsStrictPrefix
  <2>2. /\ Len(src \o r) = Len(dst) + Len(q) /\ Len(q) > 0
        /\ src \o r \in Seq(STRING) /\ Len(dst) <= Len(src \o r)
    BY <1>1
  <2>3. (src \o r) \o <<>> = dst \o q
    BY <1>1
  <2>4. IsPrefix(dst, src \o r)
    <3>1. dst \o q = (src \o r) \o <<>> /\ <<>> \in Seq(STRING)
      BY <2>3
    <3> QED  BY <3>1, <1>1, <2>2, PrefixOf
  <2>5. dst # src \o r
    BY <1>1, <2>2
  <2> QED  BY <2>1, <2>4, <2>5 DEF UnderNested, IsStrictPrefix
<1> QED  BY <1>1, <1>2, <1>3

\* A step that writes no object, takes none and installs none keeps the contents.
LEMMA ContentSame ==
  ASSUME Inv, ContentInv, UNCHANGED <<obj, src, dst, val, orig>>,
         \A r \in Names : /\ work'[r] = "taken" => work[r] = "taken"
                          /\ work'[r] \in {"written", "done"} => work[r] \in {"written", "done"}
  PROVE  ContentInv'
BY ChosenSame DEF ContentInv

\* Every step keeps the contents, unless the source lies inside the destination.
LEMMA ContentStep ==
  ASSUME Inv, ContentInv, ~IsStrictPrefix(dst, src), [Next]_vars
  PROVE  ContentInv'
<1> USE DEF Inv
<1>0. /\ <<src, dst>> \in Pairs /\ UNCHANGED <<src, dst, orig>> /\ Chosen' = Chosen
      /\ Chosen \subseteq Names
  <2>1. UNCHANGED <<src, dst, orig>>
    BY DEF Next, Engine, Worker, vars, List, ListFail, Go, Wait, Skip, Begin, Take, Install,
         CopyMissing, CopyFail, CopyCancelled, Count, EndWith, Cancel, Vanish, Done
  <2> QED  BY <2>1, ChosenSame DEF TypeOK, Chosen
<1>1. \A r \in Names : Active(r) => r \in Chosen
  <2> SUFFICES ASSUME NEW r \in Names, Active(r) PROVE r \in Chosen
    OBVIOUS
  <2>1. r \in Begun /\ r \in InFlight
    BY DEF Begun, InFlight, Active
  <2> QED  BY <2>1 DEF ShareInv, TypeOK
<1>w. ASSUME NEW r \in Names, NEW s \in {"started", "copying", "failed"},
             work' = [work EXCEPT ![r] = s], UNCHANGED <<obj, val>>
      PROVE  ContentInv'
  <2>1. \A q \in Names : work'[q] = IF q = r THEN s ELSE work[q]
    BY <1>w DEF TypeOK
  <2> QED  BY <2>1, <1>0, <1>w, ContentSame
<1>2. CASE List \/ ListFail \/ Wait \/ Cancel \/ UNCHANGED vars
  BY <1>2, ContentSame DEF List, ListFail, Wait, Cancel, vars
<1>3. CASE Go
  BY <1>3, <1>w DEF Go
<1>4. ASSUME NEW r \in Names, Worker(r) PROVE ContentInv'
  <2>1. CASE Skip(r) \/ Begin(r) \/ CopyMissing(r) \/ CopyFail(r) \/ CopyCancelled(r)
    BY <2>1, <1>w DEF Skip, Begin, CopyMissing, CopyFail, CopyCancelled, EndWith
  <2>2. CASE Take(r)
    <3> SUFFICES ASSUME src # dst PROVE ContentInv'
      BY <1>0 DEF ContentInv
    <3>1. r \in Chosen
      BY <2>2, <1>1 DEF Take, Active
    <3>2. obj[src \o r] = src \o r
      BY <2>2, <3>1 DEF Take, ContentInv
    <3>3. \A q \in Names : /\ work'[q] = IF q = r THEN "taken" ELSE work[q]
                           /\ val'[q] = IF q = r THEN src \o r ELSE val[q]
      BY <2>2, <3>2 DEF Take, TypeOK
    <3>4. obj' = obj
      BY <2>2 DEF Take
    <3> QED  BY <3>3, <3>4, <1>0 DEF ContentInv
  <2>3. CASE Install(r)
    <3> SUFFICES ASSUME src # dst PROVE ContentInv'
      BY <1>0 DEF ContentInv
    <3>1. val[r] = src \o r /\ r \in Chosen /\ val' = val
      BY <2>3, <1>1 DEF Install, ContentInv, Active
    <3>2. \A k \in Keys : obj'[k] = IF k = dst \o r THEN src \o r ELSE obj[k]
      BY <2>3, <3>1 DEF Install, TypeOK
    <3>3. \A q \in Names : work'[q] = IF q = r THEN "written" ELSE work[q]
      BY <2>3 DEF Install, TypeOK
    <3>4. ASSUME NEW q \in Chosen PROVE obj'[src \o q] \in {src \o q, None}
      <4>1. q \in Names /\ ~UnderNested(q)
        BY DEF Chosen
      <4>2. src \o q # dst \o r /\ src \o q \in Keys
        BY <4>1, <1>0, Apart, KeyTypes
      <4> QED  BY <4>2, <3>2 DEF ContentInv
    <3>5. ASSUME NEW q \in Names, work'[q] \in {"written", "done"} PROVE obj'[dst \o q] = src \o q
      <4>1. dst \o q \in Keys /\ dst \in Seq(STRING) /\ q \in Seq(STRING) /\ r \in Seq(STRING)
        BY <1>0, KeyTypes
      <4>2. CASE q = r
        BY <4>1, <4>2, <3>2
      <4>3. CASE q # r
        <5>1. dst \o q # dst \o r
          BY <4>1, <4>3, JoinLeft
        <5>2. obj[dst \o q] = src \o q
          BY <3>3, <3>5, <4>3 DEF ContentInv
        <5> QED  BY <4>1, <5>1, <5>2, <3>2
      <4> QED  BY <4>2, <4>3
    <3> QED  BY <3>1, <3>3, <3>4, <3>5, <1>0 DEF ContentInv
  <2>4. CASE Count(r)
    <3>1. \A q \in Names : work'[q] = IF q = r THEN "done" ELSE work[q]
      BY <2>4 DEF Count, TypeOK
    <3> QED  BY <2>4, <3>1, ContentSame DEF Count
  <2> QED  BY <1>4, <2>1, <2>2, <2>3, <2>4 DEF Worker
<1>5. ASSUME NEW r \in Names, Vanish(r) PROVE ContentInv'
  <2> SUFFICES ASSUME src # dst PROVE ContentInv'
    BY <1>0 DEF ContentInv
  <2>1. /\ \A k \in Keys : obj'[k] = IF k = src \o r THEN None ELSE obj[k]
        /\ obj[src \o r] = src \o r /\ UNCHANGED <<work, val>>
    BY <1>5 DEF Vanish, TypeOK
  <2>2. ASSUME NEW q \in Chosen PROVE obj'[src \o q] \in {src \o q, None}
    <3>1. src \o q \in Keys
      BY <1>0, KeyTypes
    <3> QED  BY <2>1, <3>1 DEF ContentInv
  <2>3. ASSUME NEW q \in Names, work[q] \in {"written", "done"} PROVE obj'[dst \o q] = src \o q
    <3>1. /\ dst \o q \in Keys /\ src \in Seq(STRING) /\ dst \in Seq(STRING) /\ q \in Seq(STRING)
          /\ obj[dst \o q] = src \o q
      BY <2>3, <1>0, KeyTypes DEF ContentInv
    <3>2. dst \o q # src \o r
      BY <3>1, <2>1, JoinRight
    <3> QED  BY <2>1, <3>1, <3>2
  <2> QED  BY <2>1, <2>2, <2>3, <1>0 DEF ContentInv
<1> QED  BY <1>2, <1>3, <1>4, <1>5 DEF Next, Engine, Done

\* However the copies interleave, each puts at its destination what its own source held
\* when CopyAll began; the assumption excludes the one case in which the engine's filter
\* does not keep the copies apart, a source inside the destination.
THEOREM CopiesListedContent ==
  ASSUME \A pair \in Pairs : ~IsStrictPrefix(pair[2], pair[1])
  PROVE  Spec => []CopiesTheListedContent
<1>1. Init => ContentInv
  <2> SUFFICES ASSUME Init PROVE ContentInv
    OBVIOUS
  <2>1. <<src, dst>> \in Pairs /\ obj \in [Keys -> Keys \cup {None}]
    BY InitInv DEF Inv, TypeOK
  <2>2. \A k \in Keys : obj[k] \in {k, None}
    BY DEF Init
  <2>3. \A r \in Chosen : obj[src \o r] \in {src \o r, None}
    BY <2>1, <2>2, KeyTypes DEF Chosen
  <2> QED  BY <2>3 DEF ContentInv, Init
<1>2. Inv /\ ContentInv /\ [Next]_vars => ContentInv'
  <2> SUFFICES ASSUME Inv, ContentInv, [Next]_vars PROVE ContentInv'
    OBVIOUS
  <2>1. <<src, dst>> \in Pairs /\ <<src, dst>>[1] = src /\ <<src, dst>>[2] = dst
    BY DEF Inv, TypeOK
  <2>2. ~IsStrictPrefix(dst, src)
    BY <2>1
  <2> QED  BY <2>2, ContentStep
<1>3. ContentInv => CopiesTheListedContent
  BY DEF ContentInv, CopiesTheListedContent
<1> QED  BY <1>1, <1>2, <1>3, InvHolds, PTL DEF Spec

=============================================================================
