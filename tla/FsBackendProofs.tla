-------------------------- MODULE FsBackendProofs --------------------------
(***************************************************************************)
(* Proofs about FsBackend, for any number of callers, objects, directories *)
(* and pieces.  The inductive invariant Inv says who may write an inode: a *)
(* file being written has no name but the temporary of its writer, and no  *)
(* reader; a temporary about to be renamed is whole and has no writer.     *)
(*                                                                         *)
(* Then: FsBackend implements ObjectStore.  Under the mapping Store, every *)
(* step of the filesystem backend is a step of the Storager contract, or   *)
(* the one step ObjectStore names as not promised, or leaves the objects   *)
(* and the calls as they are.                                              *)
(***************************************************************************)
EXTENDS FsBackend, TLAPS

Writing == {"write", "fill", "drain"}
Temporary == Writing \cup {"rename", "remove"}
Looking == {"copy_stat", "copy_same", "copy_open"}

\* What a call has in its hands at every program counter.
CallInv(p) ==
  /\ op[p] = "none" <=> pc[p] = "idle"
  /\ pc[p] \in {"idle", "all_stat"} => in[p] = None
  /\ out[p] # None <=> pc[p] \in Writing
  /\ tmp[p] # None <=> pc[p] \in Temporary
  /\ writer[p] # "none" <=> pc[p] \in {"fill", "drain"}
  /\ pc[p] \in Looking \cup {"put_mkdir", "copy_mkdir", "temp"} \cup Temporary => to[p] \in Keys
  /\ pc[p] = "put_mkdir" => op[p] = "put"
  /\ pc[p] = "all_stat" => op[p] = "deleteall"
  /\ pc[p] \in Looking \cup {"copy_mkdir"} => op[p] = "copy"
  /\ pc[p] \in {"copy_same", "copy_mkdir", "get_read"} => in[p] # None
  /\ pc[p] = "temp" /\ op[p] # "put" => in[p] # None
  /\ pc[p] = "write" => op[p] = "put"
  /\ pc[p] = "fill" => in[p] # None
  /\ pc[p] = "drain" => in[p] = None
  /\ pc[p] \in Looking \cup {"get_open", "all_stat", "all_unlink"} => from[p] \in Paths

\* An inode being written has one writer, no reader, and no name but the
\* writer's temporary.
OwnerInv(p) == out[p] # None =>
  /\ \A n \in Names : entry[n] = out[p] => n = tmp[p]
  /\ entry[tmp[p]] \in {None, out[p]}
  /\ \A q \in Procs : in[q] # out[p] /\ (out[q] = out[p] => q = p)

\* Temporary names are drawn by one call each; those left behind are nobody's.
TempInv ==
  /\ \A p, q \in Procs : tmp[p] # None /\ tmp[p] = tmp[q] => p = q
  /\ \A t \in orphans : entry[t] # None /\ \A p \in Procs : tmp[p] # t
  /\ \A t \in Temps : entry[t] # None => t \in orphans \/ \E p \in Procs : tmp[p] = t

\* s is the beginning of the body v.
Begins(s, v) == Len(s) <= Pieces /\ \A i \in 1..Len(s) : s[i] = v

\* What a call has open to read is its body, what it has written so far is the
\* beginning of it, and what it is about to rename is all of it.
ContentInv(p) ==
  /\ in[p] # None => data[in[p]] = Full(body[p])
  /\ in[p] # None \/ op[p] = "put" \/ pc[p] \in Temporary => body[p] \in Values
  /\ pc[p] = "write" => Begins(data[out[p]], body[p])
  /\ pc[p] = "fill" /\ writer[p] = "running" => Begins(data[out[p]], body[p])
  /\ pc[p] = "fill" /\ writer[p] = "done" => data[out[p]] = Full(body[p])
  /\ pc[p] = "rename" /\ entry[tmp[p]] # None => data[entry[tmp[p]]] = Full(body[p])

Inv ==
  /\ TypeOK
  /\ \A p \in Procs : CallInv(p) /\ OwnerInv(p) /\ ContentInv(p)
  /\ TempInv
  /\ WholeObjects

-----------------------------------------------------------------------------
\* Bodies and their pieces.

\* A whole body is made of one value, which is what Look remembers of it.
LEMMA FullIsWhole ==
  ASSUME NEW v \in Values
  PROVE  /\ Full(v) \in Seq(Values) /\ Len(Full(v)) = Pieces
         /\ Whole(Full(v)) /\ Content(Full(v)) = v
         /\ \A i \in 1..Pieces : Full(v)[i] = v
BY PiecesAssumption DEF Content, Whole, Full

\* ... and the other way round: what is whole is all of its content.
LEMMA WholeIsFull ==
  ASSUME NEW c, Whole(c)
  PROVE  Content(c) \in Values /\ c = Full(Content(c))
BY FullIsWhole DEF Whole

\* io.Copy that has written as many pieces as the body has, has written the body.
LEMMA AllPiecesIsFull ==
  ASSUME NEW s \in Seq(Values), NEW v \in Values, Begins(s, v), Len(s) = Pieces
  PROVE  s = Full(v)
BY DEF Begins, Full

\* One more piece of the same body.
LEMMA OneMorePiece ==
  ASSUME NEW s \in Seq(Values), NEW v \in Values, Begins(s, v), Len(s) < Pieces
  PROVE  Append(s, v) \in Seq(Values) /\ Begins(Append(s, v), v)
BY PiecesAssumption DEF Begins

\* A file just created is the beginning of any body.
LEMMA NoPieceYet == \A v : Begins(<<>>, v)
BY PiecesAssumption DEF Begins

-----------------------------------------------------------------------------
\* The steps that calls have in common keep the invariant.

USE DEF Names, Paths, Writing, Temporary, Looking

\* A call begins with nothing in its hands.
LEMMA BeginInv ==
  ASSUME Inv, NEW p \in Procs, NEW o \in AllOps,
         NEW at \in {"put_mkdir", "copy_stat", "get_open", "check", "all_stat"},
         NEW s \in Paths \cup {None}, NEW d \in Keys \cup {None},
         NEW v \in Values \cup {None}, NEW set \in SUBSET Paths,
         o = "put" => v \in Values,
         at = "put_mkdir" => o = "put" /\ d \in Keys,
         at = "copy_stat" => o = "copy" /\ d \in Keys,
         at = "all_stat" => o = "deleteall",
         at \in {"copy_stat", "get_open", "all_stat"} => s \in Paths,
         Begin(p, o, at, s, d, v, set)
  PROVE  Inv'
<1> USE DisjointAssumption DEF Begin, Inv, TypeOK, fsVars
<1>1. TypeOK'
  BY DEF PCs
<1>2. \A q \in Procs : CallInv(q)'
  BY DEF CallInv, AllOps
<1>3. \A q \in Procs : OwnerInv(q)'
  BY DEF OwnerInv
<1>4. \A q \in Procs : ContentInv(q)'
  BY DEF ContentInv, CallInv
<1>5. TempInv' /\ WholeObjects'
  BY DEF TempInv, WholeObjects
<1> QED  BY <1>1, <1>2, <1>3, <1>4, <1>5

\* A return does not touch the other calls.
LEMMA ReturnOthers ==
  ASSUME TypeOK, NEW p \in Procs, NEW r, Return(p, r), NEW q \in Procs, q # p
  PROVE  /\ pc'[q] = pc[q] /\ op'[q] = op[q] /\ body'[q] = body[q] /\ tmp'[q] = tmp[q]
         /\ in'[q] = in[q] /\ out'[q] = out[q] /\ writer'[q] = writer[q]
BY DEF Return, TypeOK

\* A call that has no temporary returns and leaves the objects as they are.
LEMMA ReturnInv ==
  ASSUME Inv, NEW p \in Procs, pc[p] \notin Temporary,
         NEW r \in {"none", "ok", "missing", "error", "killed"}, Return(p, r),
         UNCHANGED <<entry, data, orphans>>, dirs' \subseteq Dirs
  PROVE  Inv'
<1> USE DisjointAssumption DEF Inv, Return
<1>1. TypeOK'
  BY DEF TypeOK, PCs
<1>2. tmp' = tmp /\ out' = out
  BY DEF TypeOK, CallInv
<1>3. \A q \in Procs : CallInv(q)'
  BY DEF TypeOK, CallInv
<1>4. \A q \in Procs : OwnerInv(q)'
  BY <1>2 DEF TypeOK, OwnerInv
<1>5. \A q \in Procs : ContentInv(q)'
  BY <1>2 DEF TypeOK, ContentInv, CallInv
<1>6. TempInv' /\ WholeObjects'
  BY <1>2 DEF TempInv, WholeObjects
<1> QED  BY <1>1, <1>3, <1>4, <1>5, <1>6

\* A copy or a read looks at its source, which is a whole object nobody writes.
LEMMA LookInv ==
  ASSUME Inv, NEW p \in Procs, IsFile(from[p]),
         NEW at \in {"copy_same", "copy_mkdir", "get_read"}, Look(p, at),
         pc[p] \notin Temporary \cup {"idle"}, from[p] \in Paths,
         at \in {"copy_same", "copy_mkdir"} => op[p] = "copy" /\ to[p] \in Keys,
         UNCHANGED <<fsVars, orphans>>
  PROVE  Inv'
<1> USE DisjointAssumption DEF Inv, Look, IsFile, fsVars, delVars
<1> DEFINE c == data[entry[from[p]]]
<1>1. entry[from[p]] \in Inos /\ Whole(c)
  BY DEF TypeOK, WholeObjects
<1>2. Content(c) \in Values /\ c = Full(Content(c))
  BY <1>1, WholeIsFull
<1>3. TypeOK'
  BY <1>1, <1>2 DEF TypeOK, PCs
<1>4. \A q \in Procs : CallInv(q)'
  BY <1>1, <1>2 DEF TypeOK, CallInv
<1>5. \A q \in Procs : OwnerInv(q)'
  <2>1. \A q \in Procs : out[q] # None => entry[from[p]] # out[q]
    BY DEF TypeOK, OwnerInv
  <2> QED  BY <1>1, <2>1 DEF TypeOK, OwnerInv
<1>6. \A q \in Procs : ContentInv(q)'
  BY <1>1, <1>2 DEF TypeOK, ContentInv, CallInv
<1>7. TempInv' /\ WholeObjects'
  BY DEF TempInv, WholeObjects
<1> QED  BY <1>3, <1>4, <1>5, <1>6, <1>7

\* DeleteAll has met nothing, or a whole object; a file it has met itself.
LEMMA MetInv ==
  ASSUME Inv, NEW p \in Procs, from[p] \in Paths, Met(p)
  PROVE  /\ \E v \in Values \cup {None} : body' = [body EXCEPT ![p] = v]
         /\ from[p] \in Keys /\ IsFile(from[p]) => body'[p] # None
<1> USE DEF Inv
<1>1. CASE \E k \in Under[from[p]] :
         IsFile(k) /\ body' = [body EXCEPT ![p] = Content(data[entry[k]])]
  <2>1. PICK k \in Under[from[p]] :
          IsFile(k) /\ body' = [body EXCEPT ![p] = Content(data[entry[k]])]
    BY <1>1
  <2>2. Content(data[entry[k]]) \in Values
    BY <2>1, WholeIsFull DEF IsFile, WholeObjects
  <2>3. body'[p] = Content(data[entry[k]])
    BY <2>1 DEF TypeOK
  <2> QED  BY <2>1, <2>2, <2>3, DisjointAssumption
<1>2. CASE (\A k \in Under[from[p]] : ~IsFile(k)) /\ UNCHANGED body
  <2>1. body' = [body EXCEPT ![p] = body[p]] /\ body[p] \in Values \cup {None}
    BY <1>2 DEF TypeOK
  <2>2. from[p] \in Keys => Under[from[p]] = {from[p]}
    BY DisjointAssumption DEF Under
  <2> QED  BY <1>2, <2>1, <2>2
<1> QED  BY <1>1, <1>2 DEF Met

-----------------------------------------------------------------------------
\* Any tree of whole objects, with no call in flight, satisfies the invariant.
LEMMA InitInv == Init => Inv
<1> SUFFICES ASSUME Init PROVE Inv
  OBVIOUS
<1> USE DisjointAssumption DEF Init
<1>1. \A i \in Inos : Whole(data[i]) /\ data[i] \in Seq(Values)
  BY FullIsWhole
<1>2. TypeOK
  BY <1>1 DEF TypeOK, PCs, AllOps
<1>3. \A p \in Procs : CallInv(p) /\ OwnerInv(p) /\ ContentInv(p)
  BY DEF CallInv, OwnerInv, ContentInv
<1>4. TempInv /\ WholeObjects
  BY <1>1 DEF TempInv, WholeObjects
<1> QED  BY <1>2, <1>3, <1>4 DEF Inv

\* Every step of every operation keeps the invariant.
LEMMA NextInv == Inv /\ [Next]_vars => Inv'
<1> SUFFICES ASSUME Inv, [Next]_vars PROVE Inv'
  OBVIOUS
<1> USE DisjointAssumption DEF fsVars, copyVars, delVars
<1>1. ASSUME NEW p \in Procs, PutObject(p) PROVE Inv'
  <2>1. PICK k \in Keys, v \in Values : Begin(p, "put", "put_mkdir", None, k, v, {})
    BY <1>1 DEF PutObject
  <2> QED  BY <2>1, BeginInv DEF AllOps
<1>2. ASSUME NEW p \in Procs, MkdirAll(p) PROVE Inv'
  <2>1. TypeOK'
    BY <1>2, DirOfAssumption DEF MkdirAll, Goto, Inv, TypeOK, CallInv, PCs
  <2>2. \A q \in Procs : CallInv(q)'
    BY <1>2 DEF MkdirAll, Goto, Inv, TypeOK, CallInv
  <2>3. \A q \in Procs : OwnerInv(q)'
    BY <1>2 DEF MkdirAll, Goto, Inv, TypeOK, CallInv, OwnerInv, TempInv
  <2>4. \A q \in Procs : ContentInv(q)'
    BY <1>2 DEF MkdirAll, Goto, Inv, TypeOK, CallInv, OwnerInv, ContentInv
  <2>5. TempInv' /\ WholeObjects'
    BY <1>2 DEF MkdirAll, Goto, Inv, TypeOK, CallInv, OwnerInv, TempInv, WholeObjects
  <2> QED  BY <2>1, <2>2, <2>3, <2>4, <2>5 DEF Inv
<1>3. ASSUME NEW p \in Procs, TempFile(p) PROVE Inv'
  <2> PICK t \in Temps, i \in Inos :
         /\ entry[t] = None /\ (\A q \in Procs : tmp[q] # t) /\ Free(i)
         /\ entry' = [entry EXCEPT ![t] = i] /\ data' = [data EXCEPT ![i] = <<>>]
         /\ tmp' = [tmp EXCEPT ![p] = t] /\ out' = [out EXCEPT ![p] = i]
    BY <1>3 DEF TempFile
  <2>0. \A n \in Names : entry'[n] = i => n = t
    BY DEF Free, Inv, TypeOK
  <2>1. TypeOK'
    BY <1>3 DEF TempFile, Goto, Free, Inv, TypeOK, CallInv, PCs
  <2>2. \A q \in Procs : CallInv(q)'
    BY <1>3 DEF TempFile, Goto, Free, Inv, TypeOK, CallInv
  <2>3. \A q \in Procs : OwnerInv(q)'
    BY <1>3 DEF TempFile, Goto, Free, Inv, TypeOK, CallInv, OwnerInv, TempInv
  <2>4. \A q \in Procs : ContentInv(q)'
    BY <1>3, NoPieceYet DEF TempFile, Goto, Free, Inv, TypeOK, CallInv, ContentInv
  <2>5. TempInv' /\ WholeObjects'
    <3>1. \A q, r \in Procs : tmp'[q] # None /\ tmp'[q] = tmp'[r] => q = r
      BY DEF Inv, TypeOK, TempInv
    <3>2. \A u \in Temps : entry'[u] # None => u \in orphans \/ \E q \in Procs : tmp'[q] = u
      <4> SUFFICES ASSUME NEW u \in Temps, u # t, entry[u] # None, u \notin orphans
                   PROVE  \E q \in Procs : tmp'[q] = u
        BY DEF Inv, TypeOK
      <4>1. PICK q \in Procs : tmp[q] = u
        BY DEF Inv, TempInv
      <4>2. q # p
        BY <1>3, <4>1 DEF TempFile, Inv, CallInv
      <4> QED  BY <4>1, <4>2 DEF Inv, TypeOK
    <3>3. \A u \in orphans : entry'[u] # None /\ \A q \in Procs : tmp'[q] # u
      BY DEF Inv, TypeOK, TempInv
    <3>4. WholeObjects'
      BY DEF Free, Inv, TypeOK, WholeObjects
    <3> QED  BY <1>3, <3>1, <3>2, <3>3, <3>4 DEF TempFile, TempInv
  <2> QED  BY <2>1, <2>2, <2>3, <2>4, <2>5 DEF Inv
<1>4. ASSUME NEW p \in Procs, PutWrite(p) PROVE Inv'
  <2>0. /\ Append(data[out[p]], body[p]) \in Seq(Values)
        /\ Begins(Append(data[out[p]], body[p]), body[p])
    BY <1>4, OneMorePiece DEF PutWrite, Inv, TypeOK, CallInv, ContentInv
  <2>1. TypeOK'
    BY <1>4, <2>0 DEF PutWrite, Inv, TypeOK
  <2>2. \A q \in Procs : CallInv(q)'
    BY <1>4 DEF PutWrite, Inv, TypeOK, CallInv
  <2>3. \A q \in Procs : OwnerInv(q)'
    BY <1>4 DEF PutWrite, Inv, TypeOK, CallInv, OwnerInv, TempInv
  <2>4. \A q \in Procs : ContentInv(q)'
    BY <1>4, <2>0 DEF PutWrite, Inv, TypeOK, CallInv, OwnerInv, ContentInv, TempInv
  <2>5. TempInv' /\ WholeObjects'
    BY <1>4 DEF PutWrite, Inv, TypeOK, CallInv, OwnerInv, TempInv, WholeObjects
  <2> QED  BY <2>1, <2>2, <2>3, <2>4, <2>5 DEF Inv
<1>5. ASSUME NEW p \in Procs, PutClose(p) PROVE Inv'
  <2>0. data[out[p]] = Full(body[p])
    BY <1>5, AllPiecesIsFull DEF PutClose, Inv, TypeOK, CallInv, ContentInv
  <2>1. TypeOK'
    BY <1>5 DEF PutClose, Goto, Inv, TypeOK, CallInv, PCs
  <2>2. \A q \in Procs : CallInv(q)'
    BY <1>5 DEF PutClose, Goto, Inv, TypeOK, CallInv
  <2>3. \A q \in Procs : OwnerInv(q)'
    BY <1>5 DEF PutClose, Goto, Inv, TypeOK, CallInv, OwnerInv, TempInv
  <2>4. \A q \in Procs : ContentInv(q)'
    <3>1. entry[tmp[p]] # None => entry[tmp[p]] = out[p]
      BY <1>5 DEF PutClose, Inv, TypeOK, CallInv, OwnerInv, TempInv
    <3> QED  BY <1>5, <2>0, <3>1 DEF PutClose, Goto, Inv, TypeOK, CallInv, ContentInv
  <2>5. TempInv' /\ WholeObjects'
    BY <1>5 DEF PutClose, Goto, Inv, TypeOK, CallInv, OwnerInv, TempInv, WholeObjects
  <2> QED  BY <2>1, <2>2, <2>3, <2>4, <2>5 DEF Inv
<1>6. ASSUME NEW p \in Procs, PutFail(p) PROVE Inv'
  <2>1. TypeOK'
    BY <1>6 DEF PutFail, Goto, Inv, TypeOK, CallInv, PCs
  <2>2. \A q \in Procs : CallInv(q)'
    BY <1>6 DEF PutFail, Goto, Inv, TypeOK, CallInv
  <2>3. \A q \in Procs : OwnerInv(q)'
    BY <1>6 DEF PutFail, Goto, Inv, TypeOK, CallInv, OwnerInv, TempInv
  <2>4. \A q \in Procs : ContentInv(q)'
    BY <1>6 DEF PutFail, Goto, Inv, TypeOK, CallInv, OwnerInv, ContentInv
  <2>5. TempInv' /\ WholeObjects'
    BY <1>6 DEF PutFail, Goto, Inv, TypeOK, CallInv, OwnerInv, TempInv, WholeObjects
  <2> QED  BY <2>1, <2>2, <2>3, <2>4, <2>5 DEF Inv
<1>7. ASSUME NEW p \in Procs, Rename(p) PROVE Inv'
  <2>0. /\ tmp[p] \in Temps /\ to[p] \in Keys /\ entry[tmp[p]] \in Inos
        /\ \A q \in Procs : out[q] # entry[tmp[p]] /\ (q # p => tmp[q] # tmp[p])
    BY <1>7 DEF Rename, Inv, TypeOK, CallInv, OwnerInv, TempInv
  <2>6. entry' \in [Names -> Inos \cup {None}]
    BY <1>7, <2>0 DEF Rename, Inv, TypeOK
  <2>1. TypeOK'
    BY <1>7, <2>6 DEF Rename, Return, Inv, TypeOK, PCs
  <2>2. \A q \in Procs : CallInv(q)'
    BY <1>7 DEF Rename, Return, Inv, TypeOK, CallInv
  <2>3. \A q \in Procs : OwnerInv(q)'
    <3> SUFFICES ASSUME NEW q \in Procs, out'[q] # None PROVE OwnerInv(q)'
      BY DEF OwnerInv
    <3>1. q # p /\ out[q] = out'[q] /\ tmp'[q] = tmp[q] /\ tmp[q] \in Temps /\ OwnerInv(q)
      BY <1>7 DEF Rename, Return, Inv, TypeOK, CallInv
    <3>2. \A n \in Names : entry'[n] = out[q] => n = tmp[q]
      BY <1>7, <2>0, <3>1 DEF Rename, Inv, TypeOK, OwnerInv
    <3>3. entry'[tmp[q]] = entry[tmp[q]]
      BY <1>7, <2>0, <3>1 DEF Rename, Inv, TypeOK
    <3> QED  BY <1>7, <3>1, <3>2, <3>3 DEF Rename, Return, Inv, TypeOK, OwnerInv
  <2>4. \A q \in Procs : ContentInv(q)'
    <3>1. \A q \in Procs : tmp'[q] # None => tmp'[q] = tmp[q] /\ entry'[tmp[q]] = entry[tmp[q]]
      BY <1>7, <2>0 DEF Rename, Return, Inv, TypeOK
    <3>2. ContentInv(p)'
      BY <1>7 DEF Rename, Return, Inv, TypeOK, ContentInv
    <3>3. ASSUME NEW q \in Procs, q # p PROVE ContentInv(q)'
      <4>1. data' = data /\ CallInv(q) /\ ContentInv(q)
        BY <1>7 DEF Rename, Inv
      <4>2. /\ pc'[q] = pc[q] /\ op'[q] = op[q] /\ body'[q] = body[q] /\ tmp'[q] = tmp[q]
            /\ in'[q] = in[q] /\ out'[q] = out[q] /\ writer'[q] = writer[q]
        BY <1>7, <3>3, ReturnOthers DEF Rename, Inv
      <4>3. pc[q] = "rename" => entry'[tmp'[q]] = entry[tmp[q]]
        BY <3>1, <4>1, <4>2 DEF CallInv
      <4> QED  BY <4>1, <4>2, <4>3 DEF ContentInv
    <3> QED  BY <3>2, <3>3
  <2>5. TempInv' /\ WholeObjects'
    <3>1. \A u \in Temps : entry'[u] # None => u \in orphans \/ \E q \in Procs : tmp'[q] = u
      <4> SUFFICES ASSUME NEW u \in Temps, entry'[u] # None, u \notin orphans
                   PROVE  \E q \in Procs : tmp'[q] = u
        OBVIOUS
      <4>1. u # tmp[p] /\ entry[u] # None
        BY <1>7 DEF Rename, Inv, TypeOK, CallInv
      <4>2. PICK q \in Procs : tmp[q] = u
        BY <4>1 DEF Inv, TempInv
      <4> QED  BY <1>7, <4>1, <4>2 DEF Rename, Return, Inv, TypeOK
    <3>2. TempInv'
      <4>1. \A t \in orphans : entry'[t] # None
        BY <1>7, <2>0 DEF Rename, Inv, TypeOK, TempInv
      <4>2. \A q \in Procs : tmp'[q] \in {None, tmp[q]}
        BY <1>7 DEF Rename, Return, Inv, TypeOK
      <4>3. \A t \in orphans, q \in Procs : tmp'[q] # t
        BY <4>2 DEF Inv, TypeOK, TempInv
      <4>4. \A q, r \in Procs : tmp'[q] # None /\ tmp'[q] = tmp'[r] => q = r
        BY <4>2 DEF Inv, TempInv
      <4>5. orphans' = orphans
        BY <1>7 DEF Rename
      <4> QED  BY <3>1, <4>1, <4>3, <4>4, <4>5 DEF TempInv
    <3>3. WholeObjects'
      BY <1>7, <2>0, FullIsWhole DEF Rename, Inv, TypeOK, ContentInv, WholeObjects
    <3> QED  BY <3>2, <3>3
  <2> QED  BY <2>1, <2>2, <2>3, <2>4, <2>5 DEF Inv
<1>8. ASSUME NEW p \in Procs, RenameFail(p) PROVE Inv'
  <2>1. TypeOK'
    BY <1>8 DEF RenameFail, Goto, Inv, TypeOK, CallInv, PCs
  <2>2. \A q \in Procs : CallInv(q)'
    BY <1>8 DEF RenameFail, Goto, Inv, TypeOK, CallInv
  <2>3. \A q \in Procs : OwnerInv(q)'
    BY <1>8 DEF RenameFail, Goto, Inv, TypeOK, CallInv, OwnerInv, TempInv
  <2>4. \A q \in Procs : ContentInv(q)'
    BY <1>8 DEF RenameFail, Goto, Inv, TypeOK, CallInv, OwnerInv, ContentInv
  <2>5. TempInv' /\ WholeObjects'
    BY <1>8 DEF RenameFail, Goto, Inv, TypeOK, CallInv, OwnerInv, TempInv, WholeObjects
  <2> QED  BY <2>1, <2>2, <2>3, <2>4, <2>5 DEF Inv
<1>9. ASSUME NEW p \in Procs, RemoveQuietly(p) PROVE Inv'
  <2>1. TypeOK'
    BY <1>9 DEF RemoveQuietly, Return, Inv, TypeOK, CallInv, PCs
  <2>2. \A q \in Procs : CallInv(q)'
    BY <1>9 DEF RemoveQuietly, Return, Inv, TypeOK, CallInv
  <2>3. \A q \in Procs : OwnerInv(q)'
    BY <1>9 DEF RemoveQuietly, Return, Inv, TypeOK, CallInv, OwnerInv, TempInv
  <2>4. \A q \in Procs : ContentInv(q)'
    BY <1>9 DEF RemoveQuietly, Return, Inv, TypeOK, CallInv, OwnerInv, ContentInv
  <2>5. TempInv' /\ WholeObjects'
    BY <1>9 DEF RemoveQuietly, Return, Inv, TypeOK, CallInv, OwnerInv, TempInv, WholeObjects
  <2> QED  BY <2>1, <2>2, <2>3, <2>4, <2>5 DEF Inv
<1>10. ASSUME NEW p \in Procs, RemoveQuietlyFail(p) PROVE Inv'
  <2>1. TypeOK'
    BY <1>10 DEF RemoveQuietlyFail, Return, Abandon, Inv, TypeOK, CallInv, PCs
  <2>2. \A q \in Procs : CallInv(q)'
    BY <1>10 DEF RemoveQuietlyFail, Return, Abandon, Inv, TypeOK, CallInv
  <2>3. \A q \in Procs : OwnerInv(q)'
    BY <1>10 DEF RemoveQuietlyFail, Return, Abandon, Inv, TypeOK, CallInv, OwnerInv, TempInv
  <2>4. \A q \in Procs : ContentInv(q)'
    BY <1>10 DEF RemoveQuietlyFail, Return, Abandon, Inv, TypeOK, CallInv, OwnerInv, ContentInv
  <2>5. TempInv' /\ WholeObjects'
    BY <1>10 DEF RemoveQuietlyFail, Return, Abandon, Inv, TypeOK, CallInv, OwnerInv, TempInv,
        WholeObjects
  <2> QED  BY <2>1, <2>2, <2>3, <2>4, <2>5 DEF Inv
<1>11. ASSUME NEW p \in Procs, Copy(p) PROVE Inv'
  <2>1. PICK s \in Paths, d \in Keys : Begin(p, "copy", "copy_stat", s, d, None, {})
    BY <1>11 DEF Copy
  <2> QED  BY <2>1, BeginInv DEF AllOps
<1>12. ASSUME NEW p \in Procs, CopyStat(p) PROVE Inv'
  BY <1>12, LookInv, ReturnInv DEF CopyStat, Inv, TypeOK, CallInv
<1>13. ASSUME NEW p \in Procs, CopySame(p) PROVE Inv'
  <2>1. CASE Return(p, "ok")
    BY <1>13, <2>1, ReturnInv DEF CopySame, Inv, TypeOK
  <2>2. CASE Goto(p, "copy_open") /\ UNCHANGED <<tmp, in, out, writer, delVars>>
    BY <1>13, <2>2 DEF CopySame, Goto, PCs, Inv, TypeOK, CallInv, OwnerInv, ContentInv,
        TempInv, WholeObjects
  <2> QED  BY <1>13, <2>1, <2>2 DEF CopySame
<1>14. ASSUME NEW p \in Procs, CopyOpen(p) PROVE Inv'
  BY <1>14, LookInv, ReturnInv DEF CopyOpen, Inv, TypeOK, CallInv
<1>15. ASSUME NEW p \in Procs, CopyPiece(p) PROVE Inv'
  <2> DEFINE new == Append(data[out[p]], body[p])
  <2>0. /\ pc[p] = "fill" /\ out[p] \in Inos /\ body[p] \in Values
        /\ data[in[p]] = Full(body[p]) /\ Begins(data[out[p]], body[p])
    BY <1>15 DEF CopyPiece, Inv, TypeOK, CallInv, ContentInv
  <2>6. Len(data[out[p]]) < Pieces /\ data' = [data EXCEPT ![out[p]] = new]
    <3>1. Len(data[out[p]]) \in Nat /\ Len(data[out[p]]) < Pieces
      BY <1>15, <2>0, FullIsWhole DEF CopyPiece, Inv, TypeOK
    <3>2. data[in[p]][Len(data[out[p]]) + 1] = body[p]
      BY <2>0, <3>1, FullIsWhole, PiecesAssumption
    <3> QED  BY <1>15, <3>1, <3>2 DEF CopyPiece
  <2>7. new \in Seq(Values) /\ Begins(new, body[p])
    BY <2>0, <2>6, OneMorePiece DEF Inv, TypeOK
  <2>1. TypeOK'
    BY <1>15, <2>0, <2>6, <2>7 DEF CopyPiece, Inv, TypeOK
  <2>2. \A q \in Procs : CallInv(q)'
    BY <1>15 DEF CopyPiece, Inv, TypeOK, CallInv
  <2>3. \A q \in Procs : OwnerInv(q)'
    BY <1>15 DEF CopyPiece, Inv, TypeOK, CallInv, OwnerInv, TempInv
  <2>4. \A q \in Procs : ContentInv(q)'
    BY <1>15, <2>0, <2>6, <2>7 DEF CopyPiece, Inv, TypeOK, CallInv, OwnerInv, ContentInv, TempInv
  <2>5. TempInv' /\ WholeObjects'
    BY <1>15 DEF CopyPiece, Inv, TypeOK, CallInv, OwnerInv, TempInv, WholeObjects
  <2> QED  BY <2>1, <2>2, <2>3, <2>4, <2>5 DEF Inv
<1>16. ASSUME NEW p \in Procs, CopyDone(p) PROVE Inv'
  <2>0. in[p] # None /\ Len(data[out[p]]) = Len(data[in[p]]) /\ pc[p] = "fill"
          => data[out[p]] = Full(body[p])
    BY <1>16, FullIsWhole, AllPiecesIsFull DEF CopyDone, Inv, TypeOK, CallInv, ContentInv
  <2>1. TypeOK'
    BY <1>16, ZenonT(30) DEF CopyDone, Inv, TypeOK, CallInv, PCs
  <2>2. \A q \in Procs : CallInv(q)'
    BY <1>16 DEF CopyDone, Inv, TypeOK, CallInv
  <2>3. \A q \in Procs : OwnerInv(q)'
    BY <1>16 DEF CopyDone, Inv, TypeOK, CallInv, OwnerInv, TempInv
  <2>4. \A q \in Procs : ContentInv(q)'
    BY <1>16, <2>0 DEF CopyDone, Inv, TypeOK, CallInv, ContentInv
  <2>5. TempInv' /\ WholeObjects'
    BY <1>16 DEF CopyDone, Inv, TypeOK, CallInv, OwnerInv, TempInv, WholeObjects
  <2> QED  BY <2>1, <2>2, <2>3, <2>4, <2>5 DEF Inv
<1>17. ASSUME NEW p \in Procs, FillDone(p) PROVE Inv'
  <2>1. TypeOK'
    BY <1>17 DEF FillDone, Goto, Inv, TypeOK, CallInv, PCs
  <2>2. \A q \in Procs : CallInv(q)'
    BY <1>17 DEF FillDone, Goto, Inv, TypeOK, CallInv
  <2>3. \A q \in Procs : OwnerInv(q)'
    BY <1>17 DEF FillDone, Goto, Inv, TypeOK, CallInv, OwnerInv, TempInv
  <2>4. \A q \in Procs : ContentInv(q)'
    <3>1. entry[tmp[p]] # None => entry[tmp[p]] = out[p]
      BY <1>17 DEF FillDone, Inv, TypeOK, CallInv, OwnerInv, TempInv
    <3> QED  BY <1>17, <3>1 DEF FillDone, Goto, Inv, TypeOK, CallInv, ContentInv
  <2>5. TempInv' /\ WholeObjects'
    BY <1>17 DEF FillDone, Goto, Inv, TypeOK, CallInv, OwnerInv, TempInv, WholeObjects
  <2> QED  BY <2>1, <2>2, <2>3, <2>4, <2>5 DEF Inv
<1>18. ASSUME NEW p \in Procs, FillCancel(p) PROVE Inv'
  <2>1. TypeOK'
    BY <1>18 DEF FillCancel, Goto, Inv, TypeOK, CallInv, PCs
  <2>2. \A q \in Procs : CallInv(q)'
    BY <1>18 DEF FillCancel, Goto, Inv, TypeOK, CallInv
  <2>3. \A q \in Procs : OwnerInv(q)'
    BY <1>18 DEF FillCancel, Goto, Inv, TypeOK, CallInv, OwnerInv, TempInv
  <2>4. \A q \in Procs : ContentInv(q)'
    BY <1>18 DEF FillCancel, Goto, Inv, TypeOK, CallInv, OwnerInv, ContentInv
  <2>5. TempInv' /\ WholeObjects'
    BY <1>18 DEF FillCancel, Goto, Inv, TypeOK, CallInv, OwnerInv, TempInv, WholeObjects
  <2> QED  BY <2>1, <2>2, <2>3, <2>4, <2>5 DEF Inv
<1>19. ASSUME NEW p \in Procs, DrainDone(p) PROVE Inv'
  <2>1. TypeOK'
    BY <1>19 DEF DrainDone, Goto, Inv, TypeOK, CallInv, PCs
  <2>2. \A q \in Procs : CallInv(q)'
    BY <1>19 DEF DrainDone, Goto, Inv, TypeOK, CallInv
  <2>3. \A q \in Procs : OwnerInv(q)'
    BY <1>19 DEF DrainDone, Goto, Inv, TypeOK, CallInv, OwnerInv, TempInv
  <2>4. \A q \in Procs : ContentInv(q)'
    BY <1>19 DEF DrainDone, Goto, Inv, TypeOK, CallInv, OwnerInv, ContentInv
  <2>5. TempInv' /\ WholeObjects'
    BY <1>19 DEF DrainDone, Goto, Inv, TypeOK, CallInv, OwnerInv, TempInv, WholeObjects
  <2> QED  BY <2>1, <2>2, <2>3, <2>4, <2>5 DEF Inv
<1>20. ASSUME NEW p \in Procs, GetObject(p) PROVE Inv'
  <2>1. PICK k \in Keys : Begin(p, "get", "get_open", k, None, None, {})
    BY <1>20 DEF GetObject
  <2> QED  BY <2>1, BeginInv DEF AllOps
<1>21. ASSUME NEW p \in Procs, GetOpen(p) PROVE Inv'
  BY <1>21, LookInv, ReturnInv DEF GetOpen, Inv, TypeOK, CallInv
<1>22. ASSUME NEW p \in Procs, GetClose(p) PROVE Inv'
  BY <1>22, ReturnInv DEF GetClose, Inv, TypeOK
<1>23. ASSUME NEW p \in Procs, Delete(p) PROVE Inv'
  <2>1. PICK s \in SUBSET Paths : Begin(p, "delete", "check", None, None, None, s)
    BY <1>23 DEF Delete
  <2> QED  BY <2>1, BeginInv DEF AllOps
<1>24. ASSUME NEW p \in Procs, DeleteCheck(p) PROVE Inv'
  <2>1. TypeOK'
    BY <1>24 DEF DeleteCheck, Inv, TypeOK, CallInv, PCs
  <2>2. \A q \in Procs : CallInv(q)'
    BY <1>24 DEF DeleteCheck, Inv, TypeOK, CallInv
  <2>3. \A q \in Procs : OwnerInv(q)'
    BY <1>24 DEF DeleteCheck, Inv, TypeOK, CallInv, OwnerInv, TempInv
  <2>4. \A q \in Procs : ContentInv(q)'
    BY <1>24 DEF DeleteCheck, Inv, TypeOK, CallInv, OwnerInv, ContentInv
  <2>5. TempInv' /\ WholeObjects'
    BY <1>24 DEF DeleteCheck, Inv, TypeOK, CallInv, OwnerInv, TempInv, WholeObjects
  <2> QED  BY <2>1, <2>2, <2>3, <2>4, <2>5 DEF Inv
<1>25. ASSUME NEW p \in Procs, DeleteDecide(p) PROVE Inv'
  <2>1. CASE Return(p, "missing")
    BY <1>25, <2>1, ReturnInv DEF DeleteDecide, Inv, TypeOK
  <2>2. CASE Goto(p, "unlink") /\ todo' = [todo EXCEPT ![p] = paths[p]]
             /\ UNCHANGED <<tmp, in, out, writer, paths, missing, dirty>>
    BY <1>25, <2>2 DEF DeleteDecide, Goto, PCs, Inv, TypeOK, CallInv, OwnerInv, ContentInv,
        TempInv, WholeObjects
  <2> QED  BY <1>25, <2>1, <2>2 DEF DeleteDecide
<1>26. ASSUME NEW p \in Procs, DeleteUnlink(p) PROVE Inv'
  <2>1. TypeOK'
    <3>1. PICK x \in todo[p] : /\ todo' = [todo EXCEPT ![p] = @ \ {x}]
                              /\ entry' = [entry EXCEPT ![x] = None]
      BY <1>26 DEF DeleteUnlink
    <3> QED  BY <1>26, <3>1 DEF DeleteUnlink, Inv, TypeOK
  <2>2. \A q \in Procs : CallInv(q)'
    BY <1>26 DEF DeleteUnlink, Inv, TypeOK, CallInv
  <2>3. \A q \in Procs : OwnerInv(q)'
    BY <1>26 DEF DeleteUnlink, Inv, TypeOK, CallInv, OwnerInv, TempInv
  <2>4. \A q \in Procs : ContentInv(q)'
    BY <1>26 DEF DeleteUnlink, Inv, TypeOK, CallInv, OwnerInv, ContentInv
  <2>5. TempInv' /\ WholeObjects'
    BY <1>26 DEF DeleteUnlink, Inv, TypeOK, CallInv, OwnerInv, TempInv, WholeObjects
  <2> QED  BY <2>1, <2>2, <2>3, <2>4, <2>5 DEF Inv
<1>27. ASSUME NEW p \in Procs, DeleteDone(p) PROVE Inv'
  BY <1>27, ReturnInv DEF DeleteDone, Inv, TypeOK
<1>28. ASSUME NEW p \in Procs, DeleteAll(p) PROVE Inv'
  <2>1. PICK x \in Paths : Begin(p, "deleteall", "all_stat", x, None, None, Under[x])
    BY <1>28 DEF DeleteAll
  <2>2. Under[x] \subseteq Paths
    BY DEF Under
  <2> QED  BY <2>1, <2>2, BeginInv DEF AllOps
<1>29. ASSUME NEW p \in Procs, AllStat(p) PROVE Inv'
  <2>1. CASE Return(p, "missing")
    BY <1>29, <2>1, ReturnInv DEF AllStat, Inv, TypeOK
  <2>2. CASE ~Return(p, "missing")
    <3>1. /\ pc[p] = "all_stat" /\ pc' = [pc EXCEPT ![p] = "all_unlink"] /\ Met(p)
          /\ UNCHANGED <<op, from, to, res, tmp, in, out, writer, delVars, fsVars, orphans>>
      BY <1>29, <2>2 DEF AllStat
    <3>2. \E v \in Values \cup {None} : body' = [body EXCEPT ![p] = v]
      BY <1>29, <3>1, MetInv DEF AllStat, Inv, CallInv
    <3>3. TypeOK'
      BY <3>1, <3>2 DEF PCs, Inv, TypeOK
    <3>4. \A q \in Procs : body'[q] = body[q] \/ q = p
      BY <3>2 DEF Inv, TypeOK
    <3>5. in[p] = None /\ op[p] # "put"
      BY <3>1, <1>29 DEF Inv, CallInv
    <3> QED  BY <3>1, <3>3, <3>4, <3>5 DEF Inv, TypeOK, CallInv, OwnerInv, ContentInv,
        TempInv, WholeObjects
  <2> QED  BY <2>1, <2>2
<1>30. ASSUME NEW p \in Procs, AllUnlink(p) PROVE Inv'
  <2>1. TypeOK'
    BY <1>30 DEF AllUnlink, Tree, Inv, TypeOK, CallInv, PCs
  <2>2. \A q \in Procs : CallInv(q)'
    BY <1>30 DEF AllUnlink, Tree, Inv, TypeOK, CallInv
  <2>3. \A q \in Procs : OwnerInv(q)'
    BY <1>30 DEF AllUnlink, Tree, Inv, TypeOK, CallInv, OwnerInv, TempInv
  <2>4. \A q \in Procs : ContentInv(q)'
    BY <1>30 DEF AllUnlink, Tree, Inv, TypeOK, CallInv, OwnerInv, ContentInv
  <2>5. TempInv' /\ WholeObjects'
    BY <1>30 DEF AllUnlink, Tree, Inv, TypeOK, CallInv, OwnerInv, TempInv, WholeObjects
  <2> QED  BY <2>1, <2>2, <2>3, <2>4, <2>5 DEF Inv
<1>31. ASSUME NEW p \in Procs, AllDone(p) PROVE Inv'
  BY <1>31, ReturnInv DEF AllDone, Inv, TypeOK
<1>32. ASSUME NEW p \in Procs, Fail(p) PROVE Inv'
  BY <1>32, ReturnInv DEF Fail, Inv, TypeOK
<1>33. ASSUME NEW p \in Procs, Kill(p) PROVE Inv'
  <2>1. TypeOK'
    BY <1>33 DEF Kill, Return, Abandon, Inv, TypeOK, CallInv, PCs
  <2>2. \A q \in Procs : CallInv(q)'
    BY <1>33 DEF Kill, Return, Abandon, Inv, TypeOK, CallInv
  <2>3. \A q \in Procs : OwnerInv(q)'
    BY <1>33 DEF Kill, Return, Abandon, Inv, TypeOK, CallInv, OwnerInv, TempInv
  <2>4. \A q \in Procs : ContentInv(q)'
    BY <1>33 DEF Kill, Return, Abandon, Inv, TypeOK, CallInv, OwnerInv, ContentInv
  <2>5. TempInv' /\ WholeObjects'
    BY <1>33 DEF Kill, Return, Abandon, Inv, TypeOK, CallInv, OwnerInv, TempInv, WholeObjects
  <2> QED  BY <2>1, <2>2, <2>3, <2>4, <2>5 DEF Inv
<1>34. CASE UNCHANGED vars
  BY <1>34 DEF vars, Inv, TypeOK, CallInv, OwnerInv, ContentInv, TempInv, WholeObjects
<1> QED
  BY <1>1, <1>2, <1>3, <1>4, <1>5, <1>6, <1>7, <1>8, <1>9, <1>10, <1>11,
    <1>12, <1>13, <1>14, <1>15, <1>16, <1>17, <1>18, <1>19, <1>20, <1>21,
    <1>22, <1>23, <1>24, <1>25, <1>26, <1>27, <1>28, <1>29, <1>30, <1>31,
    <1>32, <1>33, <1>34 DEF Next, Step

-----------------------------------------------------------------------------
\* Every reachable state of the filesystem backend satisfies the invariant.
THEOREM InvHolds == Spec => []Inv
<1> QED  BY InitInv, NextInv, PTL DEF Spec

\* The filesystem and the local state of every call keep their types.
THEOREM TypeCorrect == Spec => []TypeOK
<1>1. Inv => TypeOK  BY DEF Inv
<1> QED  BY <1>1, InvHolds, PTL

\* PutObject and Copy never expose a file cut short or mixed from two bodies.
THEOREM ObjectsAreWhole == Spec => []WholeObjects
<1>1. Inv => WholeObjects  BY DEF Inv
<1> QED  BY <1>1, InvHolds, PTL

\* removeQuietly is reached on every error path that has created a temporary.
THEOREM TemporariesAccounted == Spec => []TempsAccounted
<1>1. Inv => TempsAccounted
  BY DEF Inv, TypeOK, TempInv, TempsAccounted
<1> QED  BY <1>1, InvHolds, PTL

\* writeAll waits for its goroutine before it returns.
THEOREM WriterIsWaitedFor == Spec => []WriterInsideCall
<1>1. Inv => WriterInsideCall
  BY DEF Inv, CallInv, WriterInsideCall
<1> QED  BY <1>1, InvHolds, PTL

-----------------------------------------------------------------------------
\* Only a call's own output, or a file with neither name nor reader, is written.
LEMMA WritesAreInvisible ==
  ASSUME Inv, NEW p \in Procs, Step(p), NEW i \in Inos,
         (\E q \in Procs : in[q] = i) \/ (\E k \in Keys : entry[k] = i)
  PROVE  data'[i] = data[i]
<1> USE DisjointAssumption DEF fsVars
<1>1. CASE TempFile(p)
  <2>1. PICK j \in Inos : Free(j) /\ data' = [data EXCEPT ![j] = <<>>]
    BY <1>1 DEF TempFile
  <2> QED  BY <2>1 DEF Free, Inv, TypeOK
<1>2. CASE PutWrite(p)
  BY <1>2 DEF PutWrite, Inv, TypeOK, CallInv, OwnerInv
<1>3. CASE CopyPiece(p)
  BY <1>3 DEF CopyPiece, Inv, TypeOK, CallInv, OwnerInv
<1>4. CASE data' = data
  BY <1>4
<1> QED
  BY <1>1, <1>2, <1>3, <1>4
  DEF Step, PutObject, MkdirAll, PutClose, PutFail, Rename, RenameFail, RemoveQuietly,
    RemoveQuietlyFail, Copy, CopyStat, CopySame, CopyOpen, CopyDone, FillDone, FillCancel,
    DrainDone, GetObject, GetOpen, GetClose, Delete, DeleteCheck, DeleteDecide, DeleteUnlink,
    DeleteDone, DeleteAll, AllStat, AllUnlink, AllDone, Fail, Kill, Begin

\* A reader keeps its handle while it stays where it is.
LEMMA ReadersStay ==
  ASSUME Inv, NEW p \in Procs, Step(p), NEW q \in Procs,
         pc[q] \in {"get_read", "fill"}, pc'[q] = pc[q], in[q] # None
  PROVE  in'[q] = in[q]
BY DisjointAssumption, ZenonT(90)
DEF Step, Begin, Return, Goto, Look, Inv, TypeOK, CallInv, fsVars, copyVars, delVars,
  PutObject, MkdirAll, TempFile, PutWrite, PutClose, PutFail, Rename, RenameFail, RemoveQuietly,
  RemoveQuietlyFail, Copy, CopyStat, CopySame, CopyOpen, CopyPiece, CopyDone, FillDone, FillCancel,
  DrainDone, GetObject, GetOpen, GetClose, Delete, DeleteCheck, DeleteDecide, DeleteUnlink,
  DeleteDone, DeleteAll, AllStat, AllUnlink, AllDone, Fail, Kill

\* An open object is never written to, whatever happens to its name.
THEOREM ReadersKeepVersion == Spec => ReadersKeepTheirVersion
<1>1. Inv /\ [Next]_vars => [ReadersUndisturbed]_vars
  <2> SUFFICES ASSUME Inv, NEW p \in Procs, Step(p) PROVE ReadersUndisturbed
    BY DEF Next
  <2> QED  BY WritesAreInvisible, ReadersStay DEF Inv, TypeOK, ReadersUndisturbed
<1> QED  BY <1>1, InvHolds, PTL DEF Spec, ReadersKeepTheirVersion

-----------------------------------------------------------------------------
\* FsBackend implements ObjectStore.

Deleting == {"check", "unlink", "all_stat", "all_unlink"}

\* What a deletion has still to do, and which calls are not deletions.
DeleteInv(p) ==
  /\ pc[p] = "check" => /\ op[p] = "delete" /\ from[p] = None /\ dirty[p] = FALSE
                        /\ todo[p] \subseteq paths[p]
                        /\ paths[p] \subseteq Keys \cup todo[p] \cup missing[p]
  /\ pc[p] = "unlink" => /\ op[p] = "delete" /\ from[p] = None
                         /\ todo[p] \subseteq Keys /\ missing[p] = {}
  /\ pc[p] \in {"all_stat", "all_unlink"} =>
       /\ op[p] = "deleteall" /\ missing[p] = {}
       /\ from[p] \in Dirs => todo[p] = Under[from[p]]
       /\ from[p] \in Keys => todo[p] = (IF dirty[p] = TRUE THEN {} ELSE {from[p]})
  /\ pc[p] = "all_stat" => dirty[p] = FALSE /\ body[p] = None
  /\ pc[p] = "all_unlink" /\ from[p] \in Keys => body[p] # None
  /\ pc[p] \notin Deleting => missing[p] = {} /\ dirty[p] = FALSE
  /\ pc[p] \in {"get_open", "get_read"} => op[p] = "get"
  /\ pc[p] \in {"temp"} \cup Temporary => op[p] \in {"put", "copy"}
  /\ pc[p] \in Temporary => DirOf[tmp[p]] = DirOf[to[p]]

\* A file lies in a directory that exists.
DirInv == \A n \in Names : entry[n] # None => DirOf[n] \in dirs

RInv == Inv /\ (\A p \in Procs : DeleteInv(p)) /\ DirInv

-----------------------------------------------------------------------------
USE DEF Deleting

\* With no call in flight nothing is to be deleted.
LEMMA RInit == Init => RInv
<1> SUFFICES ASSUME Init PROVE RInv
  OBVIOUS
<1>1. \A p \in Procs : DeleteInv(p)
  BY DEF Init, DeleteInv
<1>2. DirInv
  BY DEF Init, DirInv
<1> QED  BY <1>1, <1>2, InitInv DEF RInv

\* A return leaves nothing to delete, and the other calls as they are.
LEMMA ReturnDeletes ==
  ASSUME TypeOK, \A q \in Procs : DeleteInv(q), NEW p \in Procs, NEW r, Return(p, r)
  PROVE  \A q \in Procs : DeleteInv(q)'
BY DEF Return, TypeOK, DeleteInv

\* DeleteAll of an object has that object to remove.
LEMMA UnderKey == \A x \in Keys : Under[x] = {x}
BY DisjointAssumption DEF Under

\* The steps of the operations keep what deletions and directories rely on.
LEMMA RNext == RInv /\ [Next]_vars => RInv'
<1> SUFFICES ASSUME RInv, [Next]_vars
             PROVE  (\A q \in Procs : DeleteInv(q)') /\ DirInv'
  BY NextInv DEF RInv
<1> USE DisjointAssumption DEF fsVars, copyVars, delVars, RInv, Inv
<1>1. ASSUME NEW p \in Procs, PutObject(p) PROVE (\A q \in Procs : DeleteInv(q)') /\ DirInv'
  <2>1. \A q \in Procs : DeleteInv(q)'
    BY <1>1 DEF PutObject, Begin, TypeOK, CallInv, DeleteInv
  <2>2. DirInv'
    BY <1>1 DEF PutObject, Begin, TypeOK, DirInv
  <2> QED  BY <2>1, <2>2
<1>2. ASSUME NEW p \in Procs, MkdirAll(p) PROVE (\A q \in Procs : DeleteInv(q)') /\ DirInv'
  <2>1. \A q \in Procs : DeleteInv(q)'
    BY <1>2 DEF MkdirAll, Goto, TypeOK, CallInv, DeleteInv
  <2>2. DirInv'
    BY <1>2, DirOfAssumption DEF MkdirAll, Goto, TypeOK, DirInv, CallInv, DeleteInv
  <2> QED  BY <2>1, <2>2
<1>3. ASSUME NEW p \in Procs, TempFile(p) PROVE (\A q \in Procs : DeleteInv(q)') /\ DirInv'
  <2>1. \A q \in Procs : DeleteInv(q)'
    BY <1>3 DEF TempFile, Goto, TypeOK, CallInv, DeleteInv
  <2>2. DirInv'
    BY <1>3, DirOfAssumption DEF TempFile, Goto, TypeOK, DirInv, CallInv, DeleteInv
  <2> QED  BY <2>1, <2>2
<1>4. ASSUME NEW p \in Procs, PutWrite(p) PROVE (\A q \in Procs : DeleteInv(q)') /\ DirInv'
  <2>1. \A q \in Procs : DeleteInv(q)'
    BY <1>4 DEF PutWrite, TypeOK, CallInv, DeleteInv
  <2>2. DirInv'
    BY <1>4 DEF PutWrite, TypeOK, DirInv
  <2> QED  BY <2>1, <2>2
<1>5. ASSUME NEW p \in Procs, PutClose(p) PROVE (\A q \in Procs : DeleteInv(q)') /\ DirInv'
  <2>1. \A q \in Procs : DeleteInv(q)'
    BY <1>5 DEF PutClose, Goto, TypeOK, CallInv, DeleteInv
  <2>2. DirInv'
    BY <1>5 DEF PutClose, Goto, TypeOK, DirInv
  <2> QED  BY <2>1, <2>2
<1>6. ASSUME NEW p \in Procs, PutFail(p) PROVE (\A q \in Procs : DeleteInv(q)') /\ DirInv'
  <2>1. \A q \in Procs : DeleteInv(q)'
    BY <1>6 DEF PutFail, Goto, TypeOK, CallInv, DeleteInv
  <2>2. DirInv'
    BY <1>6 DEF PutFail, Goto, TypeOK, DirInv
  <2> QED  BY <2>1, <2>2
<1>7. ASSUME NEW p \in Procs, Rename(p) PROVE (\A q \in Procs : DeleteInv(q)') /\ DirInv'
  <2>1. \A q \in Procs : DeleteInv(q)'
    BY <1>7 DEF Rename, Return, TypeOK, CallInv, DeleteInv
  <2>2. DirInv'
    BY <1>7, DirOfAssumption DEF Rename, Return, TypeOK, DirInv, CallInv, DeleteInv
  <2> QED  BY <2>1, <2>2
<1>8. ASSUME NEW p \in Procs, RenameFail(p) PROVE (\A q \in Procs : DeleteInv(q)') /\ DirInv'
  <2>1. \A q \in Procs : DeleteInv(q)'
    BY <1>8 DEF RenameFail, Goto, TypeOK, CallInv, DeleteInv
  <2>2. DirInv'
    BY <1>8 DEF RenameFail, Goto, TypeOK, DirInv
  <2> QED  BY <2>1, <2>2
<1>9. ASSUME NEW p \in Procs, RemoveQuietly(p) PROVE (\A q \in Procs : DeleteInv(q)') /\ DirInv'
  <2>1. \A q \in Procs : DeleteInv(q)'
    BY <1>9 DEF RemoveQuietly, Return, TypeOK, CallInv, DeleteInv
  <2>2. DirInv'
    BY <1>9 DEF RemoveQuietly, Return, TypeOK, DirInv, CallInv
  <2> QED  BY <2>1, <2>2
<1>10. ASSUME NEW p \in Procs, RemoveQuietlyFail(p)
       PROVE (\A q \in Procs : DeleteInv(q)') /\ DirInv'
  <2>1. \A q \in Procs : DeleteInv(q)'
    BY <1>10 DEF RemoveQuietlyFail, Return, TypeOK, CallInv, DeleteInv
  <2>2. DirInv'
    BY <1>10 DEF RemoveQuietlyFail, Return, TypeOK, DirInv
  <2> QED  BY <2>1, <2>2
<1>11. ASSUME NEW p \in Procs, Copy(p) PROVE (\A q \in Procs : DeleteInv(q)') /\ DirInv'
  <2>1. \A q \in Procs : DeleteInv(q)'
    BY <1>11 DEF Copy, Begin, TypeOK, CallInv, DeleteInv
  <2>2. DirInv'
    BY <1>11 DEF Copy, Begin, TypeOK, DirInv
  <2> QED  BY <2>1, <2>2
<1>12. ASSUME NEW p \in Procs, CopyStat(p) PROVE (\A q \in Procs : DeleteInv(q)') /\ DirInv'
  <2>1. \A q \in Procs : DeleteInv(q)'
    <3>1. CASE Look(p, "copy_same")
      BY <1>12, <3>1 DEF CopyStat, Look, TypeOK, CallInv, DeleteInv
    <3> QED  BY <1>12, <3>1, ReturnDeletes DEF CopyStat
  <2>2. DirInv'
    BY <1>12 DEF CopyStat, Look, Return, TypeOK, DirInv
  <2> QED  BY <2>1, <2>2
<1>13. ASSUME NEW p \in Procs, CopySame(p) PROVE (\A q \in Procs : DeleteInv(q)') /\ DirInv'
  <2>1. \A q \in Procs : DeleteInv(q)'
    <3>1. CASE Goto(p, "copy_open") /\ UNCHANGED <<tmp, in, out, writer, delVars>>
      BY <1>13, <3>1 DEF CopySame, Goto, TypeOK, CallInv, DeleteInv
    <3> QED  BY <1>13, <3>1, ReturnDeletes DEF CopySame
  <2>2. DirInv'
    BY <1>13 DEF CopySame, Goto, Return, TypeOK, DirInv
  <2> QED  BY <2>1, <2>2
<1>14. ASSUME NEW p \in Procs, CopyOpen(p) PROVE (\A q \in Procs : DeleteInv(q)') /\ DirInv'
  <2>1. \A q \in Procs : DeleteInv(q)'
    <3>1. CASE Look(p, "copy_mkdir")
      BY <1>14, <3>1 DEF CopyOpen, Look, TypeOK, CallInv, DeleteInv
    <3> QED  BY <1>14, <3>1, ReturnDeletes DEF CopyOpen
  <2>2. DirInv'
    BY <1>14 DEF CopyOpen, Look, Return, TypeOK, DirInv
  <2> QED  BY <2>1, <2>2
<1>15. ASSUME NEW p \in Procs, CopyPiece(p) PROVE (\A q \in Procs : DeleteInv(q)') /\ DirInv'
  <2>1. \A q \in Procs : DeleteInv(q)'
    BY <1>15 DEF CopyPiece, TypeOK, CallInv, DeleteInv
  <2>2. DirInv'
    BY <1>15 DEF CopyPiece, TypeOK, DirInv
  <2> QED  BY <2>1, <2>2
<1>16. ASSUME NEW p \in Procs, CopyDone(p) PROVE (\A q \in Procs : DeleteInv(q)') /\ DirInv'
  <2>1. \A q \in Procs : DeleteInv(q)'
    BY <1>16 DEF CopyDone, TypeOK, CallInv, DeleteInv
  <2>2. DirInv'
    BY <1>16 DEF CopyDone, TypeOK, DirInv
  <2> QED  BY <2>1, <2>2
<1>17. ASSUME NEW p \in Procs, FillDone(p) PROVE (\A q \in Procs : DeleteInv(q)') /\ DirInv'
  <2>1. \A q \in Procs : DeleteInv(q)'
    BY <1>17 DEF FillDone, Goto, TypeOK, CallInv, DeleteInv
  <2>2. DirInv'
    BY <1>17 DEF FillDone, Goto, TypeOK, DirInv
  <2> QED  BY <2>1, <2>2
<1>18. ASSUME NEW p \in Procs, FillCancel(p) PROVE (\A q \in Procs : DeleteInv(q)') /\ DirInv'
  <2>1. \A q \in Procs : DeleteInv(q)'
    BY <1>18 DEF FillCancel, Goto, TypeOK, CallInv, DeleteInv
  <2>2. DirInv'
    BY <1>18 DEF FillCancel, Goto, TypeOK, DirInv
  <2> QED  BY <2>1, <2>2
<1>19. ASSUME NEW p \in Procs, DrainDone(p) PROVE (\A q \in Procs : DeleteInv(q)') /\ DirInv'
  <2>1. \A q \in Procs : DeleteInv(q)'
    BY <1>19 DEF DrainDone, Goto, TypeOK, CallInv, DeleteInv
  <2>2. DirInv'
    BY <1>19 DEF DrainDone, Goto, TypeOK, DirInv
  <2> QED  BY <2>1, <2>2
<1>20. ASSUME NEW p \in Procs, GetObject(p) PROVE (\A q \in Procs : DeleteInv(q)') /\ DirInv'
  <2>1. \A q \in Procs : DeleteInv(q)'
    BY <1>20 DEF GetObject, Begin, TypeOK, CallInv, DeleteInv
  <2>2. DirInv'
    BY <1>20 DEF GetObject, Begin, TypeOK, DirInv
  <2> QED  BY <2>1, <2>2
<1>21. ASSUME NEW p \in Procs, GetOpen(p) PROVE (\A q \in Procs : DeleteInv(q)') /\ DirInv'
  <2>1. \A q \in Procs : DeleteInv(q)'
    <3>1. CASE Look(p, "get_read")
      BY <1>21, <3>1 DEF GetOpen, Look, TypeOK, CallInv, DeleteInv
    <3> QED  BY <1>21, <3>1, ReturnDeletes DEF GetOpen
  <2>2. DirInv'
    BY <1>21 DEF GetOpen, Look, Return, TypeOK, DirInv
  <2> QED  BY <2>1, <2>2
<1>22. ASSUME NEW p \in Procs, GetClose(p) PROVE (\A q \in Procs : DeleteInv(q)') /\ DirInv'
  <2>1. \A q \in Procs : DeleteInv(q)'
    BY <1>22 DEF GetClose, Return, TypeOK, CallInv, DeleteInv
  <2>2. DirInv'
    BY <1>22 DEF GetClose, Return, TypeOK, DirInv
  <2> QED  BY <2>1, <2>2
<1>23. ASSUME NEW p \in Procs, Delete(p) PROVE (\A q \in Procs : DeleteInv(q)') /\ DirInv'
  <2>1. \A q \in Procs : DeleteInv(q)'
    BY <1>23 DEF Delete, Begin, TypeOK, CallInv, DeleteInv
  <2>2. DirInv'
    BY <1>23 DEF Delete, Begin, TypeOK, DirInv
  <2> QED  BY <2>1, <2>2
<1>24. ASSUME NEW p \in Procs, DeleteCheck(p) PROVE (\A q \in Procs : DeleteInv(q)') /\ DirInv'
  <2>1. \A q \in Procs : DeleteInv(q)'
    <3>1. PICK x \in todo[p] :
            /\ todo' = [todo EXCEPT ![p] = @ \ {x}]
            /\ missing' = [missing EXCEPT ![p] = IF IsFile(x) THEN @ ELSE @ \cup {x}]
      BY <1>24 DEF DeleteCheck
    <3>2. DeleteInv(p)'
      <4>1. todo'[p] = todo[p] \ {x} /\ todo'[p] \subseteq paths[p]
        BY <1>24, <3>1 DEF DeleteCheck, TypeOK, DeleteInv
      <4>2. paths[p] \subseteq Keys \cup todo'[p] \cup missing'[p]
        BY <1>24, <3>1, <4>1 DEF DeleteCheck, IsFile, TypeOK, DeleteInv
      <4> QED  BY <1>24, <4>1, <4>2 DEF DeleteCheck, DeleteInv
    <3>3. \A q \in Procs : q # p => DeleteInv(q)'
      BY <1>24, <3>1 DEF DeleteCheck, TypeOK, DeleteInv
    <3> QED  BY <3>2, <3>3
  <2>2. DirInv'
    BY <1>24 DEF DeleteCheck, IsFile, TypeOK, DirInv
  <2> QED  BY <2>1, <2>2
<1>25. ASSUME NEW p \in Procs, DeleteDecide(p) PROVE (\A q \in Procs : DeleteInv(q)') /\ DirInv'
  <2>1. \A q \in Procs : DeleteInv(q)'
    <3>1. CASE /\ Goto(p, "unlink") /\ missing[p] = {} /\ todo' = [todo EXCEPT ![p] = paths[p]]
               /\ UNCHANGED <<tmp, in, out, writer, paths, missing, dirty>>
      <4>1. paths[p] \subseteq Keys /\ op[p] = "delete" /\ from[p] = None
        BY <1>25, <3>1 DEF DeleteDecide, TypeOK, DeleteInv
      <4> QED  BY <1>25, <3>1, <4>1 DEF DeleteDecide, Goto, TypeOK, DeleteInv
    <3> QED  BY <1>25, <3>1, ReturnDeletes DEF DeleteDecide
  <2>2. DirInv'
    BY <1>25 DEF DeleteDecide, Goto, Return, TypeOK, DirInv
  <2> QED  BY <2>1, <2>2
<1>26. ASSUME NEW p \in Procs, DeleteUnlink(p) PROVE (\A q \in Procs : DeleteInv(q)') /\ DirInv'
  <2>1. \A q \in Procs : DeleteInv(q)'
    <3>1. PICK x \in todo[p] : todo' = [todo EXCEPT ![p] = @ \ {x}]
      BY <1>26 DEF DeleteUnlink
    <3>2. DeleteInv(p)'
      BY <1>26, <3>1 DEF DeleteUnlink, TypeOK, DeleteInv
    <3>3. \A q \in Procs : q # p => DeleteInv(q)'
      BY <1>26, <3>1 DEF DeleteUnlink, TypeOK, DeleteInv
    <3> QED  BY <3>2, <3>3
  <2>2. DirInv'
    BY <1>26 DEF DeleteUnlink, TypeOK, DirInv, CallInv, DeleteInv
  <2> QED  BY <2>1, <2>2
<1>27. ASSUME NEW p \in Procs, DeleteDone(p) PROVE (\A q \in Procs : DeleteInv(q)') /\ DirInv'
  <2>1. \A q \in Procs : DeleteInv(q)'
    BY <1>27 DEF DeleteDone, Return, TypeOK, CallInv, DeleteInv
  <2>2. DirInv'
    BY <1>27 DEF DeleteDone, Return, TypeOK, DirInv
  <2> QED  BY <2>1, <2>2
<1>28. ASSUME NEW p \in Procs, DeleteAll(p) PROVE (\A q \in Procs : DeleteInv(q)') /\ DirInv'
  <2>1. \A q \in Procs : DeleteInv(q)'
    <3>1. PICK x \in Paths : Begin(p, "deleteall", "all_stat", x, None, None, Under[x])
      BY <1>28 DEF DeleteAll
    <3>2. DeleteInv(p)'
      <4>1. pc'[p] = "all_stat" /\ op'[p] = "deleteall" /\ from'[p] = x /\ todo'[p] = Under[x]
        BY <3>1 DEF Begin, TypeOK
      <4>2. missing'[p] = {} /\ dirty'[p] = FALSE /\ body'[p] = None
        BY <3>1 DEF Begin, TypeOK, DeleteInv
      <4> QED  BY <4>1, <4>2, UnderKey DEF DeleteInv
    <3>3. \A q \in Procs : q # p => DeleteInv(q)'
      BY <3>1 DEF Begin, TypeOK, DeleteInv
    <3> QED  BY <3>2, <3>3
  <2>2. DirInv'
    BY <1>28 DEF DeleteAll, Begin, TypeOK, DirInv
  <2> QED  BY <2>1, <2>2
<1>29. ASSUME NEW p \in Procs, AllStat(p) PROVE (\A q \in Procs : DeleteInv(q)') /\ DirInv'
  <2>1. \A q \in Procs : DeleteInv(q)'
    <3>1. CASE ~Return(p, "missing")
      <4>1. /\ pc[p] = "all_stat" /\ pc' = [pc EXCEPT ![p] = "all_unlink"] /\ Met(p)
            /\ IsFile(from[p]) \/ from[p] \in dirs
            /\ UNCHANGED <<op, from, to, res, tmp, in, out, writer, delVars, fsVars, orphans>>
        BY <1>29, <3>1 DEF AllStat
      <4>2. /\ \E v \in Values \cup {None} : body' = [body EXCEPT ![p] = v]
            /\ from[p] \in Keys /\ IsFile(from[p]) => body'[p] # None
        BY <4>1, MetInv DEF Inv, CallInv
      <4>3. from[p] \in Keys => body'[p] # None
        BY <4>1, <4>2, DisjointAssumption DEF TypeOK
      <4>4. \A q \in Procs : body'[q] = body[q] \/ q = p
        BY <4>2 DEF TypeOK
      <4> QED  BY <4>1, <4>3, <4>4 DEF TypeOK, CallInv, DeleteInv, delVars
    <3> QED  BY <1>29, <3>1, ReturnDeletes DEF AllStat
  <2>2. DirInv'
    BY <1>29 DEF AllStat, Return, TypeOK, DirInv
  <2> QED  BY <2>1, <2>2
<1>30. ASSUME NEW p \in Procs, AllUnlink(p) PROVE (\A q \in Procs : DeleteInv(q)') /\ DirInv'
  <2>1. \A q \in Procs : DeleteInv(q)'
    <3>1. PICK n \in Tree(from[p]) :
            /\ todo' = [todo EXCEPT ![p] = IF from[p] \in Dirs THEN @ ELSE @ \ {n}]
            /\ dirty' = [dirty EXCEPT ![p] = dirty[p] \/ n \in Keys]
      BY <1>30 DEF AllUnlink
    <3>2. DeleteInv(p)'
      <4>1. CASE from[p] \in Dirs
        BY <1>30, <3>1, <4>1 DEF AllUnlink, TypeOK, DeleteInv
      <4>2. CASE from[p] \in Keys
        <5>1. n = from[p] /\ todo[p] = {from[p]}
          BY <1>30, <3>1, <4>2 DEF AllUnlink, Tree, TypeOK, DeleteInv
        <5>2. todo'[p] = {} /\ dirty'[p] = TRUE
          <6>1. todo'[p] = {}
            BY <3>1, <4>2, <5>1 DEF TypeOK
          <6>2. dirty'[p] = (dirty[p] \/ n \in Keys)
            BY <3>1, Zenon DEF TypeOK
          <6>3. (dirty[p] \/ n \in Keys) = TRUE
            BY <4>2, <5>1
          <6> QED  BY <6>1, <6>2, <6>3
        <5> QED  BY <1>30, <4>2, <5>2 DEF AllUnlink, TypeOK, DeleteInv
      <4> QED  BY <1>30, <4>1, <4>2 DEF AllUnlink, CallInv
    <3>3. \A q \in Procs : q # p => DeleteInv(q)'
      BY <1>30, <3>1 DEF AllUnlink, TypeOK, DeleteInv
    <3> QED  BY <3>2, <3>3
  <2>2. DirInv'
    BY <1>30 DEF AllUnlink, Tree, TypeOK, DirInv, CallInv
  <2> QED  BY <2>1, <2>2
<1>31. ASSUME NEW p \in Procs, AllDone(p) PROVE (\A q \in Procs : DeleteInv(q)') /\ DirInv'
  <2>1. \A q \in Procs : DeleteInv(q)'
    BY <1>31 DEF AllDone, Tree, Return, TypeOK, CallInv, DeleteInv
  <2>2. DirInv'
    BY <1>31, DirOfAssumption DEF AllDone, Tree, Return, TypeOK, DirInv, CallInv
  <2> QED  BY <2>1, <2>2
<1>32. ASSUME NEW p \in Procs, Fail(p) PROVE (\A q \in Procs : DeleteInv(q)') /\ DirInv'
  <2>1. \A q \in Procs : DeleteInv(q)'
    BY <1>32 DEF Fail, Return, TypeOK, CallInv, DeleteInv
  <2>2. DirInv'
    BY <1>32 DEF Fail, Return, TypeOK, DirInv
  <2> QED  BY <2>1, <2>2
<1>33. ASSUME NEW p \in Procs, Kill(p) PROVE (\A q \in Procs : DeleteInv(q)') /\ DirInv'
  <2>1. \A q \in Procs : DeleteInv(q)'
    BY <1>33 DEF Kill, Return, TypeOK, CallInv, DeleteInv
  <2>2. DirInv'
    BY <1>33 DEF Kill, Return, TypeOK, DirInv
  <2> QED  BY <2>1, <2>2
<1>34. CASE UNCHANGED vars
  BY <1>34 DEF vars, DeleteInv, DirInv
<1> QED
  BY <1>1, <1>2, <1>3, <1>4, <1>5, <1>6, <1>7, <1>8, <1>9, <1>10, <1>11,
    <1>12, <1>13, <1>14, <1>15, <1>16, <1>17, <1>18, <1>19, <1>20, <1>21,
    <1>22, <1>23, <1>24, <1>25, <1>26, <1>27, <1>28, <1>29, <1>30, <1>31,
    <1>32, <1>33, <1>34 DEF Next, Step

-----------------------------------------------------------------------------
\* The objects of the contract are the files the keys name.
LEMMA ObjectsStored ==
  ASSUME Inv
  PROVE  /\ \A k \in Keys : entry[k] = None <=> StoredObj[k] = None
         /\ \A k \in Keys : entry[k] # None =>
              /\ StoredObj[k] = Content(data[entry[k]])
              /\ data[entry[k]] = Full(StoredObj[k])
         /\ \A x : Store!Holds(x) <=> IsFile(x)
<1>1. \A k \in Keys : entry[k] # None =>
        /\ StoredObj[k] = Content(data[entry[k]])
        /\ StoredObj[k] \in Values /\ data[entry[k]] = Full(StoredObj[k])
  BY WholeIsFull DEF Inv, WholeObjects, StoredObj
<1>2. \A k \in Keys : entry[k] = None <=> StoredObj[k] = None
  BY <1>1, DisjointAssumption DEF StoredObj
<1> QED  BY <1>1, <1>2 DEF Store!Holds, IsFile

\* A step that leaves the entries of the keys alone leaves the objects alone.
LEMMA ObjectsStay ==
  ASSUME Inv, NEW p \in Procs, Step(p), \A k \in Keys : entry'[k] = entry[k]
  PROVE  StoredObj' = StoredObj
<1>1. \A k \in Keys : entry[k] # None => data'[entry[k]] = data[entry[k]]
  BY WritesAreInvisible DEF Inv, TypeOK
<1> QED  BY <1>1 DEF StoredObj

\* A call begins.
LEMMA BeginMaps ==
  ASSUME Inv, NEW p \in Procs, NEW o, NEW at, NEW s, NEW d, NEW v, NEW set,
         Begin(p, o, at, s, d, v, set)
  PROVE  Store!Begin(p, o, s, d, v, set)
<1>1. StoredObj' = StoredObj
  BY DEF Begin, fsVars, StoredObj
<1>2. StoredTodo' = [StoredTodo EXCEPT ![p] = set]
  BY DEF Begin, Inv, TypeOK, StoredTodo
<1> QED  BY <1>1, <1>2 DEF Begin, Inv, CallInv, Store!Begin

\* A call returns.
LEMMA ReturnMaps ==
  ASSUME Inv, NEW p \in Procs, NEW r, Return(p, r)
  PROVE  Store!Return(p, r)
<1>1. StoredTodo' = [StoredTodo EXCEPT ![p] = {}]
  BY DEF Return, Inv, TypeOK, StoredTodo
<1> QED  BY <1>1 DEF Return, Store!Return

\* A call moves on without a change that the contract can see.
LEMMA Stutters ==
  ASSUME Inv, NEW p \in Procs, Step(p), NEW at, pc[p] # "check", at # "check",
         pc' = pc \/ pc' = [pc EXCEPT ![p] = at],
         \A k \in Keys : entry'[k] = entry[k],
         UNCHANGED <<op, from, to, body, todo, paths, missing, dirty, res>>
  PROVE  UNCHANGED Store!vars
<1>1. StoredObj' = StoredObj
  BY ObjectsStay
<1>2. StoredTodo' = StoredTodo
  BY DEF Inv, TypeOK, StoredTodo
<1> QED  BY <1>1, <1>2 DEF Store!vars

\* Stat and Open take the value the source has then.
LEMMA LookMaps ==
  ASSUME Inv, NEW p \in Procs, IsFile(from[p]), op[p] \in {"copy", "get"}, pc[p] # "check",
         NEW at, at # "check", Look(p, at), UNCHANGED fsVars
  PROVE  Store!Capture(p)
<1> USE DEF Look, delVars, fsVars
<1>1. StoredObj' = StoredObj
  BY DEF StoredObj
<1>2. StoredTodo' = StoredTodo
  BY DEF Inv, TypeOK, StoredTodo
<1>3. Store!Holds(from[p]) /\ StoredObj[from[p]] = Content(data[entry[from[p]]])
  BY ObjectsStored DEF IsFile
<1> QED  BY <1>1, <1>2, <1>3 DEF Store!Capture

\* DeleteAll meets an object, or a directory without one.
LEMMA MetMaps ==
  ASSUME Inv, NEW p \in Procs, op[p] = "deleteall", pc[p] = "all_stat", todo[p] = Under[from[p]],
         from[p] \in Paths, pc' = [pc EXCEPT ![p] = "all_unlink"], Met(p),
         UNCHANGED <<op, from, to, res, tmp, in, out, writer, delVars, fsVars, orphans>>
  PROVE  Store!Find(p) \/ UNCHANGED Store!vars
<1> USE DEF delVars, fsVars
<1>1. StoredObj' = StoredObj
  BY DEF StoredObj
<1>2. StoredTodo' = StoredTodo /\ StoredTodo[p] = Under[from[p]]
  BY DEF Inv, TypeOK, StoredTodo
<1>3. CASE UNCHANGED body
  BY <1>1, <1>2, <1>3 DEF Store!vars
<1>4. CASE \E k \in Under[from[p]] :
         IsFile(k) /\ body' = [body EXCEPT ![p] = Content(data[entry[k]])]
  <2>1. PICK k \in Under[from[p]] :
          IsFile(k) /\ body' = [body EXCEPT ![p] = Content(data[entry[k]])]
    BY <1>4
  <2>2. Store!Holds(k) /\ StoredObj[k] = Content(data[entry[k]])
    BY <2>1, ObjectsStored DEF IsFile
  <2>3. Store!Find(p)
    BY <1>1, <1>2, <2>1, <2>2 DEF Store!Find
  <2> QED  BY <2>3
<1> QED  BY <1>3, <1>4 DEF Met

\* A source that is not there.
LEMMA MissingMaps ==
  ASSUME Inv, NEW p \in Procs, ~IsFile(from[p]), op[p] \in {"copy", "get"},
         Return(p, "missing"), UNCHANGED fsVars
  PROVE  Store!Missing(p)
<1>1. StoredObj' = StoredObj
  BY DEF StoredObj, fsVars
<1>2. ~Store!Holds(from[p])
  BY ObjectsStored
<1> QED  BY <1>1, <1>2, ReturnMaps DEF Store!Missing

\* Every step of the backend is a step of the contract, or no step at all.
LEMMA StepMaps ==
  ASSUME RInv, NEW p \in Procs, Step(p)
  PROVE  Store!Step(p) \/ UNCHANGED Store!vars
<1> USE DisjointAssumption DEF RInv, fsVars, copyVars, delVars
<1>1. CASE PutObject(p)
  <2>1. PICK k \in Keys, v \in Values : Begin(p, "put", "put_mkdir", None, k, v, {})
    BY <1>1 DEF PutObject
  <2>2. Store!BeginPut(p)
    BY <2>1, BeginMaps DEF Store!BeginPut, Store!Paths
  <2> QED  BY <2>2 DEF Store!Step
<1>2. CASE MkdirAll(p)
  BY <1>2, Stutters DEF MkdirAll, Goto, Inv, TypeOK, CallInv
<1>3. CASE TempFile(p)
  <2>1. \A k \in Keys : entry'[k] = entry[k]
    BY <1>3 DEF TempFile, Inv, TypeOK
  <2> QED  BY <1>3, <2>1, Stutters DEF TempFile, Goto, Inv
<1>4. CASE PutWrite(p)
  BY <1>4, Stutters DEF PutWrite, Inv, TypeOK, CallInv
<1>5. CASE PutClose(p)
  BY <1>5, Stutters DEF PutClose, Goto, Inv, TypeOK, CallInv
<1>6. CASE PutFail(p)
  BY <1>6, Stutters DEF PutFail, Goto, Inv, TypeOK, CallInv
<1>7. CASE Rename(p)
  <2>1. /\ tmp[p] \in Temps /\ to[p] \in Keys /\ op[p] \in {"put", "copy"}
        /\ body[p] \in Values /\ data[entry[tmp[p]]] = Full(body[p])
    BY <1>7 DEF Rename, Inv, TypeOK, CallInv, ContentInv, DeleteInv
  <2>2. Content(data'[entry'[to[p]]]) = body[p] /\ entry'[to[p]] # None
    BY <1>7, <2>1, FullIsWhole DEF Rename, Inv, TypeOK
  <2>3. \A k \in Keys : k # to[p] => entry'[k] = entry[k] /\ data' = data
    BY <1>7, <2>1 DEF Rename, Inv, TypeOK
  <2>4. StoredObj' = [StoredObj EXCEPT ![to[p]] = body[p]]
    BY <2>1, <2>2, <2>3 DEF StoredObj
  <2>5. Store!Install(p)
    BY <1>7, <2>1, <2>4, ReturnMaps DEF Rename, Inv, Store!Install
  <2> QED  BY <2>5 DEF Store!Step
<1>8. CASE RenameFail(p)
  BY <1>8, Stutters DEF RenameFail, Goto, Inv, TypeOK, CallInv
<1>9. CASE RemoveQuietly(p)
  <2>1. StoredObj' = StoredObj
    BY <1>9 DEF RemoveQuietly, StoredObj, Inv, TypeOK, CallInv
  <2>2. op[p] # "none"
    BY <1>9 DEF RemoveQuietly, Inv, CallInv
  <2>3. Store!Fail(p)
    BY <1>9, <2>1, <2>2, ReturnMaps DEF RemoveQuietly, Store!Fail
  <2> QED  BY <2>3 DEF Store!Step
<1>10. CASE RemoveQuietlyFail(p)
  <2>1. StoredObj' = StoredObj
    BY <1>10 DEF RemoveQuietlyFail, StoredObj
  <2>2. op[p] # "none"
    BY <1>10 DEF RemoveQuietlyFail, Inv, CallInv
  <2>3. Store!Fail(p)
    BY <1>10, <2>1, <2>2, ReturnMaps DEF RemoveQuietlyFail, Store!Fail
  <2> QED  BY <2>3 DEF Store!Step
<1>11. CASE Copy(p)
  <2>1. PICK s \in Paths, d \in Keys : Begin(p, "copy", "copy_stat", s, d, None, {})
    BY <1>11 DEF Copy
  <2>2. Store!BeginCopy(p)
    BY <2>1, BeginMaps DEF Store!BeginCopy, Store!Paths
  <2> QED  BY <2>2 DEF Store!Step
<1>12. CASE CopyStat(p)
  <2>1. op[p] \in {"copy", "get"} /\ pc[p] # "check"
    BY <1>12 DEF CopyStat, Inv, CallInv, DeleteInv
  <2> QED  BY <1>12, <2>1, LookMaps, MissingMaps DEF CopyStat, Store!Step, Inv
<1>13. CASE CopySame(p)
  <2>1. CASE Return(p, "ok") /\ SameFile(p)
    <3>1. /\ op[p] = "copy" /\ to[p] \in Keys /\ in[p] # None /\ body[p] \in Values
          /\ data[in[p]] = Full(body[p]) /\ StoredObj' = StoredObj
      BY <1>13 DEF CopySame, Inv, TypeOK, CallInv, ContentInv, StoredObj
    <3>2. CASE from[p] = to[p]
      <4>1. Store!InstallSelf(p)
        BY <2>1, <3>1, <3>2, ReturnMaps DEF Store!InstallSelf
      <4> QED  BY <4>1 DEF Store!Step
    <3>3. CASE entry[to[p]] = in[p]
      <4>1. StoredObj[to[p]] = body[p]
        BY <3>1, <3>3, ObjectsStored, FullIsWhole
      <4>2. StoredObj' = [StoredObj EXCEPT ![to[p]] = body[p]]
        BY <3>1, <4>1 DEF StoredObj
      <4>3. Store!Install(p)
        BY <2>1, <3>1, <4>2, ReturnMaps DEF Store!Install
      <4> QED  BY <4>3 DEF Store!Step
    <3> QED  BY <2>1, <3>2, <3>3 DEF SameFile
  <2>2. CASE Goto(p, "copy_open") /\ UNCHANGED <<tmp, in, out, writer, delVars>>
    BY <1>13, <2>2, Stutters DEF CopySame, Goto, Inv
  <2> QED  BY <1>13, <2>1, <2>2 DEF CopySame
<1>14. CASE CopyOpen(p)
  <2>1. op[p] \in {"copy", "get"} /\ pc[p] # "check"
    BY <1>14 DEF CopyOpen, Inv, CallInv, DeleteInv
  <2> QED  BY <1>14, <2>1, LookMaps, MissingMaps DEF CopyOpen, Store!Step, Inv
<1>15. CASE CopyPiece(p)
  BY <1>15, Stutters DEF CopyPiece, Inv, TypeOK, CallInv
<1>16. CASE CopyDone(p)
  BY <1>16, Stutters DEF CopyDone, Inv, TypeOK, CallInv
<1>17. CASE FillDone(p)
  BY <1>17, Stutters, ZenonT(90) DEF FillDone, Goto, Inv, TypeOK, CallInv
<1>18. CASE FillCancel(p)
  BY <1>18, Stutters DEF FillCancel, Goto, Inv, TypeOK, CallInv
<1>19. CASE DrainDone(p)
  BY <1>19, Stutters DEF DrainDone, Goto, Inv, TypeOK, CallInv
<1>20. CASE GetObject(p)
  <2>1. PICK k \in Keys : Begin(p, "get", "get_open", k, None, None, {})
    BY <1>20 DEF GetObject
  <2>2. Store!BeginGet(p)
    BY <2>1, BeginMaps DEF Store!BeginGet, Store!Paths
  <2> QED  BY <2>2 DEF Store!Step
<1>21. CASE GetOpen(p)
  <2>1. op[p] \in {"copy", "get"} /\ pc[p] # "check"
    BY <1>21 DEF GetOpen, Inv, CallInv, DeleteInv
  <2> QED  BY <1>21, <2>1, LookMaps, MissingMaps DEF GetOpen, Store!Step, Inv
<1>22. CASE GetClose(p)
  <2>1. op[p] = "get" /\ body[p] \in Values /\ StoredObj' = StoredObj
    BY <1>22 DEF GetClose, Inv, CallInv, ContentInv, DeleteInv, StoredObj
  <2>2. Store!EndGet(p)
    BY <1>22, <2>1, ReturnMaps DEF GetClose, Store!EndGet
  <2> QED  BY <2>2 DEF Store!Step
<1>23. CASE Delete(p)
  <2>1. PICK s \in SUBSET Paths : Begin(p, "delete", "check", None, None, None, s)
    BY <1>23 DEF Delete
  <2>2. Store!BeginDelete(p)
    BY <2>1, BeginMaps DEF Store!BeginDelete, Store!Paths
  <2> QED  BY <2>2 DEF Store!Step
<1>24. CASE DeleteCheck(p)
  <2>1. PICK x \in todo[p] :
          missing' = [missing EXCEPT ![p] = IF IsFile(x) THEN @ ELSE @ \cup {x}]
    BY <1>24 DEF DeleteCheck
  <2>2. StoredObj' = StoredObj /\ StoredTodo' = StoredTodo
    BY <1>24 DEF DeleteCheck, Inv, TypeOK, StoredObj, StoredTodo
  <2>3. op[p] = "delete" /\ dirty[p] = FALSE /\ x \in StoredTodo[p]
    BY <1>24, <2>1 DEF DeleteCheck, DeleteInv, StoredTodo
  <2>4. CASE IsFile(x)
    <3>1. missing' = missing
      BY <2>1, <2>4 DEF Inv, TypeOK
    <3> QED  BY <1>24, <2>2, <3>1 DEF DeleteCheck, Store!vars
  <2>5. CASE ~IsFile(x)
    <3>1. ~Store!Holds(x) /\ missing' = [missing EXCEPT ![p] = @ \cup {x}]
      BY <2>1, <2>5, ObjectsStored
    <3>2. Store!Notice(p)
      BY <1>24, <2>2, <2>3, <3>1 DEF DeleteCheck, Store!Notice
    <3> QED  BY <3>2 DEF Store!Step
  <2> QED  BY <2>4, <2>5
<1>25. CASE DeleteDecide(p)
  <2>1. StoredObj' = StoredObj /\ op[p] = "delete" /\ dirty[p] = FALSE
    BY <1>25 DEF DeleteDecide, DeleteInv, StoredObj
  <2>2. CASE missing[p] # {} /\ Return(p, "missing")
    <3>1. Store!Missing(p)
      BY <2>1, <2>2, ReturnMaps DEF Store!Missing
    <3> QED  BY <3>1 DEF Store!Step
  <2>3. CASE /\ Goto(p, "unlink") /\ todo' = [todo EXCEPT ![p] = paths[p]]
             /\ UNCHANGED <<tmp, in, out, writer, paths, missing, dirty>>
    <3>1. StoredTodo' = StoredTodo
      BY <1>25, <2>3 DEF DeleteDecide, Goto, Inv, TypeOK, StoredTodo
    <3> QED  BY <2>1, <2>3, <3>1 DEF Goto, Store!vars
  <2> QED  BY <1>25, <2>2, <2>3 DEF DeleteDecide
<1>26. CASE DeleteUnlink(p)
  <2>1. PICK x \in todo[p] : /\ todo' = [todo EXCEPT ![p] = @ \ {x}]
                             /\ entry' = [entry EXCEPT ![x] = None]
    BY <1>26 DEF DeleteUnlink
  <2>2. /\ op[p] = "delete" /\ from[p] \notin Dirs /\ missing[p] = {}
        /\ x \in StoredTodo[p] \cap Keys
    BY <1>26, <2>1 DEF DeleteUnlink, DeleteInv, StoredTodo
  <2>3. StoredObj' = [StoredObj EXCEPT ![x] = None]
    BY <1>26, <2>1, <2>2 DEF DeleteUnlink, Inv, TypeOK, StoredObj
  <2>4. StoredTodo' = [StoredTodo EXCEPT ![p] = @ \ {x}]
    BY <1>26, <2>1 DEF DeleteUnlink, Inv, TypeOK, StoredTodo
  <2>5. Store!Erase(p)
    BY <1>26, <2>2, <2>3, <2>4 DEF DeleteUnlink, Store!Erase
  <2> QED  BY <2>5 DEF Store!Step
<1>27. CASE DeleteDone(p)
  <2>1. op[p] = "delete" /\ StoredTodo[p] = {} /\ StoredObj' = StoredObj
    BY <1>27 DEF DeleteDone, DeleteInv, StoredObj, StoredTodo
  <2>2. Store!EndDelete(p)
    BY <1>27, <2>1, ReturnMaps DEF DeleteDone, Store!EndDelete
  <2> QED  BY <2>2 DEF Store!Step
<1>28. CASE DeleteAll(p)
  <2>1. PICK x \in Paths : Begin(p, "deleteall", "all_stat", x, None, None, Under[x])
    BY <1>28 DEF DeleteAll
  <2>2. Store!BeginDeleteAll(p)
    BY <2>1, BeginMaps DEF Store!BeginDeleteAll, Store!Paths
  <2> QED  BY <2>2 DEF Store!Step
<1>29. CASE AllStat(p)
  <2>1. /\ StoredObj' = StoredObj /\ op[p] = "deleteall" /\ dirty[p] = FALSE
        /\ StoredTodo[p] = todo[p] /\ from[p] \in Paths
    BY <1>29 DEF AllStat, Inv, CallInv, DeleteInv, StoredObj, StoredTodo
  <2>2. CASE ~IsFile(from[p]) /\ from[p] \notin dirs /\ Return(p, "missing")
    <3>1. \A k \in todo[p] : StoredObj[k] = None
      <4>1. CASE from[p] \in Keys
        <5>1. todo[p] = {from[p]}
          BY <1>29, <2>1, <4>1 DEF AllStat, DeleteInv
        <5> QED  BY <2>2, <4>1, <5>1, ObjectsStored DEF IsFile
      <4>2. CASE from[p] \in Dirs
        <5>1. todo[p] = {k \in Keys : DirOf[k] = from[p]}
          BY <1>29, <4>2 DEF AllStat, DeleteInv, Under
        <5> QED  BY <2>2, <5>1, ObjectsStored DEF DirInv
      <4> QED  BY <2>1, <4>1, <4>2
    <3>2. Store!Missing(p)
      BY <2>1, <2>2, <3>1, ReturnMaps DEF Store!Missing
    <3> QED  BY <3>2 DEF Store!Step
  <2>3. CASE /\ pc' = [pc EXCEPT ![p] = "all_unlink"] /\ Met(p)
             /\ UNCHANGED <<op, from, to, res, tmp, in, out, writer, delVars>>
    <3>1. todo[p] = Under[from[p]]
      BY <1>29, <2>1, UnderKey DEF AllStat, DeleteInv
    <3>2. Store!Find(p) \/ UNCHANGED Store!vars
      BY <1>29, <2>1, <2>3, <3>1, MetMaps DEF AllStat, Inv
    <3> QED  BY <3>2 DEF Store!Step
  <2> QED  BY <1>29, <2>2, <2>3 DEF AllStat
<1>30. CASE AllUnlink(p)
  <2>1. PICK n \in Tree(from[p]) :
          /\ entry' = [entry EXCEPT ![n] = None]
          /\ todo' = [todo EXCEPT ![p] = IF from[p] \in Dirs THEN @ ELSE @ \ {n}]
          /\ dirty' = [dirty EXCEPT ![p] = dirty[p] \/ n \in Keys]
    BY <1>30 DEF AllUnlink
  <2>2. /\ op[p] = "deleteall" /\ missing[p] = {} /\ from[p] \in Paths
        /\ StoredTodo[p] = todo[p]
    BY <1>30 DEF AllUnlink, Inv, CallInv, DeleteInv, StoredTodo
  <2>3. CASE n \in Keys
    <3>1. n \in todo[p]
      <4>1. CASE from[p] \in Dirs
        BY <1>30, <2>1, <2>3, <4>1, ZenonT(30) DEF AllUnlink, Tree, DeleteInv, Under
      <4>2. CASE from[p] \in Keys
        <5>1. dirty[p] = FALSE
          BY <1>30, <4>2 DEF AllUnlink, Inv, TypeOK
        <5> QED  BY <1>30, <2>1, <4>2, <5>1, ZenonT(30) DEF AllUnlink, Tree, DeleteInv
      <4> QED  BY <2>2, <4>1, <4>2
    <3>2. StoredObj' = [StoredObj EXCEPT ![n] = None]
      BY <1>30, <2>1, <2>3 DEF AllUnlink, Inv, TypeOK, StoredObj
    <3>3. StoredTodo' = [StoredTodo EXCEPT ![p] = IF from[p] \in Dirs THEN @ ELSE @ \ {n}]
      BY <1>30, <2>1 DEF AllUnlink, Inv, TypeOK, StoredTodo
    <3>4. dirty' = [dirty EXCEPT ![p] = TRUE]
      <4>1. (dirty[p] \/ n \in Keys) = TRUE
        BY <2>3
      <4> QED  BY <2>1, <4>1
    <3>5. Store!Erase(p)
      BY <1>30, <2>2, <2>3, <3>1, <3>2, <3>3, <3>4 DEF AllUnlink, Store!Erase
    <3> QED  BY <3>5 DEF Store!Step
  <2>4. CASE n \notin Keys
    <3>1. StoredObj' = StoredObj
      BY <1>30, <2>1, <2>4 DEF AllUnlink, Tree, Inv, TypeOK, StoredObj
    <3>2. from[p] \in Dirs
      BY <2>1, <2>2, <2>4 DEF Tree
    <3>3. todo' = todo /\ StoredTodo' = StoredTodo
      BY <1>30, <2>1, <3>2 DEF AllUnlink, Inv, TypeOK, StoredTodo
    <3>4. dirty' = dirty
      <4>1. (dirty[p] \/ n \in Keys) = dirty[p]
        BY <2>4 DEF Inv, TypeOK
      <4> QED  BY <2>1, <4>1 DEF Inv, TypeOK
    <3> QED  BY <1>30, <3>1, <3>3, <3>4 DEF AllUnlink, Store!vars
  <2> QED  BY <2>3, <2>4
<1>31. CASE AllDone(p)
  <2>1. /\ StoredObj' = StoredObj /\ op[p] = "deleteall"
        /\ StoredTodo[p] = todo[p] /\ from[p] \in Paths
    BY <1>31 DEF AllDone, Inv, CallInv, DeleteInv, StoredObj, StoredTodo
  <2>2. \A k \in todo[p] : StoredObj[k] = None
    <3>1. CASE from[p] \in Dirs
      <4>1. todo[p] = {k \in Keys : DirOf[k] = from[p]}
        BY <1>31, <3>1 DEF AllDone, DeleteInv, Under
      <4> QED  BY <1>31, <3>1, <4>1, ObjectsStored DEF AllDone, Tree
    <3>2. CASE from[p] \in Keys /\ dirty[p] = TRUE
      BY <1>31, <3>2 DEF AllDone, DeleteInv
    <3>3. CASE from[p] \in Keys /\ dirty[p] = FALSE
      <4>1. todo[p] = {from[p]} /\ entry[from[p]] = None
        BY <1>31, <3>3 DEF AllDone, Tree, DeleteInv
      <4> QED  BY <3>3, <4>1, ObjectsStored
    <3> QED  BY <2>1, <3>1, <3>2, <3>3 DEF Inv, TypeOK
  <2>3. CASE body[p] # None \/ dirty[p]
    <3>1. Store!EndDeleteAll(p)
      BY <1>31, <2>1, <2>2, <2>3, ReturnMaps DEF AllDone, Store!EndDeleteAll
    <3> QED  BY <3>1 DEF Store!Step
  <2>4. CASE body[p] = None /\ ~dirty[p]
    <3>1. from[p] \in Dirs
      BY <1>31, <2>1, <2>4 DEF AllDone, DeleteInv
    <3>2. Store!EndDeleteAllOfEmptyDir(p)
      BY <1>31, <2>1, <2>2, <2>4, <3>1, ReturnMaps DEF AllDone, Store!EndDeleteAllOfEmptyDir
    <3> QED  BY <3>2 DEF Store!Step
  <2> QED  BY <2>3, <2>4
<1>32. CASE Fail(p)
  <2>1. StoredObj' = StoredObj
    BY <1>32 DEF Fail, StoredObj
  <2>2. op[p] # "none"
    BY <1>32 DEF Fail, Inv, CallInv
  <2>3. Store!Fail(p)
    BY <1>32, <2>1, <2>2, ReturnMaps DEF Fail, Store!Fail
  <2> QED  BY <2>3 DEF Store!Step
<1>33. CASE Kill(p)
  <2>1. StoredObj' = StoredObj
    BY <1>33 DEF Kill, StoredObj
  <2>2. op[p] # "none"
    BY <1>33 DEF Kill, Inv, CallInv
  <2>3. Store!Kill(p)
    BY <1>33, <2>1, <2>2, ReturnMaps DEF Kill, Store!Kill
  <2> QED  BY <2>3 DEF Store!Step
<1> QED
  BY <1>1, <1>2, <1>3, <1>4, <1>5, <1>6, <1>7, <1>8, <1>9, <1>10, <1>11,
    <1>12, <1>13, <1>14, <1>15, <1>16, <1>17, <1>18, <1>19, <1>20, <1>21,
    <1>22, <1>23, <1>24, <1>25, <1>26, <1>27, <1>28, <1>29, <1>30, <1>31,
    <1>32, <1>33 DEF Step

-----------------------------------------------------------------------------
\* directory and inmemory implement the Storager contract: every put and copy
\* takes effect in one step or never, every read and copy takes a value its source
\* had, and Delete removes nothing once it has met a missing path.  The exception
\* is Store!EndDeleteAllOfEmptyDir, the success of DeleteAll on a directory without
\* objects, which storager.go:76-77 rules out and backend.go:517-529 allows.
THEOREM Refinement == Spec => ImplementsObjectStore
<1>1. Init => Store!Init
  <2> SUFFICES ASSUME Init PROVE Store!Init
    OBVIOUS
  <2>1. StoredObj \in [Keys -> Values \cup {None}]
    <3>1. Inv
      BY InitInv
    <3> QED  BY <3>1, WholeIsFull DEF Inv, WholeObjects, StoredObj
  <2>2. StoredTodo = [p \in Procs |-> {}]
    BY DEF Init, StoredTodo
  <2> QED  BY <2>1, <2>2 DEF Init, Store!Init
<1>2. RInv /\ [Next]_vars => [Store!Next]_(Store!vars)
  <2> SUFFICES ASSUME RInv, [Next]_vars PROVE [Store!Next]_(Store!vars)
    OBVIOUS
  <2>1. ASSUME NEW p \in Procs, Step(p) PROVE [Store!Next]_(Store!vars)
    BY <2>1, StepMaps DEF Store!Next
  <2>2. CASE UNCHANGED vars
    BY <2>2 DEF vars, fsVars, copyVars, delVars, StoredObj, StoredTodo, Store!vars
  <2> QED  BY <2>1, <2>2 DEF Next
<1> QED  BY RInit, RNext, <1>1, <1>2, PTL DEF Spec, ImplementsObjectStore, Store!Spec
=============================================================================
