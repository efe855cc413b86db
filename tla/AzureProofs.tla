---------------------------- MODULE AzureProofs ----------------------------
(***************************************************************************)
(* Proofs about AzureBackend, for any number of callers, blobs and copies. *)
(* The heart is the copy id: an id that a call waits for is nobody else's, *)
(* so a blob that still carries it was written by this call's copy and by  *)
(* nothing since.                                                          *)
(***************************************************************************)
EXTENDS AzureBackend, TLAPS

Waiting == {"poll", "abort"}
Deleting == {"check", "walk", "delete"}
PCs == {"idle", "self", "start", "size", "refused", "stream"} \cup Waiting \cup Deleting
Contents == Values \cup {Empty, None}
Results == {"none", "ok", "missing", "error"}

\* Blob names, prefixes, and what path.Join makes of them.
Paths == Seq(STRING) \cup
  UNION {{Addressed(d, b) : b \in Seq(STRING)} : d \in Blobs \cup Dirs \cup {None}}

\* The service's blobs and the local state of every call have their types.
TypeOK ==
  /\ blob \in [Blobs -> Contents] /\ incoming \in [Blobs -> Contents]
  /\ cid \in [Blobs -> Ids \cup {None}] /\ cst \in [Blobs -> Statuses]
  /\ orphans \subseteq Blobs
  /\ pc \in [Procs -> PCs] /\ ctx \in [Procs -> {"live", "done"}]
  /\ from \in [Procs -> Blobs \cup Dirs \cup {None}] /\ to \in [Procs -> Blobs \cup {None}]
  /\ id \in [Procs -> Ids \cup {None}]
  /\ want \in [Procs -> Contents] /\ bytes \in [Procs -> Contents]
  /\ names \in [Procs -> SUBSET Blobs] /\ todo \in [Procs -> SUBSET Paths]
  /\ missing \in [Procs -> SUBSET Blobs] /\ erased \in [Procs -> SUBSET Blobs]
  /\ absent \in [Procs -> SUBSET Blobs]
  /\ res \in [Procs -> Results]

\* What a call has in its hands at every program counter.
CallInv(p) ==
  /\ pc[p] # "idle" => res[p] = "none"
  /\ pc[p] = "idle" => from[p] = None
  /\ pc[p] \in {"self", "start", "refused"} => from[p] \in Blobs
  /\ pc[p] \in {"self", "start", "refused", "size", "stream"} \cup Waiting => to[p] \in Blobs
  /\ pc[p] \in Waiting => id[p] \in Ids

\* A blob that carries the id a call polls for holds, or will hold, what was copied.
OwnInv(p) == pc[p] = "poll" /\ cid[to[p]] = id[p] =>
  /\ cst[to[p]] = "pending" => incoming[to[p]] = want[p]
  /\ cst[to[p]] = "success" => blob[to[p]] = want[p]

\* What a deletion has found out: nothing is erased before all is checked; what was
\* found missing, and the names it is done with, was gone at some time of the call.
DeleteInv(p) ==
  /\ pc[p] \notin Deleting => names[p] = {} /\ missing[p] = {}
  /\ pc[p] # "delete" => erased[p] = {}
  /\ pc[p] = "check" => /\ todo[p] \subseteq names[p] /\ from[p] = None
                        /\ missing[p] \subseteq names[p] \cap absent[p]
  /\ pc[p] = "walk" => todo[p] \subseteq Seq(STRING) /\ from[p] \in Dirs
  /\ pc[p] = "delete" => /\ (Objs(p) \cap Blobs) \ todo[p] \subseteq absent[p]
                         /\ from[p] \in Dirs \cup {None}

Inv ==
  /\ TypeOK
  /\ \A p \in Procs : CallInv(p) /\ OwnInv(p) /\ DeleteInv(p)
  /\ NoCopyLeftRunning

-----------------------------------------------------------------------------
USE DEF Waiting, Deleting

\* Initially no copy is running and no call is under way.
LEMMA InitInv == Init => Inv
<1> SUFFICES ASSUME Init PROVE Inv
  OBVIOUS
<1> USE DEF Init
<1>1. TypeOK
  BY DEF TypeOK, PCs, Contents, Results, Statuses
<1>2. \A p \in Procs : CallInv(p) /\ OwnInv(p) /\ DeleteInv(p)
  BY DEF CallInv, OwnInv, DeleteInv
<1>3. NoCopyLeftRunning
  BY DEF NoCopyLeftRunning
<1> QED  BY <1>1, <1>2, <1>3 DEF Inv

\* No copy has the id None.
LEMMA NoneNotId == None \notin Ids
BY AzureAssumption

\* The history of a deletion only grows while the deletion goes on.
LEMMA ObserveType ==
  ASSUME TypeOK, Observe
  PROVE  /\ absent' \in [Procs -> SUBSET Blobs]
         /\ \A p \in Procs : pc'[p] \in Deleting =>
              absent'[p] = absent[p] \cup {b \in Blobs : blob'[b] = None}
BY DEF TypeOK, Observe

\* What a call does not touch of a deletion stays known.
LEMMA DeletionStays ==
  ASSUME Inv, NEW q \in Procs, Observe,
         pc'[q] = pc[q], from'[q] = from[q], names'[q] = names[q], todo'[q] = todo[q],
         missing'[q] = missing[q], erased'[q] = erased[q]
  PROVE  DeleteInv(q)'
<1>1. Objs(q)' = Objs(q)
  BY DEF Objs
<1>2. DeleteInv(q) /\ (pc[q] \in Deleting => absent[q] \subseteq absent'[q])
  BY ObserveType DEF Inv
<1> QED  BY <1>1, <1>2 DEF DeleteInv

\* Outside a deletion there is nothing to know.
LEMMA NoDeletion ==
  ASSUME NEW q \in Procs, pc'[q] \notin Deleting, names'[q] = {}, missing'[q] = {}, erased'[q] = {}
  PROVE  DeleteInv(q)'
BY DEF DeleteInv

\* The names that deleteKnown sends.
LEMMA ObjsType == ASSUME Inv, NEW p \in Procs PROVE Objs(p) \subseteq Paths
<1>1. from[p] \in Blobs \cup Dirs \cup {None} /\ names[p] \subseteq Seq(STRING)
  BY AzureAssumption DEF Inv, TypeOK
<1>2. {Addressed(from[p], b) : b \in Seq(STRING)} \subseteq Paths /\ Seq(STRING) \subseteq Paths
  BY <1>1, Zenon DEF Paths
<1>3. {Addressed(from[p], b) : b \in names[p]} \subseteq {Addressed(from[p], b) : b \in Seq(STRING)}
  BY <1>1, Zenon
<1> QED  BY <1>1, <1>2, <1>3 DEF Objs

\* The prefixes and the blobs of a listing.
LEMMA NamesType ==
  ASSUME NEW d \in Seq(STRING)
  PROVE  DirsOf(d) \subseteq Seq(STRING) /\ FilesOf(d) \subseteq Blobs
<1>1. ASSUME NEW b \in Blobs, Len(b) > Len(d) + 1 PROVE SubSeq(b, 1, Len(d) + 1) \in Seq(STRING)
  BY <1>1, AzureAssumption
<1> QED  BY <1>1 DEF DirsOf, FilesOf

\* A clean name is sent as it is.
LEMMA CleanAddressed ==
  ASSUME NEW d \in Seq(STRING), NEW b \in Seq(STRING), IsClean(b)
  PROVE  Addressed(d, b) = b
<1> DEFINE name == [i \in 1..Len(b) |->
             IF i \in Len(d) + 1 .. Len(b) - 1 THEN Base(SubSeq(b, 1, i)) ELSE b[i]]
<1>1. ASSUME NEW i \in 1..Len(b) PROVE name[i] = b[i]
  <2> DEFINE pre == SubSeq(b, 1, i)
  <2>1. Len(pre) = i /\ pre[i] = b[i]
    OBVIOUS
  <2>2. b[i] # ""
    BY DEF IsClean
  <2> HIDE DEF pre
  <2>3. Base(pre) = b[i]
    BY <2>1, <2>2 DEF Base
  <2> QED  BY <2>3 DEF pre
<1>2. name = b
  BY <1>1
<1> QED  BY <1>2 DEF Addressed, Clean

\* A call that has no copy running, or whose copy is settled, returns.
LEMMA ReturnInv ==
  ASSUME Inv, NEW p \in Procs, NEW r \in Results, NEW n \in Contents,
         Return(p, r, n), UNCHANGED server, Observe,
         pc[p] \notin Waiting \/ cid[to[p]] # id[p] \/ cst[to[p]] # "pending"
  PROVE  Inv'
<1> USE DEF Inv, Return, server
<1>1. TypeOK'
  BY ObserveType DEF TypeOK, PCs, Contents, Results
<1>2. \A q \in Procs : CallInv(q)'
  BY DEF TypeOK, CallInv
<1>3. \A q \in Procs : OwnInv(q)'
  BY DEF TypeOK, OwnInv
<1>4. \A q \in Procs : DeleteInv(q)'
  BY DeletionStays, NoDeletion DEF TypeOK
<1>5. NoCopyLeftRunning'
  BY DEF TypeOK, NoCopyLeftRunning
<1> QED  BY <1>1, <1>2, <1>3, <1>4, <1>5

\* A call begins with nothing in its hands.
LEMMA BeginInv ==
  ASSUME Inv, NEW p \in Procs, Observe,
         Copy(p) \/ PutObject(p) \/ Delete(p) \/ DeleteAll(p)
  PROVE  Inv'
<1> USE DEF Inv, Begin, Copy, PutObject, Delete, DeleteAll, server, call, deletion
<1>1. TypeOK'
  <2> USE ObserveType DEF TypeOK, PCs, Contents, Results
  <2>1. Named \subseteq Blobs /\ Blobs \cup Dirs \subseteq Paths
    BY AzureAssumption DEF Named, Paths
  <2>2. CASE Copy(p)       BY <2>1, <2>2
  <2>3. CASE PutObject(p)  BY <2>1, <2>3
  <2>4. CASE Delete(p)     BY <2>1, <2>4
  <2>5. CASE DeleteAll(p)  BY <2>1, <2>5
  <2> QED  BY <2>2, <2>3, <2>4, <2>5
<1>2. \A q \in Procs : CallInv(q)'
  BY DEF TypeOK, CallInv, Named
<1>3. \A q \in Procs : OwnInv(q)'
  BY DEF TypeOK, OwnInv
<1>4. ASSUME NEW q \in Procs PROVE DeleteInv(q)'
  <2>1. CASE q # p
    BY <2>1, DeletionStays DEF TypeOK
  <2>2. CASE q = p /\ (Copy(p) \/ PutObject(p))
    BY <2>2, NoDeletion, SMTT(30) DEF TypeOK, DeleteInv
  <2>3. CASE q = p /\ (Delete(p) \/ DeleteAll(p))
    <3>1. pc[p] = "idle" /\ from[p] = None /\ missing'[p] = {} /\ erased'[p] = {}
      BY <2>3 DEF CallInv, DeleteInv
    <3>2. CASE Delete(p)
      BY <2>3, <3>1, <3>2 DEF TypeOK, DeleteInv
    <3>3. CASE DeleteAll(p)
      BY <2>3, <3>1, <3>3, AzureAssumption DEF TypeOK, DeleteInv
    <3> QED  BY <2>3, <3>2, <3>3
  <2> QED  BY <2>1, <2>2, <2>3
<1>5. NoCopyLeftRunning'
  BY DEF TypeOK, NoCopyLeftRunning
<1> QED  BY <1>1, <1>2, <1>3, <1>4, <1>5

\* A copy call that goes on to its next request leaves the service as it is.
LEMMA GotoInv ==
  ASSUME Inv, NEW p \in Procs, NEW at \in PCs, Goto(p, at), UNCHANGED <<server, id>>, Observe,
         want' \in [Procs -> Contents], at # "poll",
         \A q \in Procs \ {p} : want'[q] = want[q],
         \/ pc[p] = "poll" /\ at = "abort"
         \/ pc[p] \in {"start", "refused"} /\ at \in {"refused", "stream"}
  PROVE  Inv'
<1> USE DEF Inv, Goto, server, deletion
<1>1. TypeOK'
  BY ObserveType DEF TypeOK, PCs
<1>2. \A q \in Procs : CallInv(q)'
  BY DEF TypeOK, CallInv
<1>3. \A q \in Procs : OwnInv(q)'
  BY DEF TypeOK, OwnInv
<1>4. \A q \in Procs : DeleteInv(q)'
  BY DeletionStays, NoDeletion DEF TypeOK, DeleteInv
<1>5. NoCopyLeftRunning'
  BY DEF TypeOK, NoCopyLeftRunning
<1> QED  BY <1>1, <1>2, <1>3, <1>4, <1>5

\* A step of a deletion that deletes nothing in the service.
LEMMA DeletionInv ==
  ASSUME Inv, NEW p \in Procs, UNCHANGED <<server, call, erased, bytes, res>>, Observe,
         pc' \in [Procs -> PCs], names' \in [Procs -> SUBSET Blobs],
         todo' \in [Procs -> SUBSET Paths], missing' \in [Procs -> SUBSET Blobs],
         \A q \in Procs \ {p} : /\ pc'[q] = pc[q] /\ names'[q] = names[q]
                                /\ todo'[q] = todo[q] /\ missing'[q] = missing[q],
         pc[p] \in Deleting, pc'[p] \in Deleting,
         pc[p] = "delete" => pc'[p] = "delete",
         DeleteInv(p)'
  PROVE  Inv'
<1> USE DEF Inv, server, call
<1>1. TypeOK'
  BY ObserveType DEF TypeOK
<1>2. \A q \in Procs : CallInv(q)'
  BY DEF TypeOK, CallInv
<1>3. \A q \in Procs : OwnInv(q)'
  BY DEF TypeOK, OwnInv
<1>4. \A q \in Procs : DeleteInv(q)'
  BY DeletionStays
<1>5. NoCopyLeftRunning'
  BY DEF TypeOK, NoCopyLeftRunning
<1> QED  BY <1>1, <1>2, <1>3, <1>4, <1>5

-----------------------------------------------------------------------------
\* The steps that change the service.

\* An accepted copy is the only one under its id, and concerns its destination only.
LEMMA AcceptFacts ==
  ASSUME Inv, NEW s \in Blobs, NEW d \in Blobs, NEW n \in Ids, Unused(n),
         NEW status \in {"success", "pending"}, Accept(s, d, n, status)
  PROVE  /\ blob' \in [Blobs -> Contents] /\ incoming' \in [Blobs -> Contents]
         /\ cid' \in [Blobs -> Ids \cup {None}] /\ cst' \in [Blobs -> Statuses]
         /\ cid'[d] = n /\ cst'[d] = status
         /\ status = "pending" => incoming'[d] = blob[s]
         /\ \A b \in Blobs \ {d} : /\ blob'[b] = blob[b] /\ incoming'[b] = incoming[b]
                                   /\ cid'[b] = cid[b] /\ cst'[b] = cst[b] /\ cid[b] # n
         /\ \A q \in Procs : id[q] # n
BY DEF Inv, TypeOK, Unused, Accept, Contents, Statuses

\* A write, which carries no copy id, ends what a call could still know of its copy.
LEMMA WriteFacts ==
  ASSUME Inv, NEW d \in Blobs, NEW v \in Contents, cst[d] # "pending",
         blob' = [blob EXCEPT ![d] = v], cid' = [cid EXCEPT ![d] = None],
         cst' = [cst EXCEPT ![d] = "none"], UNCHANGED incoming
  PROVE  /\ blob' \in [Blobs -> Contents] /\ incoming' \in [Blobs -> Contents]
         /\ cid' \in [Blobs -> Ids \cup {None}] /\ cst' \in [Blobs -> Statuses]
         /\ blob'[d] = v /\ cid'[d] = None /\ cst'[d] = "none"
         /\ \A b \in Blobs \ {d} : /\ blob'[b] = blob[b] /\ incoming'[b] = incoming[b]
                                   /\ cid'[b] = cid[b] /\ cst'[b] = cst[b]
BY DEF Inv, TypeOK, Statuses

\* StartCopyFromURL is answered: the call waits for the copy, or the copy is done.
LEMMA StartCopyInv ==
  ASSUME Inv, NEW p \in Procs, StartCopy(p), Observe
  PROVE  Inv'
<1>1. PICK n \in Ids, status \in {"success", "pending"} :
        /\ Unused(n) /\ Accept(from[p], to[p], n, status)
        /\ orphans' = orphans \ {to[p]}
        /\ id' = [id EXCEPT ![p] = n]
        /\ want' = [want EXCEPT ![p] = blob[from[p]]]
        /\ Goto(p, IF status = "success" THEN "size" ELSE "poll")
  BY DEF StartCopy
<1>2. from[p] \in Blobs /\ to[p] \in Blobs /\ pc[p] = "start"
  BY DEF Inv, CallInv, StartCopy
<1> DEFINE s == from[p]  d == to[p]
<1>3. /\ blob' \in [Blobs -> Contents] /\ incoming' \in [Blobs -> Contents]
      /\ cid' \in [Blobs -> Ids \cup {None}] /\ cst' \in [Blobs -> Statuses]
      /\ cid'[d] = n /\ cst'[d] = status
      /\ status = "pending" => incoming'[d] = blob[s]
      /\ \A b \in Blobs \ {d} : /\ blob'[b] = blob[b] /\ incoming'[b] = incoming[b]
                                /\ cid'[b] = cid[b] /\ cst'[b] = cst[b] /\ cid[b] # n
      /\ \A q \in Procs : id[q] # n
  BY <1>1, <1>2, AcceptFacts
<1> USE DEF Inv, Goto, deletion
<1>4. TypeOK'
  BY <1>1, <1>2, <1>3, ObserveType DEF TypeOK, PCs
<1>5. \A q \in Procs : CallInv(q)'
  BY <1>1, <1>2 DEF TypeOK, CallInv
<1>6. ASSUME NEW q \in Procs PROVE OwnInv(q)'
  <2>1. CASE q = p
    BY <1>1, <1>2, <1>3, <2>1 DEF TypeOK, OwnInv
  <2>2. CASE q # p
    BY <1>1, <1>2, <1>3, <2>2 DEF TypeOK, OwnInv, CallInv
  <2> QED  BY <2>1, <2>2
<1>7. \A q \in Procs : DeleteInv(q)'
  BY <1>1, <1>2, DeletionStays, NoDeletion DEF TypeOK, DeleteInv
<1>8. NoCopyLeftRunning'
  BY <1>1, <1>2, <1>3, SMTT(30) DEF TypeOK, NoCopyLeftRunning
<1> QED  BY <1>4, <1>5, <1>6, <1>7, <1>8

\* The answer is lost: the copy is an orphan from its start.
LEMMA StartLostInv ==
  ASSUME Inv, NEW p \in Procs, StartLost(p), Observe
  PROVE  Inv'
<1>1. PICK n \in Ids :
        Unused(n) /\ Accept(from[p], to[p], n, "pending")
  BY DEF StartLost
<1>2. orphans' = orphans \cup {to[p]} /\ from[p] \in Blobs /\ to[p] \in Blobs /\ pc[p] = "start" /\ Return(p, "error", None)
  BY DEF Inv, CallInv, StartLost
<1> DEFINE d == to[p]
<1>3. /\ blob' \in [Blobs -> Contents] /\ incoming' \in [Blobs -> Contents]
      /\ cid' \in [Blobs -> Ids \cup {None}] /\ cst' \in [Blobs -> Statuses]
      /\ cid'[d] = n
      /\ \A b \in Blobs \ {d} : /\ blob'[b] = blob[b] /\ incoming'[b] = incoming[b]
                                /\ cid'[b] = cid[b] /\ cst'[b] = cst[b]
      /\ \A q \in Procs : id[q] # n
  BY <1>1, <1>2, AcceptFacts
<1> USE DEF Inv, Return
<1>4. TypeOK'
  BY <1>1, <1>2, <1>3, ObserveType DEF TypeOK, PCs, Contents, Results
<1>5. \A q \in Procs : CallInv(q)'
  BY <1>2 DEF TypeOK, CallInv
<1>6. \A q \in Procs : OwnInv(q)'
  BY <1>2, <1>3, SMTT(30) DEF TypeOK, OwnInv, CallInv
<1>7. \A q \in Procs : DeleteInv(q)'
  BY <1>2, DeletionStays, NoDeletion DEF TypeOK
<1>8. NoCopyLeftRunning'
  BY <1>1, <1>2, <1>3 DEF TypeOK, NoCopyLeftRunning
<1> QED  BY <1>4, <1>5, <1>6, <1>7, <1>8

\* AbortCopyFromURL stops the copy if it is still this call's and pending.
LEMMA AbortCopyInv ==
  ASSUME Inv, NEW p \in Procs, AbortCopy(p), Observe
  PROVE  Inv'
<1>1. to[p] \in Blobs /\ pc[p] = "abort" /\ Return(p, "error", None)
  BY DEF Inv, CallInv, AbortCopy
<1>2. UNCHANGED <<blob, cid, orphans>>
  BY DEF AbortCopy
<1>3. CASE ~Running(p)
  <2>1. UNCHANGED server
    BY <1>2, <1>3 DEF AbortCopy, server
  <2> QED  BY <1>1, <1>3, <2>1, ReturnInv DEF Results, Contents, Running
<1>4. CASE Running(p)
  <2>1. /\ cst' = [cst EXCEPT ![to[p]] = "aborted"]
        /\ incoming' = [incoming EXCEPT ![to[p]] = None]
    BY <1>4 DEF AbortCopy
  <2> USE DEF Inv, Return
  <2>2. TypeOK'
    BY <1>1, <1>2, <2>1, ObserveType DEF TypeOK, PCs, Contents, Results, Statuses
  <2>3. \A q \in Procs : CallInv(q)'
    BY <1>1 DEF TypeOK, CallInv
  <2>4. \A q \in Procs : OwnInv(q)'
    BY <1>1, <1>2, <2>1 DEF TypeOK, OwnInv
  <2>5. \A q \in Procs : DeleteInv(q)'
    BY <1>1, DeletionStays, NoDeletion DEF TypeOK
  <2>6. NoCopyLeftRunning'
    BY <1>1, <1>2, <1>4, <2>1 DEF TypeOK, NoCopyLeftRunning, Running
  <2> QED  BY <2>2, <2>3, <2>4, <2>5, <2>6
<1> QED  BY <1>3, <1>4

\* The abort fails, or none is sent as the poll had no status: the copy, if it is still
\* running, is an orphan from here on.
LEMMA LeftAloneInv ==
  ASSUME Inv, NEW p \in Procs, AbortFail(p) \/ PollNoStatus(p), Observe
  PROVE  Inv'
<1>1. /\ to[p] \in Blobs /\ id[p] \in Ids /\ pc[p] \in Waiting
      /\ LeftAlone(p) /\ Return(p, "error", None) /\ UNCHANGED <<blob, cid, cst, incoming>>
  BY DEF Inv, CallInv, AbortFail, PollNoStatus
<1> USE <1>1 DEF Inv, LeftAlone, Running, Return
<1>2. TypeOK'
  BY <1>1, ObserveType DEF TypeOK, PCs, Contents, Results
<1>3. \A q \in Procs : CallInv(q)'
  BY DEF TypeOK, CallInv
<1>4. \A q \in Procs : OwnInv(q)'
  BY DEF TypeOK, OwnInv
<1>5. \A q \in Procs : DeleteInv(q)'
  BY <1>1, DeletionStays, NoDeletion DEF TypeOK
<1>6. NoCopyLeftRunning'
  BY <1>1 DEF TypeOK, NoCopyLeftRunning
<1> QED  BY <1>2, <1>3, <1>4, <1>5, <1>6

\* StreamCopy and PutObject write the blob.
LEMMA StreamPutInv ==
  ASSUME Inv, NEW p \in Procs, StreamPut(p), Observe
  PROVE  Inv'
<1> DEFINE d == to[p]
<1>1. d \in Blobs /\ pc[p] = "stream" /\ want[p] \in Contents
  BY DEF Inv, CallInv, TypeOK, StreamPut
<1>2. PICK r \in Results, n \in Contents : Return(p, r, n)
  BY <1>1 DEF StreamPut, Results, Contents
<1>3. /\ blob' \in [Blobs -> Contents] /\ incoming' \in [Blobs -> Contents]
      /\ cid' \in [Blobs -> Ids \cup {None}] /\ cst' \in [Blobs -> Statuses]
      /\ cid'[d] = None /\ cst'[d] = "none"
      /\ \A b \in Blobs \ {d} : /\ blob'[b] = blob[b] /\ incoming'[b] = incoming[b]
                                /\ cid'[b] = cid[b] /\ cst'[b] = cst[b]
  BY <1>1, WriteFacts DEF StreamPut
<1>4. orphans' = orphans
  BY DEF StreamPut
<1> USE DEF Inv, Return
<1>5. TypeOK'
  BY <1>1, <1>2, <1>3, <1>4, ObserveType DEF TypeOK, PCs, Contents
<1>6. \A q \in Procs : CallInv(q)'
  BY <1>2 DEF TypeOK, CallInv
<1>7. ASSUME NEW q \in Procs PROVE OwnInv(q)'
  <2> SUFFICES ASSUME pc'[q] = "poll", cid'[to'[q]] = id'[q] PROVE OwnInv(q)!2'
    BY DEF OwnInv
  <2>1. q # p /\ pc[q] = "poll" /\ to'[q] = to[q] /\ id'[q] = id[q] /\ want'[q] = want[q]
    BY <1>1, <1>2 DEF TypeOK
  <2>2. to[q] \in Blobs /\ id[q] \in Ids
    BY <2>1 DEF CallInv
  <2>3. to[q] # d
    BY <1>3, <2>1, <2>2, AzureAssumption
  <2> QED  BY <1>3, <2>1, <2>2, <2>3 DEF OwnInv
<1>8. \A q \in Procs : DeleteInv(q)'
  BY <1>1, <1>2, DeletionStays, NoDeletion DEF TypeOK
<1>9. NoCopyLeftRunning'
  <2> SUFFICES ASSUME NEW b \in Blobs, cst'[b] = "pending"
               PROVE  \/ b \in orphans'
                      \/ \E q \in Procs : pc'[q] \in Waiting /\ to'[q] = b /\ id'[q] = cid'[b]
    BY DEF NoCopyLeftRunning
  <2>1. b # d /\ cst[b] = "pending" /\ cid'[b] = cid[b]
    BY <1>1, <1>3
  <2>2. \A q \in Procs : pc[q] \in Waiting => pc'[q] = pc[q] /\ to'[q] = to[q] /\ id'[q] = id[q]
    BY <1>1, <1>2 DEF TypeOK
  <2> QED  BY <1>4, <2>1, <2>2 DEF NoCopyLeftRunning
<1> QED  BY <1>5, <1>6, <1>7, <1>8, <1>9

\* deleteKnown deletes a blob that has no pending copy.
LEMMA DeleteBlobInv ==
  ASSUME Inv, NEW p \in Procs, DeleteBlob(p), Observe
  PROVE  Inv'
<1>1. PICK d \in Blobs :
        /\ d \in todo[p] /\ pc[p] = "delete" /\ cst[d] # "pending" /\ blob[d] # None
        /\ blob' = [blob EXCEPT ![d] = None]
        /\ cid' = [cid EXCEPT ![d] = None]
        /\ cst' = [cst EXCEPT ![d] = "none"]
        /\ todo' = [todo EXCEPT ![p] = @ \ {d}]
        /\ erased' = [erased EXCEPT ![p] = @ \cup {d}]
        /\ UNCHANGED <<incoming, orphans, pc, call, names, missing, bytes, res>>
  BY DEF DeleteBlob
<1>2. /\ blob' \in [Blobs -> Contents] /\ incoming' \in [Blobs -> Contents]
      /\ cid' \in [Blobs -> Ids \cup {None}] /\ cst' \in [Blobs -> Statuses]
      /\ blob'[d] = None /\ cid'[d] = None /\ cst'[d] = "none"
      /\ \A b \in Blobs \ {d} : /\ blob'[b] = blob[b] /\ incoming'[b] = incoming[b]
                                /\ cid'[b] = cid[b] /\ cst'[b] = cst[b]
  BY <1>1, WriteFacts DEF Contents
<1> USE DEF Inv, call
<1>3. TypeOK'
  BY <1>1, <1>2, ObserveType DEF TypeOK
<1>4. \A q \in Procs : CallInv(q)'
  BY <1>1 DEF TypeOK, CallInv
<1>5. \A q \in Procs : OwnInv(q)'
  BY <1>1, <1>2, NoneNotId DEF TypeOK, OwnInv, CallInv
<1>6. ASSUME NEW q \in Procs PROVE DeleteInv(q)'
  <2>1. CASE q # p
    BY <1>1, <2>1, DeletionStays DEF TypeOK
  <2>2. CASE q = p
    <3>1. Objs(p)' = Objs(p)
      BY <1>1 DEF Objs
    <3>2. todo'[p] = todo[p] \ {d} /\ pc'[p] = "delete" /\ d \in absent'[p] /\ absent[p] \subseteq absent'[p]
      BY <1>1, <1>2, ObserveType DEF TypeOK
    <3> QED  BY <1>1, <2>2, <3>1, <3>2 DEF DeleteInv
  <2> QED  BY <2>1, <2>2
<1>7. NoCopyLeftRunning'
  BY <1>1, <1>2 DEF TypeOK, NoCopyLeftRunning
<1> QED  BY <1>3, <1>4, <1>5, <1>6, <1>7

\* The service ends a copy: with what it was to copy, or in failure.
LEMMA CopyEndsInv ==
  ASSUME Inv, NEW d \in Blobs, CopyEnds(d), Observe
  PROVE  Inv'
<1> USE DEF Inv, CopyEnds, call, deletion
<1>1. TypeOK'
  <2>1. blob' \in [Blobs -> Contents] /\ incoming' \in [Blobs -> Contents] /\ cst' \in [Blobs -> Statuses]
    BY SMTT(30) DEF TypeOK, Statuses, Contents
  <2> QED  BY <2>1, ObserveType DEF TypeOK
<1>2. \A q \in Procs : CallInv(q)'
  BY DEF CallInv
<1>3. \A q \in Procs : OwnInv(q)'
  BY DEF TypeOK, OwnInv, CallInv
<1>4. \A q \in Procs : DeleteInv(q)'
  BY DeletionStays
<1>5. NoCopyLeftRunning'
  BY DEF TypeOK, NoCopyLeftRunning
<1> QED  BY <1>1, <1>2, <1>3, <1>4, <1>5

\* Another client writes, deletes or copies.
LEMMA OtherInv ==
  ASSUME Inv, NEW d \in Blobs, OtherWrite(d) \/ OtherCopy(d), Observe
  PROVE  Inv'
<1>1. /\ blob' \in [Blobs -> Contents] /\ incoming' \in [Blobs -> Contents]
      /\ cid' \in [Blobs -> Ids \cup {None}] /\ cst' \in [Blobs -> Statuses]
      /\ \A b \in Blobs \ {d} : /\ blob'[b] = blob[b] /\ incoming'[b] = incoming[b]
                                /\ cid'[b] = cid[b] /\ cst'[b] = cst[b]
      /\ \A q \in Procs : cid'[d] = id[q] => id[q] = None
      /\ orphans \subseteq orphans' /\ orphans' \subseteq Blobs
      /\ cst'[d] = "pending" => d \in orphans'
  <2>1. CASE OtherWrite(d)
    <3>1. PICK v \in Values \cup {None} : blob' = [blob EXCEPT ![d] = v]
      BY <2>1 DEF OtherWrite
    <3>2. v \in Contents /\ orphans' = orphans /\ orphans \subseteq Blobs
      BY <2>1 DEF OtherWrite, Contents, Inv, TypeOK
    <3> QED  BY <2>1, <3>1, <3>2, WriteFacts DEF OtherWrite
  <2>2. CASE OtherCopy(d)
    <3>1. PICK s \in Blobs, n \in Ids, status \in {"success", "pending"} :
            /\ Unused(n) /\ Accept(s, d, n, status)
            /\ orphans' = IF status = "pending" THEN orphans \cup {d} ELSE orphans
      BY <2>2, AzureAssumption DEF OtherCopy
    <3> QED  BY <3>1, AcceptFacts DEF Inv, TypeOK
  <2> QED  BY <2>1, <2>2
<1>2. UNCHANGED <<pc, call, deletion, bytes, res>>
  BY DEF OtherWrite, OtherCopy
<1> USE DEF Inv, call, deletion
<1>3. TypeOK'
  BY <1>1, <1>2, ObserveType DEF TypeOK
<1>4. \A q \in Procs : CallInv(q)'
  BY <1>2 DEF CallInv
<1>5. \A q \in Procs : OwnInv(q)'
  BY <1>1, <1>2, NoneNotId, SMTT(30) DEF TypeOK, OwnInv, CallInv
<1>6. \A q \in Procs : DeleteInv(q)'
  BY <1>2, DeletionStays
<1>7. NoCopyLeftRunning'
  BY <1>1, <1>2, SMTT(30) DEF TypeOK, NoCopyLeftRunning
<1> QED  BY <1>3, <1>4, <1>5, <1>6, <1>7

-----------------------------------------------------------------------------
\* deleteKnown starts with all its names to send.
LEMMA SendInv ==
  ASSUME Inv, NEW p \in Procs, Observe, UNCHANGED server, pc[p] \in {"check", "walk"},
         pc' = [pc EXCEPT ![p] = "delete"], todo' = [todo EXCEPT ![p] = Objs(p)],
         UNCHANGED <<call, names, missing, erased, bytes, res>>
  PROVE  Inv'
<1>1. Objs(p)' = Objs(p) /\ Objs(p) \subseteq Paths
  BY ObjsType DEF Objs, call
<1>2. DeleteInv(p)'
  BY <1>1 DEF Inv, TypeOK, DeleteInv, call
<1> QED  BY <1>1, <1>2, DeletionInv DEF Inv, TypeOK, PCs

\* A name that has no blob is done with.
LEMMA DeleteGoneKeeps ==
  ASSUME Inv, NEW p \in Procs, DeleteGone(p), Observe
  PROVE  DeleteInv(p)'
<1>1. PICK b \in todo[p] : (b \in Blobs => blob[b] = None) /\ todo' = [todo EXCEPT ![p] = @ \ {b}]
  BY DEF DeleteGone
<1>2. pc[p] = "delete" /\ UNCHANGED <<blob, pc, from, names, missing, erased>>
  BY DEF DeleteGone, server, call
<1>3. Objs(p)' = Objs(p)
  BY <1>2 DEF Objs
<1>4. absent[p] \subseteq absent'[p] /\ (b \in Blobs => b \in absent'[p])
  BY <1>1, <1>2, ObserveType DEF Inv
<1>5. todo'[p] = todo[p] \ {b}
  BY <1>1 DEF Inv, TypeOK
<1> QED  BY <1>2, <1>3, <1>4, <1>5 DEF Inv, DeleteInv

-----------------------------------------------------------------------------
\* Every step of a call, of the service and of the other clients keeps the invariant.
LEMMA NextInv == Inv /\ [Next]_vars => Inv'
<1> SUFFICES ASSUME Inv, [Next]_vars PROVE Inv'
  OBVIOUS
<1> USE DEF Results, Contents
<1>1. CASE UNCHANGED vars
  BY <1>1 DEF Inv, TypeOK, CallInv, OwnInv, DeleteInv, Objs, NoCopyLeftRunning, vars, control,
              server, call, deletion
<1>2. ASSUME NEW p \in Procs, Caller(p), Observe PROVE Inv'
  <2>1. CASE Copy(p) \/ PutObject(p) \/ Delete(p) \/ DeleteAll(p)
    BY <1>2, <2>1, BeginInv
  <2>2. CASE Cancel(p)
    <3> USE <2>2 DEF Cancel, Inv, server, deletion
    <3>1. TypeOK'
      BY <1>2, ObserveType DEF TypeOK
    <3>2. \A q \in Procs : CallInv(q)' /\ OwnInv(q)'
      BY DEF TypeOK, CallInv, OwnInv
    <3>3. \A q \in Procs : DeleteInv(q)'
      BY <1>2, DeletionStays
    <3>4. NoCopyLeftRunning'
      BY DEF NoCopyLeftRunning
    <3> QED  BY <3>1, <3>2, <3>3, <3>4
  <2>3. CASE CopySelf(p)
    BY <1>2, <2>3, ReturnInv DEF CopySelf
  <2>4. CASE StartCopy(p)
    BY <1>2, <2>4, StartCopyInv
  <2>5. CASE StartLost(p)
    BY <1>2, <2>5, StartLostInv
  <2>6. CASE StartFail(p)
    <3>1. CASE Goto(p, "refused") /\ UNCHANGED <<id, want>>
      <4>1. pc[p] = "start" /\ UNCHANGED server /\ want' \in [Procs -> Contents]
        BY <2>6, <3>1 DEF StartFail, Inv, TypeOK
      <4> QED  BY <1>2, <3>1, <4>1, GotoInv DEF PCs
    <3> QED  BY <1>2, <2>6, <3>1, ReturnInv DEF StartFail
  <2>7. CASE CopySize(p)
    <3>1. blob[to[p]] \in Contents /\ pc[p] = "size"
      BY <2>7 DEF CopySize, Inv, TypeOK, CallInv
    <3> QED  BY <1>2, <2>7, <3>1, ReturnInv DEF CopySize
  <2>8. CASE Poll(p)
    <3>1. blob[to[p]] \in Contents
      BY <2>8 DEF Poll, Inv, TypeOK, CallInv
    <3>2. CASE UNCHANGED <<pc, call, deletion, bytes, res>>
      <4> USE <2>8, <3>2 DEF Poll, Inv, server, call, deletion
      <4>1. TypeOK'
        BY <1>2, ObserveType DEF TypeOK
      <4>2. \A q \in Procs : CallInv(q)' /\ OwnInv(q)'
        BY DEF TypeOK, CallInv, OwnInv
      <4>3. \A q \in Procs : DeleteInv(q)'
        BY <1>2, DeletionStays
      <4>4. NoCopyLeftRunning'
        BY DEF NoCopyLeftRunning
      <4> QED  BY <4>1, <4>2, <4>3, <4>4
    <3> QED  BY <1>2, <2>8, <3>1, <3>2, ReturnInv DEF Poll
  <2>9. CASE PollFail(p)
    <3>1. pc[p] = "poll" /\ UNCHANGED server /\ want' \in [Procs -> Contents]
      BY <2>9 DEF PollFail, Inv, TypeOK
    <3> QED  BY <1>2, <2>9, <3>1, GotoInv DEF PollFail, PCs
  <2>10. CASE AbortCopy(p)
    BY <1>2, <2>10, AbortCopyInv
  <2>11. CASE AbortFail(p) \/ PollNoStatus(p)
    BY <1>2, <2>11, LeftAloneInv
  <2>12. CASE CopyRefused(p)
    <3>1. blob[from[p]] \in Contents /\ pc[p] = "refused" /\ UNCHANGED server
      BY <2>12 DEF CopyRefused, Inv, TypeOK, CallInv
    <3>2. CASE want' = [want EXCEPT ![p] = blob[from[p]]] /\ Goto(p, "stream") /\ UNCHANGED id
      <4>1. want' \in [Procs -> Contents] /\ \A q \in Procs \ {p} : want'[q] = want[q]
        BY <3>1, <3>2 DEF Inv, TypeOK
      <4> QED  BY <1>2, <3>1, <3>2, <4>1, GotoInv DEF PCs
    <3> QED  BY <1>2, <2>12, <3>1, <3>2, ReturnInv DEF CopyRefused
  <2>13. CASE StreamPut(p)
    BY <1>2, <2>13, StreamPutInv
  <2>14. CASE StreamFail(p)
    BY <1>2, <2>14, ReturnInv DEF StreamFail
  <2>15. CASE DeleteCheck(p)
    <3>1. DeleteInv(p)'
      <4>1. PICK b \in todo[p] :
              /\ todo' = [todo EXCEPT ![p] = @ \ {b}]
              /\ missing' = [missing EXCEPT ![p] = IF blob[b] = None THEN @ \cup {b} ELSE @]
        BY <2>15 DEF DeleteCheck
      <4>2. pc[p] = "check" /\ UNCHANGED <<blob, pc, from, names, erased>>
        BY <2>15 DEF DeleteCheck, server, call
      <4>3. b \in names[p] /\ b \in Blobs /\ DeleteInv(p)
        BY <4>2 DEF Inv, TypeOK, DeleteInv
      <4>4. absent[p] \subseteq absent'[p] /\ (blob[b] = None => b \in absent'[p])
        BY <1>2, <4>2, <4>3, ObserveType DEF Inv
      <4>5. todo'[p] = todo[p] \ {b} /\ missing'[p] \subseteq missing[p] \cup {b}
              /\ (missing'[p] # missing[p] => blob[b] = None)
        BY <4>1 DEF Inv, TypeOK
      <4> QED  BY <4>2, <4>3, <4>4, <4>5 DEF DeleteInv
    <3>2. todo' \in [Procs -> SUBSET Paths] /\ missing' \in [Procs -> SUBSET Blobs]
      BY <2>15 DEF DeleteCheck, Inv, TypeOK, DeleteInv
    <3>3. \A q \in Procs \ {p} : todo'[q] = todo[q] /\ missing'[q] = missing[q]
      BY <2>15 DEF DeleteCheck, Inv, TypeOK
    <3>4. pc[p] = "check" /\ UNCHANGED <<server, pc, call, names, erased, bytes, res>>
      BY <2>15 DEF DeleteCheck
    <3> QED  BY <1>2, <3>1, <3>2, <3>3, <3>4, DeletionInv DEF Inv, TypeOK
  <2>16. CASE DeleteDecide(p)
    <3>1. CASE Return(p, "missing", None)
      BY <1>2, <2>16, <3>1, ReturnInv DEF DeleteDecide
    <3>2. CASE /\ pc' = [pc EXCEPT ![p] = "delete"] /\ todo' = [todo EXCEPT ![p] = Objs(p)]
               /\ UNCHANGED <<call, names, missing, erased, bytes, res>>
      BY <1>2, <2>16, <3>2, SendInv DEF DeleteDecide
    <3> QED  BY <2>16, <3>1, <3>2 DEF DeleteDecide
  <2>17. CASE DeleteBlob(p)
    BY <1>2, <2>17, DeleteBlobInv
  <2>18. CASE DeleteGone(p)
    <3>1. DeleteInv(p)'
      BY <1>2, <2>18, DeleteGoneKeeps
    <3>2. PICK b \in todo[p] : todo' = [todo EXCEPT ![p] = @ \ {b}]
      BY <2>18 DEF DeleteGone
    <3>3. pc[p] = "delete" /\ UNCHANGED <<server, pc, call, names, missing, erased, bytes, res>>
      BY <2>18 DEF DeleteGone
    <3> QED  BY <1>2, <3>1, <3>2, <3>3, DeletionInv DEF Inv, TypeOK
  <2>19. CASE DeleteDone(p)
    BY <1>2, <2>19, ReturnInv DEF DeleteDone
  <2>20. CASE ListDir(p)
    <3>1. PICK d \in todo[p] :
            /\ names' = [names EXCEPT ![p] = @ \cup FilesOf(d)]
            /\ todo' = [todo EXCEPT ![p] = (@ \ {d}) \cup DirsOf(d)]
      BY <2>20 DEF ListDir
    <3>2. DirsOf(d) \subseteq Seq(STRING) /\ FilesOf(d) \subseteq Blobs
      BY <2>20, <3>1, NamesType DEF ListDir, Inv, DeleteInv
    <3>5. DirsOf(d) \subseteq Paths
      BY <3>2 DEF Paths
    <3>6. names' \in [Procs -> SUBSET Blobs] /\ todo' \in [Procs -> SUBSET Paths]
      BY <3>1, <3>2, <3>5 DEF Inv, TypeOK
    <3>7. DeleteInv(p)'
      BY <2>20, <3>1, <3>2 DEF ListDir, call, DeleteInv, Inv, TypeOK
    <3>3. \A q \in Procs \ {p} : names'[q] = names[q] /\ todo'[q] = todo[q]
      BY <2>20 DEF ListDir, Inv, TypeOK
    <3>4. pc[p] = "walk" /\ UNCHANGED <<server, pc, call, missing, erased, bytes, res>>
      BY <2>20 DEF ListDir
    <3> QED  BY <1>2, <3>3, <3>4, <3>6, <3>7, DeletionInv DEF Inv, TypeOK
  <2>21. CASE WalkDone(p)
    <3>1. CASE Return(p, "missing", None)
      BY <1>2, <2>21, <3>1, ReturnInv DEF WalkDone
    <3>2. CASE /\ pc' = [pc EXCEPT ![p] = "delete"] /\ todo' = [todo EXCEPT ![p] = Objs(p)]
               /\ UNCHANGED <<call, names, missing, erased, bytes, res>>
      BY <1>2, <2>21, <3>2, SendInv DEF WalkDone
    <3> QED  BY <2>21, <3>1, <3>2 DEF WalkDone
  <2>22. CASE DeleteFail(p)
    BY <1>2, <2>22, ReturnInv DEF DeleteFail
  <2> QED
    BY <1>2, <2>1, <2>2, <2>3, <2>4, <2>5, <2>6, <2>7, <2>8, <2>9, <2>10, <2>11, <2>12, <2>13,
       <2>14, <2>15, <2>16, <2>17, <2>18, <2>19, <2>20, <2>21, <2>22 DEF Caller
<1>3. ASSUME NEW b \in Blobs, CopyEnds(b) \/ OtherWrite(b) \/ OtherCopy(b), Observe PROVE Inv'
  BY <1>3, CopyEndsInv, OtherInv
<1> QED  BY <1>1, <1>2, <1>3, AzureAssumption DEF Next

\* The invariant that the properties rest on: which copies run, whose they are and what
\* they copy, what a deletion has found out.
THEOREM InvHolds == Spec => []Inv
<1> QED  BY InitInv, NextInv, PTL DEF Spec

\* awaitCopy aborts the copy on every way out that leaves it running, but for a poll
\* that carries its id and no status.
THEOREM CopiesAreWaitedFor == Spec => []NoCopyLeftRunning
<1>1. Inv => NoCopyLeftRunning  BY DEF Inv
<1> QED  BY <1>1, InvHolds, PTL

-----------------------------------------------------------------------------
\* The step of PolledSizeIsOwn and that of DeletionsAreTold.
PolledStep == \A p \in Procs : pc[p] = "poll" /\ res'[p] = "ok" => bytes'[p] = want[p]

DeletionStep(p) ==
  /\ res'[p] = "ok" => /\ Objs(p) \cap Blobs \subseteq absent[p]
                       /\ \A b \in names[p] \ absent[p] : ~IsClean(b)
  /\ res'[p] = "missing" =>
       erased[p] = {} /\ IF pc[p] = "walk" THEN names[p] = {} ELSE names[p] \cap absent[p] # {}

\* A call that is under way ends by a step of its own.
LEMMA OthersKeepResult ==
  ASSUME Inv, Next, NEW p \in Procs, res'[p] # res[p]
  PROVE  Caller(p)
<1>1. ASSUME NEW q \in Procs, Caller(q), q # p PROVE res'[p] = res[p]
  BY <1>1, ZenonT(30) DEF Caller, Copy, Cancel, CopySelf, StartCopy, StartLost, StartFail, CopySize, Poll,
     PollNoStatus, PollFail, AbortCopy, AbortFail, CopyRefused, PutObject, StreamPut, StreamFail, Delete,
     DeleteCheck, DeleteDecide, DeleteBlob, DeleteGone, DeleteDone, DeleteAll, ListDir, WalkDone,
     DeleteFail, Begin, Return, Goto, Inv, TypeOK
<1>2. ASSUME NEW b \in Blobs, CopyEnds(b) \/ OtherWrite(b) \/ OtherCopy(b) PROVE res' = res
  BY <1>2 DEF CopyEnds, OtherWrite, OtherCopy
<1> QED  BY <1>1, <1>2, AzureAssumption DEF Next

\* awaitCopy takes the size from a poll that carries its own copy id.
THEOREM PolledSizeOwn == Spec => PolledSizeIsOwn
<1>1. Inv /\ [Next]_vars => [PolledStep]_vars
  <2> SUFFICES ASSUME Inv, Next, NEW p \in Procs, pc[p] = "poll", res'[p] = "ok"
               PROVE  bytes'[p] = want[p]
    BY DEF PolledStep
  <2>1. Caller(p)
    BY OthersKeepResult DEF Inv, CallInv
  <2>2. Poll(p) \/ PollNoStatus(p) \/ PollFail(p) \/ Cancel(p)
    BY <2>1 DEF Caller, Copy, CopySelf, StartCopy, StartLost, StartFail, CopySize,
       AbortCopy, AbortFail, CopyRefused, PutObject, StreamPut, StreamFail, Delete,
       DeleteCheck, DeleteDecide, DeleteBlob, DeleteGone, DeleteDone, DeleteAll,
       ListDir, WalkDone, DeleteFail, Begin
  <2>3. Poll(p) /\ res'[p] # res[p]
    BY <2>2 DEF PollNoStatus, PollFail, Cancel, Goto, Return, Inv, TypeOK, CallInv
  <2>4. cid[to[p]] = id[p] /\ cst[to[p]] = "success" /\ Return(p, "ok", blob[to[p]])
    BY <2>3 DEF Poll, Return, Inv, TypeOK
  <2> QED  BY <2>4 DEF Return, Inv, TypeOK, OwnInv
<1> QED  BY <1>1, InvHolds, PTL DEF Spec, PolledSizeIsOwn, PolledStep

\* Delete checks before it deletes, deleteKnown takes a blob that is gone for deleted.
THEOREM DeletionsTold == Spec => DeletionsAreTold
<1> DEFINE A == \A p \in Procs : pc[p] \in Deleting => DeletionStep(p)
<1>1. Inv /\ [Next]_vars => [A]_vars
  <2> SUFFICES ASSUME Inv, Next, NEW p \in Procs, pc[p] \in Deleting, res'[p] \in {"ok", "missing"}
               PROVE  DeletionStep(p)
    BY DEF DeletionStep
  <2>1. Caller(p) /\ res'[p] # res[p]
    BY OthersKeepResult DEF Inv, CallInv
  <2>2. DeleteCheck(p) \/ DeleteDecide(p) \/ DeleteBlob(p) \/ DeleteGone(p) \/ DeleteDone(p)
          \/ ListDir(p) \/ WalkDone(p) \/ DeleteFail(p) \/ Cancel(p)
    BY <2>1 DEF Caller, Copy, CopySelf, StartCopy, StartLost, StartFail, CopySize, Poll, PollNoStatus, PollFail,
       AbortCopy, AbortFail, CopyRefused, PutObject, StreamPut, StreamFail, Delete, DeleteAll, Begin
  <2>3. CASE DeleteDecide(p)
    BY <2>1, <2>3, SMTT(30) DEF DeleteDecide, Return, Inv, TypeOK, DeleteInv, DeletionStep
  <2>4. CASE DeleteDone(p)
    <3>1. pc[p] = "delete" /\ todo[p] = {} /\ DeleteInv(p) /\ names[p] \subseteq Blobs
      BY <2>4 DEF DeleteDone, Inv, TypeOK
    <3>2. Objs(p) \cap Blobs \subseteq absent[p] /\ from[p] \in Dirs \cup {None}
      BY <3>1 DEF DeleteInv
    <3>3. ASSUME NEW b \in names[p], IsClean(b) PROVE b \in Objs(p)
      <4>1. CASE from[p] = None
        BY <4>1 DEF Objs
      <4>2. CASE from[p] # None
        <5>1. Addressed(from[p], b) = b
          BY <3>1, <3>2, <3>3, <4>2, CleanAddressed, AzureAssumption
        <5> QED  BY <4>2, <5>1 DEF Objs
      <4> QED  BY <4>1, <4>2
    <3>4. res'[p] = "ok"
      BY <2>4 DEF DeleteDone, Return, Inv, TypeOK
    <3> QED  BY <3>1, <3>2, <3>3, <3>4 DEF DeletionStep
  <2>5. CASE WalkDone(p)
    <3>1. pc[p] = "walk" /\ names[p] = {} /\ Return(p, "missing", None)
      BY <2>1, <2>5 DEF WalkDone
    <3>2. erased[p] = {} /\ res'[p] = "missing"
      BY <3>1 DEF Return, Inv, TypeOK, DeleteInv
    <3> QED  BY <3>1, <3>2 DEF DeletionStep
  <2>6. CASE DeleteFail(p)
    BY <2>6 DEF DeleteFail, Return, Inv, TypeOK
  <2>7. CASE DeleteCheck(p) \/ DeleteBlob(p) \/ DeleteGone(p) \/ ListDir(p) \/ Cancel(p)
    BY <2>1, <2>7 DEF DeleteCheck, DeleteBlob, DeleteGone, ListDir, Cancel
  <2> QED  BY <2>2, <2>3, <2>4, <2>5, <2>6, <2>7
<1> QED  BY <1>1, InvHolds, PTL DEF Spec, DeletionsAreTold, DeletionStep, Deleting
=============================================================================
