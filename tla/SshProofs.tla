------------------------------ MODULE SshProofs ------------------------------
(***************************************************************************)
(* Proofs about the package ssh.  First storage.go, the module SshBackend, *)
(* for any number of calls, names and bodies; then sftp_lazy.go, SftpLazy, *)
(* for any number of callers, closers and connections, with a              *)
(* ConnectTimeout or without: its safety properties follow from one        *)
(* inductive invariant, LazyInv, which says who owns the lock, the         *)
(* connection of an attempt and the AfterFunc on it at every step.         *)
(***************************************************************************)
EXTENDS SshBackend, SftpLazy, TLAPS

WithTemp == {"fill", "posix", "aside", "plain", "move", "restore", "drop_aside", "drop_tmp"}
WithAside == {"move", "restore", "drop_aside"}
Writing == {"put_mkdir", "put_stat", "copy_stat", "copy_dst", "copy_open", "copy_mkdir",
            "create"} \cup WithTemp
Reading == {"copy_stat", "copy_dst", "copy_open", "all_stat", "all_read", "all_unlink", "all_rmdir"}

\* What a call holds at each of its requests, and when it has renamed its file.
CallInv == \A p \in Procs :
  /\ tmp[p] # None <=> pc[p] \in WithTemp
  /\ aside[p] # None <=> pc[p] \in WithAside
  /\ pc[p] \in Writing => to[p] \in Keys
  /\ pc[p] \in Reading => from[p] \in Keys
  /\ pc[p] \in {"put_mkdir", "put_stat"} => op[p] = "put"
  /\ wrote[p] => pc[p] = "drop_aside" \/ (pc[p] = "idle" /\ res[p] # "none")
  /\ pc[p] = "drop_aside" => wrote[p]

\* No two names that calls hold are the same.
OwnInv == \A p, q \in Procs :
  /\ tmp[p] # None => tmp[p] # aside[q] /\ (p # q => tmp[p] # tmp[q])
  /\ aside[p] # None /\ p # q => aside[p] # aside[q]

\* Directories are below the root; a file has its directory; what left with a
\* directory is with that directory; a temporary is in one place.
TreeInv ==
  /\ \A n \in Names : node[n] = Dir => DirOf[n] = Root
  /\ \A n \in Names : node[n] # None => HasDir(n)
  /\ \A t \in Temps, n \in Names : moved[t][n] # None =>
       node[t] = Dir /\ DirOf[n] \in Keys /\ moved[t][n] # Dir
  /\ \A t, u \in Temps : node[t] # None => moved[u][t] = None
  /\ \A t, u, w \in Temps : moved[u][t] # None /\ moved[w][t] # None => u = w

\* Whether t is a file somewhere.
Placed(t) == node[t] # None \/ \E u \in Temps : moved[u][t] # None

\* prev and orphans name files that are there.
PrevInv ==
  /\ \A t \in Temps : prev[t] # None => Placed(t)
  /\ \A t \in orphans : Placed(t) /\ ~Held(t)

\* Nothing that has, had or will have an object's name is incomplete.
WholeInv ==
  /\ WholeObjects
  /\ \A k \in Keys, u \in Temps : moved[u][k] # Partial

\* The temporary of a call: complete once it was closed, and gone once it was renamed.
TempInv == \A p \in Procs : tmp[p] # None =>
  /\ DirOf[tmp[p]] = DirOf[to[p]] /\ prev[tmp[p]] = None /\ node[tmp[p]] # Dir
  /\ pc[p] \notin {"fill", "drop_tmp"} =>
       node[tmp[p]] # Partial /\ \A u \in Temps : moved[u][tmp[p]] # Partial
  /\ pc[p] = "drop_aside" => ~Placed(tmp[p])

\* What a call moved aside: the whole object of its destination, or a directory with
\* what was in it.
AsideInv == \A p \in Procs : aside[p] # None =>
  /\ DirOf[aside[p]] = DirOf[to[p]] /\ prev[aside[p]] \in {None, to[p]}
  /\ node[aside[p]] # Partial /\ \A u \in Temps : moved[u][aside[p]] # Partial
  /\ \A n \in Names : moved[aside[p]][n] # None => DirOf[n] = to[p]

\* An object that was not deleted is somewhere, and not only under a name that a call
\* is about to remove.
Spare(t, k) ==
  /\ prev[t] = k
  /\ \A p \in Procs : pc[p] = "drop_aside" => aside[p] # t
  /\ node[t] \in Values \/ \E u \in Temps : moved[u][t] \in Values
Kept(k) == \/ node[k] \in Values
           \/ \E t \in Temps : moved[t][k] \in Values
           \/ \E t \in Temps : Spare(t, k)
KeptInv == \A k \in objs : Kept(k)

Inv == /\ TypeOK /\ CallInv /\ OwnInv /\ TreeInv /\ PrevInv /\ WholeInv /\ TempInv
       /\ AsideInv /\ KeptInv /\ TempsAccounted

-----------------------------------------------------------------------------
\* Initially no call is under way, no temporary exists and every file is whole.
LEMMA InitInv == Init => Inv
<1> SUFFICES ASSUME Init PROVE Inv
  OBVIOUS
<1> USE SshTree, SshDisjoint
<1>1. TypeOK
  BY DEF Init, TypeOK, PCs, Empty, Files, Names, IsFile
<1>2. CallInv /\ OwnInv
  BY DEF Init, CallInv, OwnInv, WithTemp, WithAside, Writing, Reading
<1>3. \A t \in Temps : node[t] = None /\ \A n \in Names : moved[t][n] = None
  BY DEF Init, Empty
<1>4. TreeInv
  <2>1. \A n \in Names : (node[n] = Dir => DirOf[n] = Root) /\ (node[n] # None => HasDir(n))
    BY <1>3 DEF Init, Names
  <2> QED  BY <2>1, <1>3 DEF TreeInv, Names
<1>5. PrevInv /\ TempInv /\ AsideInv /\ TempsAccounted
  BY <1>3 DEF Init, PrevInv, TempInv, AsideInv, TempsAccounted
<1>6. WholeInv
  BY <1>3 DEF Init, WholeInv, WholeObjects, Names
<1>7. KeptInv
  BY DEF Init, KeptInv, Kept, IsFile, Files, Names
<1> QED  BY <1>1, <1>2, <1>4, <1>5, <1>6, <1>7 DEF Inv

\* The types of the server's state and of the calls'.
TreeType ==
  /\ node \in [Names -> Files \cup {Dir, None}]
  /\ moved \in [Temps -> [Names -> Files \cup {Dir, None}]]
  /\ objs \subseteq Keys /\ prev \in [Temps -> Keys \cup {None}] /\ orphans \subseteq Temps
CallType ==
  /\ pc \in [Procs -> PCs]
  /\ op \in [Procs -> {"none", "put", "copy", "delete", "deleteall"}]
  /\ from \in [Procs -> Keys \cup {None}] /\ to \in [Procs -> Keys \cup {None}]
  /\ body \in [Procs -> Values \cup {None}]
  /\ tmp \in [Procs -> Temps \cup {None}] /\ aside \in [Procs -> Temps \cup {None}]
  /\ todo \in [Procs -> SUBSET Names] /\ paths \in [Procs -> SUBSET Keys]
  /\ missing \in [Procs -> BOOLEAN]
  /\ res \in [Procs -> {"none", "ok", "missing", "error", "dropped"}]
  /\ wrote \in [Procs -> BOOLEAN]

\* What a call's return leaves of its own variables, and of the others'.
LEMMA ReturnFacts ==
  ASSUME CallType, CallInv, OwnInv, NEW p \in Procs,
         NEW r \in {"ok", "missing", "error", "dropped"}, Return(p, r),
         wrote' \in [Procs -> BOOLEAN], \A q \in Procs : q # p => wrote'[q] = wrote[q]
  PROVE  CallType' /\ CallInv' /\ OwnInv'
<1>1. CallType'
  <2>1. todo' \in [Procs -> SUBSET Names] /\ paths' \in [Procs -> SUBSET Keys]
    BY DEF CallType, Return
  <2>2. missing' \in [Procs -> BOOLEAN]
    BY DEF CallType, Return
  <2>3. tmp' \in [Procs -> Temps \cup {None}] /\ aside' \in [Procs -> Temps \cup {None}]
    BY DEF CallType, Return
  <2>4. pc' \in [Procs -> PCs]
    BY DEF CallType, Return, PCs
  <2> QED  BY <2>1, <2>2, <2>3, <2>4 DEF CallType, Return
<1>2. /\ pc'[p] = "idle" /\ tmp'[p] = None /\ aside'[p] = None /\ res'[p] = r
      /\ \A q \in Procs : q # p =>
           /\ pc'[q] = pc[q] /\ op'[q] = op[q] /\ from'[q] = from[q] /\ to'[q] = to[q]
           /\ tmp'[q] = tmp[q] /\ aside'[q] = aside[q] /\ res'[q] = res[q]
  BY DEF CallType, Return
<1>3. CallInv'
  BY <1>2 DEF CallInv, WithTemp, WithAside, Writing, Reading
<1>4. OwnInv'
  BY <1>2 DEF OwnInv
<1> QED  BY <1>1, <1>3, <1>4

\* A call goes on to its next request.
LEMMA GotoFacts ==
  ASSUME CallType, CallInv, OwnInv, NEW p \in Procs, NEW at \in PCs, Goto(p, at),
         UNCHANGED <<tmp, aside, wrote>>,
         body' \in [Procs -> Values \cup {None}],
         todo' \in [Procs -> SUBSET Names], paths' \in [Procs -> SUBSET Keys],
         missing' \in [Procs -> BOOLEAN],
         at \in WithTemp <=> pc[p] \in WithTemp, at \in WithAside <=> pc[p] \in WithAside,
         at \in Writing => pc[p] \in Writing, at \in Reading => pc[p] \in Reading,
         at # "put_mkdir", at = "put_stat" => op[p] = "put",
         at \notin {"idle", "drop_aside"}, pc[p] \notin {"idle", "drop_aside"}
  PROVE  CallType' /\ CallInv' /\ OwnInv'
<1>1. pc' \in [Procs -> PCs] /\ pc'[p] = at /\ \A q \in Procs : q # p => pc'[q] = pc[q]
  BY DEF CallType, Goto
<1>2. CallType'
  BY <1>1 DEF CallType, Goto
<1>3. CallInv'
  <2> SUFFICES ASSUME NEW q \in Procs PROVE CallInv!(q)'
    BY DEF CallInv
  <2>1. CallInv!(q) /\ UNCHANGED <<tmp, aside, to, from, op, wrote, res>>
    BY DEF CallInv, Goto
  <2>2. CASE q # p
    BY <2>1, <2>2, <1>1
  <2>3. CASE q = p
    BY <2>1, <2>3, <1>1
  <2> QED  BY <2>2, <2>3
<1>4. OwnInv'
  BY DEF OwnInv
<1> QED  BY <1>2, <1>3, <1>4

\* Begin starts a call that holds nothing yet.
LEMMA BeginFacts ==
  ASSUME CallType, CallInv, OwnInv, NEW p \in Procs,
         NEW o \in {"put", "copy", "delete", "deleteall"},
         NEW at \in {"put_mkdir", "copy_stat", "check", "all_stat"},
         NEW s \in Keys \cup {None}, NEW d \in Keys \cup {None}, NEW v \in Values \cup {None},
         NEW set \in SUBSET Keys, Begin(p, o, at, s, d, v, set),
         at \in {"put_mkdir", "copy_stat"} => d \in Keys,
         at \in {"copy_stat", "all_stat"} => s \in Keys, at = "put_mkdir" => o = "put"
  PROVE  CallType' /\ CallInv' /\ OwnInv'
<1>1. /\ pc'[p] = at /\ op'[p] = o /\ from'[p] = s /\ to'[p] = d
      /\ \A q \in Procs : q # p =>
           pc'[q] = pc[q] /\ op'[q] = op[q] /\ from'[q] = from[q] /\ to'[q] = to[q]
      /\ UNCHANGED <<tmp, aside, res, wrote>> /\ pc[p] = "idle" /\ res[p] = "none"
  BY DEF CallType, Begin
<1>2. CallType'
  <2>1. set \in SUBSET Names
    BY DEF Names
  <2>2. todo' \in [Procs -> SUBSET Names]
    BY <2>1 DEF CallType, Begin
  <2>3. paths' \in [Procs -> SUBSET Keys]
    BY DEF CallType, Begin
  <2>4. pc' \in [Procs -> PCs]
    BY DEF CallType, Begin, PCs
  <2>5. op' \in [Procs -> {"none", "put", "copy", "delete", "deleteall"}]
    BY DEF CallType, Begin
  <2>6. from' \in [Procs -> Keys \cup {None}] /\ to' \in [Procs -> Keys \cup {None}]
    BY DEF CallType, Begin
  <2>7. body' \in [Procs -> Values \cup {None}]
    BY DEF CallType, Begin
  <2> QED  BY <2>2, <2>3, <2>4, <2>5, <2>6, <2>7 DEF CallType, Begin
<1>3. CallInv'
  <2> SUFFICES ASSUME NEW q \in Procs PROVE CallInv!(q)'
    BY DEF CallInv
  <2>1. CallInv!(q)
    BY DEF CallInv
  <2>2. CASE q # p
    BY <2>1, <2>2, <1>1
  <2>3. CASE q = p
    BY <2>1, <2>3, <1>1 DEF WithTemp, WithAside, Writing, Reading
  <2> QED  BY <2>2, <2>3
<1>4. OwnInv'
  BY <1>1 DEF OwnInv
<1> QED  BY <1>2, <1>3, <1>4

\* A call draws a name for its temporary, or for the object it moves aside.
LEMMA HoldFacts ==
  ASSUME CallType, CallInv, OwnInv, NEW p \in Procs, NEW t \in Temps, ~Held(t),
         UNCHANGED <<body, todo, paths, missing, wrote>>,
         \/ /\ pc[p] = "create" /\ Goto(p, "fill")
            /\ tmp' = [tmp EXCEPT ![p] = t] /\ aside' = aside
         \/ /\ pc[p] = "aside" /\ Goto(p, "move")
            /\ aside' = [aside EXCEPT ![p] = t] /\ tmp' = tmp
  PROVE  CallType' /\ CallInv' /\ OwnInv'
<1>1. t # None /\ \A q \in Procs : t # tmp[q] /\ t # aside[q]
  BY SshDisjoint DEF Held, Names
<1>2. /\ pc' \in [Procs -> PCs] /\ pc'[p] = IF pc[p] = "create" THEN "fill" ELSE "move"
      /\ \A q \in Procs : q # p => pc'[q] = pc[q] /\ tmp'[q] = tmp[q] /\ aside'[q] = aside[q]
  BY DEF CallType, Goto, PCs
<1>3. tmp' \in [Procs -> Temps \cup {None}] /\ aside' \in [Procs -> Temps \cup {None}]
  BY DEF CallType
<1>4. CallType'
  BY <1>2, <1>3 DEF CallType, Goto
<1>5. CallInv'
  <2> SUFFICES ASSUME NEW q \in Procs PROVE CallInv!(q)'
    BY DEF CallInv
  <2>1. CallInv!(q) /\ UNCHANGED <<to, from, op, wrote, res>>
    BY DEF CallInv, Goto
  <2>2. CASE q # p
    BY <2>1, <2>2, <1>2
  <2>3. CASE q = p
    BY <2>1, <2>3, <1>1, <1>2 DEF CallType, WithTemp, WithAside, Writing, Reading
  <2> QED  BY <2>2, <2>3
<1>6. OwnInv'
  BY <1>1 DEF CallType, OwnInv
<1> QED  BY <1>4, <1>5, <1>6

\* A call gives up the name of the object it had moved aside, or goes on to remove it.
LEMMA ReleaseFacts ==
  ASSUME CallType, CallInv, OwnInv, NEW p \in Procs,
         UNCHANGED <<body, todo, paths, missing, tmp>>,
         \/ /\ pc[p] = "restore" /\ Goto(p, "drop_tmp")
            /\ aside' = [aside EXCEPT ![p] = None] /\ wrote' = wrote
         \/ /\ pc[p] = "move" /\ Goto(p, "drop_aside")
            /\ wrote' = [wrote EXCEPT ![p] = TRUE] /\ aside' = aside
  PROVE  CallType' /\ CallInv' /\ OwnInv'
<1>1. /\ pc' \in [Procs -> PCs] /\ pc'[p] = IF pc[p] = "restore" THEN "drop_tmp" ELSE "drop_aside"
      /\ \A q \in Procs : q # p => pc'[q] = pc[q] /\ wrote'[q] = wrote[q] /\ aside'[q] = aside[q]
  BY DEF CallType, Goto, PCs
<1>2. wrote' \in [Procs -> BOOLEAN]
  BY DEF CallType
<1>3. aside' \in [Procs -> Temps \cup {None}]
  BY DEF CallType
<1>4. CallType'
  BY <1>1, <1>2, <1>3 DEF CallType, Goto
<1>5. CallInv'
  <2> SUFFICES ASSUME NEW q \in Procs PROVE CallInv!(q)'
    BY DEF CallInv
  <2>1. CallInv!(q) /\ UNCHANGED <<to, from, op, res, tmp>>
    BY DEF CallInv, Goto
  <2>2. CASE q # p
    BY <2>1, <2>2, <1>1
  <2>3. CASE q = p
    BY <2>1, <2>3, <1>1 DEF CallType, WithTemp, WithAside, Writing, Reading
  <2> QED  BY <2>2, <2>3
<1>6. OwnInv'
  BY DEF CallType, OwnInv
<1> QED  BY <1>4, <1>5, <1>6

\* Every step keeps what the calls know of themselves.
LEMMA CallStep ==
  ASSUME CallType, CallInv, OwnInv, node \in [Names -> Files \cup {Dir, None}], WholeObjects,
         NEW p \in Procs, Step(p)
  PROVE  CallType' /\ CallInv' /\ OwnInv'
<1> DEFINE G == CallType' /\ CallInv' /\ OwnInv'
<1> SUFFICES G
  OBVIOUS
<1>w. wrote \in [Procs -> BOOLEAN] /\ (wrote' = wrote \/ wrote' = [wrote EXCEPT ![p] = TRUE]
       => wrote' \in [Procs -> BOOLEAN] /\ \A q \in Procs : q # p => wrote'[q] = wrote[q])
  BY DEF CallType
<1>r. ASSUME NEW r \in {"ok", "missing", "error", "dropped"}, Return(p, r), 
             wrote' = wrote \/ wrote' = [wrote EXCEPT ![p] = TRUE]
      PROVE  G
  BY <1>r, <1>w, ReturnFacts
<1>g. ASSUME NEW at \in PCs, Goto(p, at), UNCHANGED <<tmp, aside, wrote>>,
             body' = body \/ body' \in [Procs -> Values \cup {None}],
             todo' = todo \/ todo' \in [Procs -> SUBSET Names], UNCHANGED <<paths, missing>>,
             at \in WithTemp <=> pc[p] \in WithTemp, at \in WithAside <=> pc[p] \in WithAside,
             at \in Writing => pc[p] \in Writing, at \in Reading => pc[p] \in Reading,
             at # "put_mkdir", at = "put_stat" => op[p] = "put",
             at \notin {"idle", "drop_aside"}, pc[p] \notin {"idle", "drop_aside"}
      PROVE  G
  <2>1. /\ body' \in [Procs -> Values \cup {None}] /\ todo' \in [Procs -> SUBSET Names]
        /\ paths' \in [Procs -> SUBSET Keys] /\ missing' \in [Procs -> BOOLEAN]
    BY <1>g DEF CallType
  <2> QED  BY <2>1, <1>g, GotoFacts
<1> HIDE DEF G
<1>1. CASE PutObject(p)
  <2>1. PICK k \in Keys, v \in Values : Begin(p, "put", "put_mkdir", None, k, v, {})
    BY <1>1 DEF PutObject
  <2> QED  BY <2>1, BeginFacts DEF G
<1>2. CASE Copy(p)
  <2>1. PICK s \in Keys, d \in Keys : Begin(p, "copy", "copy_stat", s, d, None, {})
    BY <1>2 DEF Copy
  <2> QED  BY <2>1, BeginFacts DEF G
<1>3. CASE Delete(p)
  <2>1. PICK s \in SUBSET Keys : Begin(p, "delete", "check", None, None, None, s)
    BY <1>3 DEF Delete
  <2> QED  BY <2>1, BeginFacts DEF G
<1>4. CASE DeleteAll(p)
  <2>1. PICK k \in Keys : Begin(p, "deleteall", "all_stat", k, None, None, {})
    BY <1>4 DEF DeleteAll
  <2> QED  BY <2>1, BeginFacts DEF G
<1> USE DEF WithTemp, WithAside, Writing, Reading, PCs, delVars
<1>5. CASE CopyStat(p)
  BY <1>5, <1>r, <1>g DEF CopyStat
<1>6. CASE StatDst(p)
  <2>1. pc[p] = "put_stat" => op[p] = "put"
    BY DEF CallInv
  <2> QED  BY <2>1, <1>6, <1>r, <1>g DEF StatDst
<1>7. CASE CopyOpen(p)
  <2>1. from[p] \in Keys
    BY <1>7 DEF CopyOpen, CallInv
  <2>2. IsFile(from[p]) => node[from[p]] \in Values
    BY <2>1 DEF IsFile, Files, WholeObjects
  <2>3. CASE node[from[p]] = None /\ Return(p, "missing")
    BY <2>3, <1>7, <1>r DEF CopyOpen
  <2>4. CASE /\ body' = [body EXCEPT ![p] = IF IsFile(from[p]) THEN node[from[p]] ELSE None]
             /\ Goto(p, "copy_mkdir") /\ UNCHANGED <<tmp, aside, delVars>>
    <3>1. body' \in [Procs -> Values \cup {None}]
      BY <2>2, <2>4 DEF CallType
    <3> QED  BY <3>1, <2>4, <1>7, <1>g DEF CopyOpen
  <2> QED  BY <2>3, <2>4, <1>7 DEF CopyOpen
<1>8. CASE MkdirAll(p)
  BY <1>8, <1>r, <1>g DEF MkdirAll
<1>9. CASE Create(p)
  <2>1. PICK t \in Temps : Unused(t) /\ tmp' = [tmp EXCEPT ![p] = t]
    BY <1>9 DEF Create
  <2> QED  BY <2>1, <1>9, HoldFacts DEF Create, G, Unused
<1>10. CASE Fill(p) \/ FillFail(p) \/ PosixFail(p) \/ MoveAsideFail(p)
  BY <1>10, <1>g DEF Fill, FillFail, PosixFail, MoveAsideFail
<1>11. CASE Replace(p) \/ ReplaceLost(p)
  BY <1>11, <1>r DEF Replace, ReplaceLost, PosixRename
<1>12. CASE MoveAside(p)
  <2>1. PICK t \in Temps : Unused(t) /\ aside' = [aside EXCEPT ![p] = t]
    BY <1>12 DEF MoveAside
  <2> QED  BY <2>1, <1>12, HoldFacts DEF MoveAside, G, Unused
<1>13. CASE MoveIn(p)
  <2>1. CASE pc[p] = "plain" /\ Return(p, "ok")
    BY <2>1, <1>13, <1>r DEF MoveIn
  <2>2. CASE pc[p] = "move" /\ Goto(p, "drop_aside") /\ UNCHANGED <<body, tmp, aside, delVars>>
    BY <2>2, <1>13, ReleaseFacts DEF MoveIn, G
  <2> QED  BY <2>1, <2>2, <1>13 DEF MoveIn
<1>14. CASE MoveInFail(p)
  BY <1>14, <1>g DEF MoveInFail
<1>15. CASE Restore(p)
  BY <1>15, ReleaseFacts DEF Restore, G
<1>16. CASE RestoreFail(p)
  BY <1>16, ReleaseFacts DEF RestoreFail, G
<1>17. CASE DropAside(p) \/ DropTmp(p) \/ AllRmdir(p) \/ Fail(p) \/ Drop(p)
  BY <1>17, <1>r DEF DropAside, DropTmp, AllRmdir, Fail, Drop
<1>18. CASE DeleteCheck(p)
  <2>1. /\ todo' \in [Procs -> SUBSET Names] /\ missing' \in [Procs -> BOOLEAN]
    BY <1>18 DEF DeleteCheck, CallType
  <2>2. CallType'
    BY <2>1, <1>18 DEF DeleteCheck, CallType, args
  <2> QED  BY <2>2, <1>18 DEF DeleteCheck, args, CallInv, OwnInv, G
<1>19. CASE DeleteDecide(p)
  <2>1. CASE Return(p, "missing")
    BY <2>1, <1>19, <1>r DEF DeleteDecide
  <2>2. CASE /\ todo' = [todo EXCEPT ![p] = paths[p]] /\ Goto(p, "unlink")
             /\ UNCHANGED <<body, tmp, aside, paths, missing>>
    <3>1. paths[p] \subseteq Keys /\ Keys \subseteq Names
      BY DEF CallType, Names
    <3>2. todo' \in [Procs -> SUBSET Names]
      BY <3>1, <2>2 DEF CallType
    <3> QED  BY <3>2, <2>2, <1>19, <1>g DEF DeleteDecide
  <2> QED  BY <2>1, <2>2, <1>19 DEF DeleteDecide
<1>20. CASE Unlink(p)
  <2>1. todo' \in [Procs -> SUBSET Names]
    BY <1>20 DEF Unlink, CallType
  <2>2. CallType'
    BY <2>1, <1>20 DEF Unlink, CallType, args
  <2> QED  BY <2>2, <1>20 DEF Unlink, args, CallInv, OwnInv, G
<1>21. CASE UnlinkDone(p) \/ AllStat(p)
  BY <1>21, <1>r, <1>g DEF UnlinkDone, AllStat
<1>22. CASE AllRead(p)
  <2>1. from[p] \in Names
    BY <1>22 DEF AllRead, CallInv, Names
  <2>2. todo' \in [Procs -> SUBSET Names]
    BY <2>1, <1>22 DEF AllRead, CallType, Inside
  <2>3. CASE node[from[p]] = Dir
    <3>1. Goto(p, "all_unlink")
      BY <2>3, <1>22 DEF AllRead
    <3> QED  BY <3>1, <2>2, <1>22, <1>g DEF AllRead
  <2>4. CASE node[from[p]] # Dir
    <3>1. Goto(p, "unlink")
      BY <2>4, <1>22 DEF AllRead
    <3> QED  BY <3>1, <2>2, <1>22, <1>g DEF AllRead
  <2> QED  BY <2>3, <2>4
<1> QED
  <2>1. CASE \/ Replace(p) \/ ReplaceLost(p) \/ PosixFail(p) \/ MoveAside(p) \/ MoveAsideFail(p)
             \/ MoveIn(p) \/ MoveInFail(p) \/ Restore(p) \/ RestoreFail(p)
             \/ DropAside(p) \/ DropTmp(p)
    BY <2>1, <1>10, <1>11, <1>12, <1>13, <1>14, <1>15, <1>16, <1>17
  <2> QED
    BY <2>1, <1>1, <1>2, <1>3, <1>4, <1>5, <1>6, <1>7, <1>8, <1>9, <1>10, <1>17, <1>18, <1>19,
       <1>20, <1>21, <1>22 DEF Step

-----------------------------------------------------------------------------
\* What a step of one call leaves alone of the others'.
Others(p) == \A q \in Procs : q # p =>
  pc'[q] = pc[q] /\ to'[q] = to[q] /\ tmp'[q] = tmp[q] /\ aside'[q] = aside[q]

\* The part of the invariant that is about the server.
Server == /\ TreeType /\ TreeInv /\ PrevInv /\ WholeInv /\ TempInv /\ AsideInv /\ KeptInv
          /\ TempsAccounted

\* A step that changes no file: the call p goes on or ends, and gives up the names ts.
LEMMA KeepTree ==
  ASSUME CallType, CallInv, OwnInv, Server, CallType', CallInv',
         NEW p \in Procs, Others(p), NEW ts,
         UNCHANGED <<node, moved, objs, prev>>,
         orphans' = orphans \cup {t \in ts \cap Temps : node[t] # None},
         tmp'[p] \in {tmp[p], None}, aside'[p] \in {aside[p], None},
         tmp'[p] # None => to'[p] = to[p] /\ (pc'[p] \in {"fill", "drop_tmp"}
                                               \/ pc[p] \notin {"fill", "drop_tmp"}),
         pc'[p] # "drop_aside",
         \A t \in ts \cap Temps : t \in {tmp[p], aside[p]} /\ t \notin {tmp'[p], aside'[p]},
         \A t \in {tmp[p], aside[p]} \cap Temps :
            t \in {tmp'[p], aside'[p]} \/ t \in ts \/ node[t] = None
  PROVE  Server'
<1> USE DEF Server
<1>0. None \notin Temps
  BY SshDisjoint DEF Names
<1>1. TreeType' /\ TreeInv' /\ WholeInv'
  BY DEF TreeType, TreeInv, WholeInv, WholeObjects, HasDir
<1>2. \A t \in Temps : Held(t)' => Held(t)
  BY <1>0 DEF Held, Others, CallType
<1>3. \A t \in ts \cap Temps : ~Held(t)'
  BY <1>0 DEF Held, Others, OwnInv, CallType
<1>4. PrevInv'
  <2>1. \A t \in orphans' : t \in Temps
    BY DEF TreeType
  <2>2. \A t \in orphans' : Placed(t)' /\ ~Held(t)'
    BY <2>1, <1>2, <1>3 DEF PrevInv, Placed
  <2> QED  BY <2>2 DEF PrevInv, Placed
<1>5. TempInv'
  <2> SUFFICES ASSUME NEW q \in Procs, tmp'[q] # None PROVE TempInv!(q)!2'
    BY DEF TempInv
  <2>1. tmp'[q] = tmp[q] /\ to'[q] = to[q] /\ tmp[q] # None
    BY DEF Others
  <2>2. TempInv!(q)!2
    BY <2>1 DEF TempInv
  <2> QED  BY <2>1, <2>2 DEF Others, Placed
<1>6. AsideInv'
  <2> SUFFICES ASSUME NEW q \in Procs, aside'[q] # None PROVE AsideInv!(q)!2'
    BY DEF AsideInv
  <2>1. aside'[q] = aside[q] /\ to'[q] = to[q] /\ aside[q] # None
    BY DEF Others, CallInv, WithTemp, WithAside
  <2>2. AsideInv!(q)!2
    BY <2>1 DEF AsideInv
  <2> QED  BY <2>1, <2>2
<1>7. KeptInv'
  <2>1. \A q \in Procs : pc'[q] = "drop_aside" => pc[q] = "drop_aside" /\ aside'[q] = aside[q]
    BY DEF Others
  <2> QED  BY <2>1 DEF KeptInv, Kept, Spare
<1>8. TempsAccounted'
  <2> SUFFICES ASSUME NEW t \in Temps, node[t] # None, t \notin orphans PROVE t \in orphans' \/ Held(t)'
    BY DEF TempsAccounted
  <2>1. PICK q \in Procs : t \in {tmp[q], aside[q]}
    BY DEF TempsAccounted, Held
  <2> QED  BY <2>1 DEF Held, Others
<1> QED  BY <1>1, <1>4, <1>5, <1>6, <1>7, <1>8

\* Removing a file or an empty directory keeps the tree a tree.
LEMMA RemoveTree ==
  ASSUME TreeType, TreeInv, WholeInv, NEW n \in Names, CanRemove(n), Removed(n)
  PROVE  /\ node' \in [Names -> Files \cup {Dir, None}] /\ moved' = moved
         /\ prev' \in [Temps -> Keys \cup {None}]
         /\ TreeInv' /\ WholeInv'
         /\ n \in Temps => \A x \in Names : moved[n][x] = None
         /\ n \in Temps => \A u \in Temps : moved[u][n] = None
         /\ node'[n] = None /\ \A x \in Names : x # n => node'[x] = node[x]
         /\ \A t \in Temps : prev'[t] = IF t = n THEN None ELSE prev[t]
<1>1. /\ node' \in [Names -> Files \cup {Dir, None}] /\ moved' = moved
      /\ prev' \in [Temps -> Keys \cup {None}]
      /\ node'[n] = None /\ \A x \in Names : x # n => node'[x] = node[x]
      /\ \A t \in Temps : prev'[t] = IF t = n THEN None ELSE prev[t]
  BY DEF TreeType, Removed
<1>2. node[n] # None
  BY SshDisjoint DEF CanRemove, IsFile, Files
<1>3. n \in Temps => \A x \in Names : moved[n][x] = None
  <2>1. CASE IsFile(n)
    BY <2>1, SshDisjoint DEF TreeInv, IsFile, Files
  <2>2. CASE ~IsFile(n)
    BY <2>2 DEF CanRemove, Empty
  <2> QED  BY <2>1, <2>2
<1>4. n \in Temps => \A u \in Temps : moved[u][n] = None
  BY <1>2 DEF TreeInv
<1>5. \A x \in Names : node'[x] # None => HasDir(x)'
  <2> SUFFICES ASSUME NEW x \in Names, node'[x] # None PROVE HasDir(x)'
    OBVIOUS
  <2>1. x # n /\ node[x] # None /\ HasDir(x)
    BY <1>1 DEF TreeInv
  <2>2. DirOf[x] # n \/ node[n] # Dir
    BY <2>1, SshDisjoint DEF CanRemove, Inside, IsFile, Files
  <2> QED  BY <2>1, <2>2, <1>1, SshTree DEF HasDir, Names
<1>6. TreeInv'
  BY <1>1, <1>3, <1>5, SshDisjoint DEF TreeInv, Names
<1>7. WholeInv'
  BY <1>1, SshDisjoint DEF WholeInv, WholeObjects, Names
<1> QED  BY <1>1, <1>3, <1>4, <1>6, <1>7

\* removeQuietly: the call p removes the file t that it holds, and ends.
LEMMA DropFacts ==
  ASSUME CallType, CallInv, OwnInv, Server, CallType', CallInv',
         NEW p \in Procs, Others(p), NEW t \in Temps, CanRemove(t), Removed(t),
         UNCHANGED <<objs, orphans>>, tmp'[p] = None, aside'[p] = None, pc'[p] = "idle",
         \/ t = aside[p] /\ pc[p] = "drop_aside"
         \/ t = tmp[p] /\ pc[p] = "drop_tmp"
  PROVE  Server'
<1> USE DEF Server
<1>0. None \notin Temps /\ t \in Names
  BY SshDisjoint DEF Names
<1>1. /\ node' \in [Names -> Files \cup {Dir, None}] /\ moved' = moved
      /\ prev' \in [Temps -> Keys \cup {None}]
      /\ TreeInv' /\ WholeInv'
      /\ \A x \in Names : moved[t][x] = None
      /\ \A u \in Temps : moved[u][t] = None
      /\ node'[t] = None /\ \A x \in Names : x # t => node'[x] = node[x]
      /\ \A u \in Temps : prev'[u] = IF u = t THEN None ELSE prev[u]
  BY <1>0, RemoveTree
<1>2. TreeType'
  BY <1>1 DEF TreeType
<1>3. \A q \in Procs : tmp'[q] # None \/ aside'[q] # None => q # p
  OBVIOUS
<1>4. Held(t)
  BY DEF Held
<1>5. PrevInv'
  <2>1. \A u \in Temps : u # t /\ Placed(u) => Placed(u)'
    BY <1>1 DEF Placed, Names
  <2>2. \A u \in Temps : Held(u)' => Held(u)
    BY <1>0 DEF Held, Others
  <2> QED  BY <2>1, <2>2, <1>1, <1>4 DEF PrevInv, TreeType
<1>6. \A q \in Procs : q # p => t # tmp[q] /\ t # aside[q]
  BY <1>0 DEF OwnInv
<1>7. TempInv'
  <2> SUFFICES ASSUME NEW q \in Procs, tmp'[q] # None PROVE TempInv!(q)!2'
    BY DEF TempInv
  <2>1. q # p /\ tmp'[q] = tmp[q] /\ to'[q] = to[q] /\ pc'[q] = pc[q] /\ tmp[q] \in Temps \ {t}
    BY <1>3, <1>6 DEF Others, CallType
  <2>2. TempInv!(q)!2
    BY <2>1, <1>0 DEF TempInv
  <2>3. node'[tmp[q]] = node[tmp[q]] /\ prev'[tmp[q]] = prev[tmp[q]]
    BY <2>1, <1>1 DEF Names
  <2> QED  BY <2>1, <2>2, <2>3, <1>1 DEF Placed
<1>8. AsideInv'
  <2> SUFFICES ASSUME NEW q \in Procs, aside'[q] # None PROVE AsideInv!(q)!2'
    BY DEF AsideInv
  <2>1. q # p /\ aside'[q] = aside[q] /\ to'[q] = to[q] /\ aside[q] \in Temps \ {t}
    BY <1>3, <1>6 DEF Others, CallType
  <2>2. AsideInv!(q)!2
    BY <2>1, <1>0 DEF AsideInv
  <2>3. node'[aside[q]] = node[aside[q]] /\ prev'[aside[q]] = prev[aside[q]]
    BY <2>1, <1>1 DEF Names
  <2> QED  BY <2>1, <2>2, <2>3, <1>1
<1>9. KeptInv'
  <2> SUFFICES ASSUME NEW k \in objs PROVE Kept(k)'
    BY DEF KeptInv
  <2>1. Kept(k) /\ k \in Keys /\ k # t
    BY SshDisjoint DEF KeptInv, TreeType
  <2>2. CASE node[k] \in Values \/ \E u \in Temps : moved[u][k] \in Values
    BY <2>1, <2>2, <1>1 DEF Kept, Names
  <2>3. CASE \E u \in Temps : Spare(u, k)
    <3>1. PICK u \in Temps : Spare(u, k)
      BY <2>3
    <3>2. u # t
      <4>1. CASE t = tmp[p]
        BY <4>1, <3>1, <2>1, <1>0, SshDisjoint DEF TempInv, Names, Spare
      <4>2. CASE t = aside[p] /\ pc[p] = "drop_aside"
        BY <4>2, <3>1 DEF Spare
      <4> QED  BY <4>1, <4>2
    <3>3. prev'[u] = k /\ node'[u] = node[u]
      BY <3>1, <3>2, <1>1 DEF Names, Spare
    <3>4. \A q \in Procs : pc'[q] = "drop_aside" => aside'[q] # u
      BY <3>1 DEF Others, Spare
    <3> QED  BY <3>1, <3>3, <3>4, <1>1 DEF Kept, Spare
  <2> QED  BY <2>1, <2>2, <2>3 DEF Kept
<1>10. TempsAccounted'
  <2> SUFFICES ASSUME NEW u \in Temps, node'[u] # None, u \notin orphans PROVE Held(u)'
    BY DEF TempsAccounted
  <2>1. u # t /\ node[u] # None
    BY <1>1 DEF Names
  <2>2. PICK q \in Procs : u \in {tmp[q], aside[q]}
    BY <2>1 DEF TempsAccounted, Held
  <2>3. q # p
    BY <2>1, <2>2, <1>0 DEF CallInv, WithTemp, WithAside, TempInv, Placed
  <2> QED  BY <2>2, <2>3 DEF Held, Others
<1> QED  BY <1>1, <1>2, <1>5, <1>7, <1>8, <1>9, <1>10

\* Delete and DeleteAll remove the file or the directory n; the call that does holds
\* no temporary.
LEMMA DeleteFacts ==
  ASSUME CallType, CallInv, Server, CallInv', NEW p \in Procs, Others(p),
         NEW n \in Names, CanRemove(n), Deleted(n),
         UNCHANGED <<tmp, aside>>, tmp[p] = None, pc'[p] # "drop_aside"
  PROVE  Server'
<1> USE DEF Server
<1>0. None \notin Temps /\ Temps \subseteq Names /\ Keys \subseteq Names /\ Keys \cap Temps = {}
  BY SshDisjoint DEF Names
<1>1. /\ node' \in [Names -> Files \cup {Dir, None}] /\ moved' = moved
      /\ prev' \in [Temps -> Keys \cup {None}]
      /\ TreeInv' /\ WholeInv'
      /\ n \in Temps => \A u \in Temps : moved[u][n] = None
      /\ node'[n] = None /\ \A x \in Names : x # n => node'[x] = node[x]
      /\ \A u \in Temps : prev'[u] = IF u = n THEN None ELSE prev[u]
  BY RemoveTree DEF Deleted
<1>2. TreeType'
  BY <1>1 DEF TreeType, Deleted
<1>3. aside[p] = None /\ \A q \in Procs : (tmp[q] # None \/ aside[q] # None) => q # p
  BY DEF CallInv, WithTemp, WithAside
<1>4. \A t \in Temps : Held(t)' <=> Held(t)
  BY DEF Held
<1>5. PrevInv'
  <2>1. \A u \in Temps : u # n /\ Placed(u) => Placed(u)'
    BY <1>0, <1>1 DEF Placed
  <2> QED  BY <2>1, <1>1, <1>4 DEF PrevInv, TreeType, Deleted
<1>6. TempInv'
  <2> SUFFICES ASSUME NEW q \in Procs, tmp'[q] # None PROVE TempInv!(q)!2'
    BY DEF TempInv
  <2>1. to'[q] = to[q] /\ pc'[q] = pc[q] /\ tmp[q] \in Temps
    BY <1>3 DEF Others, CallType
  <2>2. TempInv!(q)!2
    BY DEF TempInv
  <2>3. /\ node'[tmp[q]] \in {node[tmp[q]], None} /\ prev'[tmp[q]] \in {prev[tmp[q]], None}
        /\ tmp'[q] = tmp[q]
    BY <2>1, <1>0, <1>1
  <2> QED  BY <2>1, <2>2, <2>3, <1>1, SshDisjoint DEF Placed
<1>7. AsideInv'
  <2> SUFFICES ASSUME NEW q \in Procs, aside'[q] # None PROVE AsideInv!(q)!2'
    BY DEF AsideInv
  <2>1. to'[q] = to[q] /\ aside[q] \in Temps
    BY <1>3 DEF Others, CallType
  <2>2. AsideInv!(q)!2
    BY DEF AsideInv
  <2>3. /\ node'[aside[q]] \in {node[aside[q]], None} /\ aside'[q] = aside[q]
        /\ prev'[aside[q]] \in {prev[aside[q]], None}
    BY <2>1, <1>0, <1>1
  <2> QED  BY <2>1, <2>2, <2>3, <1>1, SshDisjoint
<1>8. KeptInv'
  <2> SUFFICES ASSUME NEW k \in objs' PROVE Kept(k)'
    BY DEF KeptInv
  <2>1. k \in objs /\ k \in Keys /\ k # n /\ ~(n \in Temps /\ prev[n] = k /\ ~IsFile(k))
    BY DEF TreeType, Deleted
  <2>2. Kept(k) /\ node'[k] = node[k]
    BY <2>1, <1>0, <1>1 DEF KeptInv
  <2>3. CASE node[k] \in Values \/ \E u \in Temps : moved[u][k] \in Values
    BY <2>2, <2>3, <1>1 DEF Kept
  <2>4. CASE \E u \in Temps : Spare(u, k)
    <3>1. PICK u \in Temps : Spare(u, k)
      BY <2>4
    <3>2. CASE u = n
      <4>1. IsFile(k)
        BY <2>1, <3>1, <3>2 DEF Spare
      <4>2. node[k] \in Values
        BY <4>1, <2>1 DEF IsFile, Files, WholeInv, WholeObjects
      <4> QED  BY <4>2, <2>2 DEF Kept
    <3>3. CASE u # n
      <4>1. prev'[u] = k /\ node'[u] = node[u]
        BY <3>1, <3>3, <1>0, <1>1 DEF Spare
      <4>2. \A q \in Procs : pc'[q] = "drop_aside" => aside'[q] # u
        BY <3>1 DEF Others, Spare
      <4> QED  BY <3>1, <4>1, <4>2, <1>1 DEF Kept, Spare
    <3> QED  BY <3>2, <3>3
  <2> QED  BY <2>2, <2>3, <2>4 DEF Kept
<1>9. TempsAccounted'
  BY <1>0, <1>1, <1>4 DEF TempsAccounted, Deleted
<1> QED  BY <1>1, <1>2, <1>5, <1>6, <1>7, <1>8, <1>9

\* MkdirAll makes a directory of the root.
LEMMA MkdirFacts ==
  ASSUME CallType, CallInv, Server, CallInv', NEW p \in Procs, Others(p),
         to[p] \in Keys, \A k \in Keys : k = DirOf[to[p]] => ~IsFile(k),
         node' = [n \in Names |-> IF n = DirOf[to[p]] THEN Dir ELSE node[n]],
         UNCHANGED <<moved, objs, prev, orphans, tmp, aside>>, tmp[p] = None,
         pc'[p] # "drop_aside"
  PROVE  Server'
<1> USE DEF Server
<1>0. None \notin Temps /\ Temps \subseteq Names /\ Keys \subseteq Names /\ Keys \cap Temps = {}
  BY SshDisjoint DEF Names
<1>1. DirOf[to[p]] \in Keys \cup {Root} /\ (DirOf[to[p]] \in Keys => DirOf[DirOf[to[p]]] = Root)
  BY <1>0, SshTree, SshDisjoint DEF Names
<1>2. /\ node' \in [Names -> Files \cup {Dir, None}]
      /\ \A n \in Names : node'[n] = node[n] \/ (n \in Keys /\ n = DirOf[to[p]] /\ node'[n] = Dir)
      /\ \A t \in Temps : node'[t] = node[t]
      /\ \A n \in Names : n = DirOf[to[p]] => node[n] \notin Files
  BY <1>0, <1>1, SshDisjoint DEF TreeType, IsFile
<1>3. TreeType'
  BY <1>2 DEF TreeType
<1>4. TreeInv'
  <2>1. \A x \in Names : HasDir(x) => HasDir(x)'
    BY <1>0, <1>2 DEF HasDir
  <2>2. \A x \in Names : node'[x] # None => HasDir(x)'
    BY <2>1, <1>1, <1>2 DEF TreeInv, HasDir
  <2> QED  BY <2>2, <1>0, <1>1, <1>2 DEF TreeInv
<1>5. \A t \in Temps : (Held(t)' <=> Held(t)) /\ (Placed(t)' <=> Placed(t))
  BY <1>2 DEF Held, Placed
<1>6. PrevInv' /\ TempsAccounted'
  BY <1>2, <1>5 DEF PrevInv, TempsAccounted, TreeType
<1>7. WholeInv'
  BY <1>0, <1>2, SshDisjoint DEF WholeInv, WholeObjects
<1>8. aside[p] = None /\ \A q \in Procs : (tmp[q] # None \/ aside[q] # None) => q # p
  BY DEF CallInv, WithTemp, WithAside
<1>9. TempInv'
  BY <1>2, <1>5, <1>8, SMTT(30) DEF TempInv, Others, CallType
<1>10. AsideInv'
  <2> SUFFICES ASSUME NEW q \in Procs, aside'[q] # None PROVE AsideInv!(q)!2'
    BY DEF AsideInv
  <2>1. to'[q] = to[q] /\ aside'[q] = aside[q] /\ aside[q] \in Temps
    BY <1>8 DEF Others, CallType
  <2>2. AsideInv!(q)!2
    BY DEF AsideInv
  <2> QED  BY <2>1, <2>2, <1>2
<1>11. KeptInv'
  <2> SUFFICES ASSUME NEW k \in objs PROVE Kept(k)'
    BY DEF KeptInv
  <2>1. Kept(k) /\ k \in Names
    BY <1>0 DEF KeptInv, TreeType
  <2>2. node[k] \in Values => node'[k] = node[k]
    BY <2>1, <1>2 DEF Files
  <2>3. \A u \in Temps : Spare(u, k) => Spare(u, k)'
    BY <1>2 DEF Spare, Others
  <2> QED  BY <2>1, <2>2, <2>3 DEF Kept
<1> QED  BY <1>3, <1>4, <1>6, <1>7, <1>9, <1>10, <1>11

\* tempSibling creates an empty file under a name nobody has.
LEMMA CreateFacts ==
  ASSUME CallType, CallInv, Server, CallType', CallInv', NEW p \in Procs, Others(p),
         to[p] \in Keys, HasDir(to[p]), NEW t \in Temps, Unused(t), DirOf[t] = DirOf[to[p]],
         node' = [node EXCEPT ![t] = Partial], prev' = [prev EXCEPT ![t] = None],
         orphans' = orphans \ {t}, UNCHANGED <<moved, objs>>,
         tmp'[p] = t, aside'[p] = None, aside[p] = None, tmp[p] = None, to'[p] = to[p],
         pc'[p] = "fill"
  PROVE  Server'
<1> USE DEF Server
<1>0. None \notin Temps /\ Temps \subseteq Names /\ Keys \subseteq Names /\ Keys \cap Temps = {}
  BY SshDisjoint DEF Names
<1>1. node[t] = None /\ (\A u \in Temps : moved[u][t] = None) /\ ~Held(t) /\ prev[t] = None
  BY DEF Unused, PrevInv, Placed
<1>2. /\ node' \in [Names -> Files \cup {Dir, None}]
      /\ node'[t] = Partial /\ \A x \in Names : x # t => node'[x] = node[x]
      /\ prev' = prev
  BY <1>0, <1>1 DEF TreeType, Files
<1>3. TreeType'
  BY <1>2 DEF TreeType
<1>4. TreeInv'
  <2>1. \A x \in Names : HasDir(x)' <=> HasDir(x)
    BY <1>0, <1>2 DEF HasDir
  <2>2. HasDir(t)
    BY DEF HasDir
  <2>3. \A u \in Temps, x \in Names : moved[u][x] # None => u # t
    BY <1>1, SshDisjoint DEF TreeInv
  <2> QED  BY <2>1, <2>2, <2>3, <1>0, <1>1, <1>2, SshDisjoint DEF TreeInv
<1>5. \A u \in Temps : /\ (Held(u)' <=> Held(u) \/ u = t)
                       /\ u # t => (Placed(u)' <=> Placed(u))
  BY <1>0, <1>2 DEF Held, Placed, Others
<1>6. PrevInv' /\ TempsAccounted'
  <2>1. \A u \in orphans' : Placed(u)' /\ ~Held(u)'
    BY <1>5 DEF PrevInv, TreeType
  <2>2. \A u \in Temps : prev'[u] # None => Placed(u)'
    BY <1>1, <1>2, <1>5 DEF PrevInv
  <2>3. TempsAccounted'
    BY <1>0, <1>2, <1>5 DEF TempsAccounted
  <2> QED  BY <2>1, <2>2, <2>3 DEF PrevInv
<1>7. WholeInv'
  BY <1>0, <1>2 DEF WholeInv, WholeObjects
<1>8. \A q \in Procs : q # p => tmp[q] # t /\ aside[q] # t
  BY <1>1 DEF Held
<1>9. TempInv'
  <2> SUFFICES ASSUME NEW q \in Procs, tmp'[q] # None PROVE TempInv!(q)!2'
    BY DEF TempInv
  <2>1. CASE q = p
    BY <2>1, <1>1, <1>2, SshDisjoint
  <2>2. CASE q # p
    <3>1. to'[q] = to[q] /\ pc'[q] = pc[q] /\ tmp'[q] = tmp[q] /\ tmp[q] \in Temps \ {t}
      BY <2>2, <1>8 DEF Others, CallType
    <3>2. TempInv!(q)!2
      BY <3>1, <1>0 DEF TempInv
    <3> QED  BY <3>1, <3>2, <1>0, <1>2 DEF Placed
  <2> QED  BY <2>1, <2>2
<1>10. AsideInv'
  <2> SUFFICES ASSUME NEW q \in Procs, aside'[q] # None PROVE AsideInv!(q)!2'
    BY DEF AsideInv
  <2>1. to'[q] = to[q] /\ aside'[q] = aside[q] /\ aside[q] \in Temps \ {t}
    BY <1>8 DEF Others, CallType
  <2>2. AsideInv!(q)!2
    BY <2>1, <1>0 DEF AsideInv
  <2> QED  BY <2>1, <2>2, <1>0, <1>2
<1>11. KeptInv'
  <2> SUFFICES ASSUME NEW k \in objs PROVE Kept(k)'
    BY DEF KeptInv
  <2>1. Kept(k) /\ k \in Keys
    BY <1>0 DEF KeptInv, TreeType
  <2>2. node'[k] = node[k]
    BY <2>1, <1>0, <1>2
  <2>3. \A u \in Temps : Spare(u, k) => Spare(u, k)'
    <3> SUFFICES ASSUME NEW u \in Temps, Spare(u, k) PROVE Spare(u, k)'
      OBVIOUS
    <3>1. u # t
      BY <2>1, <1>0, <1>1, SshDisjoint DEF Spare, Names
    <3> QED  BY <3>1, <1>0, <1>2 DEF Spare, Others
  <2> QED  BY <2>1, <2>2, <2>3 DEF Kept
<1> QED  BY <1>3, <1>4, <1>6, <1>7, <1>9, <1>10, <1>11

\* io.Copy and Close make the temporary whole, wherever it is.
LEMMA FillFacts ==
  ASSUME CallType, CallInv, OwnInv, Server, CallType', NEW p \in Procs, Fill(p)
  PROVE  Server'
<1> USE DEF Server
<1> DEFINE t == tmp[p]  b == body[p]
<1>0. None \notin Temps /\ Temps \subseteq Names /\ Keys \subseteq Names /\ Keys \cap Temps = {}
  BY SshDisjoint DEF Names
<1>1. t \in Temps /\ b \in Values /\ pc[p] = "fill"
  BY DEF Fill, CallType, CallInv, WithTemp
<1>2. /\ node' \in [Names -> Files \cup {Dir, None}]
      /\ node'[t] = IF node[t] = Partial THEN b ELSE node[t]
      /\ \A x \in Names : x # t => node'[x] = node[x]
  BY <1>0, <1>1 DEF TreeType, Files, Fill
<1>3. /\ moved' \in [Temps -> [Names -> Files \cup {Dir, None}]]
      /\ \A u \in Temps : moved'[u][t] = IF moved[u][t] = Partial THEN b ELSE moved[u][t]
      /\ \A u \in Temps, x \in Names : x # t => moved'[u][x] = moved[u][x]
  BY <1>0, <1>1 DEF TreeType, Files, Fill
<1>4. /\ UNCHANGED <<objs, prev, orphans, tmp, aside, to>>
      /\ pc'[p] = "posix" /\ \A q \in Procs : q # p => pc'[q] = pc[q]
  BY <1>1 DEF Fill, Goto, CallType
<1>5. b # None /\ b # Partial /\ b # Dir /\ Partial # None /\ Partial # Dir
  BY <1>1, SshDisjoint
<1> HIDE DEF t, b
<1>6. TreeType'
  BY <1>2, <1>3, <1>4 DEF TreeType
<1>7. /\ \A x \in Names : (node'[x] = None <=> node[x] = None) /\ (node'[x] = Dir <=> node[x] = Dir)
                          /\ (node'[x] = Partial => node[x] = Partial)
                          /\ (node[x] \in Values => node'[x] = node[x])
      /\ \A u \in Temps, x \in Names :
           /\ moved'[u][x] = None <=> moved[u][x] = None
           /\ moved'[u][x] = Dir <=> moved[u][x] = Dir
           /\ moved'[u][x] = Partial => moved[u][x] = Partial
           /\ moved[u][x] \in Values => moved'[u][x] = moved[u][x]
  BY <1>2, <1>3, <1>5, SshDisjoint
<1>8. TreeInv'
  <2>1. \A x \in Names : HasDir(x)' <=> HasDir(x)
    BY <1>0, <1>7 DEF HasDir
  <2>2. /\ \A n \in Names : node'[n] = Dir => DirOf[n] = Root
        /\ \A n \in Names : node'[n] # None => HasDir(n)'
    BY <2>1, <1>7 DEF TreeInv
  <2>3. \A u \in Temps, n \in Names : moved'[u][n] # None =>
           node'[u] = Dir /\ DirOf[n] \in Keys /\ moved'[u][n] # Dir
    BY <1>0, <1>7 DEF TreeInv
  <2>4. /\ \A u, w \in Temps : node'[u] # None => moved'[w][u] = None
        /\ \A x, u, w \in Temps : moved'[u][x] # None /\ moved'[w][x] # None => u = w
    BY <1>0, <1>7 DEF TreeInv
  <2> QED  BY <2>2, <2>3, <2>4 DEF TreeInv
<1>9. \A u \in Temps : (Held(u)' <=> Held(u)) /\ (Placed(u)' <=> Placed(u))
  BY <1>0, <1>4, <1>7 DEF Held, Placed
<1>10. PrevInv' /\ TempsAccounted'
  BY <1>0, <1>4, <1>7, <1>9 DEF PrevInv, TempsAccounted, TreeType
<1>11. WholeInv'
  BY <1>0, <1>7 DEF WholeInv, WholeObjects
<1>12. TempInv'
  <2> SUFFICES ASSUME NEW q \in Procs, tmp'[q] # None PROVE TempInv!(q)!2'
    BY DEF TempInv
  <2>1. to'[q] = to[q] /\ tmp'[q] = tmp[q] /\ tmp[q] \in Temps /\ prev'[tmp[q]] = prev[tmp[q]]
    BY <1>4 DEF CallType
  <2>2. TempInv!(q)!2
    BY <2>1, <1>0 DEF TempInv
  <2>3. CASE q = p
    BY <2>1, <2>2, <2>3, <1>0, <1>2, <1>3, <1>4, <1>5, <1>7 DEF t
  <2>4. CASE q # p
    <3>1. Placed(tmp[q])' <=> Placed(tmp[q])
      BY <2>1, <1>9
    <3> QED  BY <3>1, <2>1, <2>2, <2>4, <1>0, <1>4, <1>7
  <2> QED  BY <2>3, <2>4
<1>13. AsideInv'
  <2> SUFFICES ASSUME NEW q \in Procs, aside'[q] # None PROVE AsideInv!(q)!2'
    BY DEF AsideInv
  <2>1. to'[q] = to[q] /\ aside'[q] = aside[q] /\ aside[q] \in Temps /\ aside[q] \in Names
    BY <1>0, <1>4 DEF CallType
  <2>2. AsideInv!(q)!2
    BY <2>1, <1>0 DEF AsideInv
  <2> QED  BY <2>1, <2>2, <1>4, <1>7
<1>14. KeptInv'
  <2> SUFFICES ASSUME NEW k \in objs PROVE Kept(k)'
    BY <1>4 DEF KeptInv
  <2>1. Kept(k) /\ k \in Names
    BY <1>0 DEF KeptInv, TreeType
  <2>2. \A q \in Procs : pc'[q] = "drop_aside" => pc[q] = "drop_aside"
    BY <1>4
  <2>3. \A u \in Temps : Spare(u, k) => Spare(u, k)'
    BY <2>2, <1>0, <1>4, <1>7 DEF Spare
  <2> QED  BY <2>1, <2>3, <1>7 DEF Kept
<1> QED  BY <1>6, <1>8, <1>10, <1>11, <1>12, <1>13, <1>14

\* PosixRename puts the temporary, which is whole, in the place of the destination.
LEMMA PosixFacts ==
  ASSUME CallType, CallInv, OwnInv, Server, NEW p \in Procs, NEW r, PosixRename(p, r)
  PROVE  Server'
<1> USE DEF Server
<1> DEFINE t == tmp[p]  m == to[p]
<1>0. None \notin Temps /\ Temps \subseteq Names /\ Keys \subseteq Names /\ Keys \cap Temps = {}
  BY SshDisjoint DEF Names
<1>1. t \in Temps /\ m \in Keys /\ t # m /\ pc[p] = "posix" /\ aside[p] = None
  BY <1>0 DEF PosixRename, CallType, CallInv, WithTemp, WithAside, Writing
<1>2. /\ node[t] \in Values /\ node[m] # Dir /\ DirOf[t] = DirOf[m] /\ prev[t] = None
      /\ \A u \in Temps : moved[u][t] = None
  BY <1>0, <1>1 DEF PosixRename, CanPosixRename, TempInv, TreeType, TreeInv, Files
<1>3. /\ node' \in [Names -> Files \cup {Dir, None}]
      /\ node'[m] = node[t] /\ node'[t] = None
      /\ \A x \in Names : x # t /\ x # m => node'[x] = node[x]
  BY <1>0, <1>1 DEF TreeType, PosixRename
<1>4. /\ UNCHANGED <<moved, prev, orphans>> /\ objs' = objs \cup {m}
      /\ tmp'[p] = None /\ aside'[p] = None /\ pc'[p] = "idle"
      /\ \A q \in Procs : q # p =>
           pc'[q] = pc[q] /\ to'[q] = to[q] /\ tmp'[q] = tmp[q] /\ aside'[q] = aside[q]
  BY DEF PosixRename, Return, CallType
<1>5. \A q \in Procs : q # p => tmp[q] # t /\ aside[q] # t
  BY <1>0, <1>1 DEF OwnInv
<1> HIDE DEF t, m
<1>6. TreeType'
  BY <1>1, <1>3, <1>4 DEF TreeType
<1>7. node[t] # None /\ node[t] # Dir /\ node[t] # Partial
  BY <1>2, SshDisjoint
<1>8. TreeInv'
  <2>1. \A x \in Keys : node'[x] = Dir <=> node[x] = Dir
    BY <1>0, <1>1, <1>2, <1>3, <1>7
  <2>2. \A x \in Names : HasDir(x)' <=> HasDir(x)
    BY <2>1 DEF HasDir
  <2>3. HasDir(m)
    BY <1>0, <1>1, <1>2, <1>7 DEF TreeInv, HasDir
  <2>4. /\ \A n \in Names : node'[n] = Dir => DirOf[n] = Root
        /\ \A n \in Names : node'[n] # None => HasDir(n)'
    BY <2>2, <2>3, <1>3, <1>7, SshDisjoint DEF TreeInv
  <2>5. \A u \in Temps, n \in Names : moved'[u][n] # None =>
           node'[u] = Dir /\ DirOf[n] \in Keys /\ moved'[u][n] # Dir
    BY <1>0, <1>1, <1>3, <1>4, <1>7 DEF TreeInv
  <2>6. /\ \A u, w \in Temps : node'[u] # None => moved'[w][u] = None
        /\ \A x, u, w \in Temps : moved'[u][x] # None /\ moved'[w][x] # None => u = w
    BY <1>0, <1>1, <1>3, <1>4 DEF TreeInv
  <2> QED  BY <2>4, <2>5, <2>6 DEF TreeInv
<1>9. \A u \in Temps : /\ Held(u)' <=> Held(u) /\ u # t
                       /\ u # t => (Placed(u)' <=> Placed(u))
  <2>1. \A u \in Temps : u # t => (Placed(u)' <=> Placed(u))
    BY <1>0, <1>1, <1>3, <1>4 DEF Placed
  <2>2. \A u \in Temps : Held(u)' <=> Held(u) /\ u # t
    BY <1>0, <1>1, <1>4, <1>5 DEF Held, t
  <2> QED  BY <2>1, <2>2
<1>10. Held(t)
  BY DEF Held, t
<1>11. PrevInv'
  BY <1>2, <1>4, <1>9, <1>10 DEF PrevInv, TreeType
<1>12. TempsAccounted'
  BY <1>0, <1>1, <1>3, <1>4, <1>9 DEF TempsAccounted
<1>13. WholeInv'
  BY <1>0, <1>1, <1>3, <1>4, <1>7 DEF WholeInv, WholeObjects
<1>14. TempInv'
  <2> SUFFICES ASSUME NEW q \in Procs, tmp'[q] # None PROVE TempInv!(q)!2'
    BY DEF TempInv
  <2>1. /\ to'[q] = to[q] /\ tmp'[q] = tmp[q] /\ pc'[q] = pc[q]
        /\ tmp[q] \in Temps /\ tmp[q] # t /\ tmp[q] # m /\ tmp[q] \in Names
    BY <1>0, <1>1, <1>4, <1>5 DEF CallType
  <2>2. TempInv!(q)!2
    BY <2>1, <1>0 DEF TempInv
  <2>3. Placed(tmp[q])' <=> Placed(tmp[q])
    BY <2>1, <1>9
  <2> QED  BY <2>1, <2>2, <2>3, <1>3, <1>4
<1>15. AsideInv'
  <2> SUFFICES ASSUME NEW q \in Procs, aside'[q] # None PROVE AsideInv!(q)!2'
    BY DEF AsideInv
  <2>1. /\ to'[q] = to[q] /\ aside'[q] = aside[q] /\ aside[q] \in Temps /\ aside[q] \in Names
        /\ aside[q] # t /\ aside[q] # m
    BY <1>0, <1>1, <1>4, <1>5 DEF CallType
  <2>2. AsideInv!(q)!2
    BY <2>1, <1>0 DEF AsideInv
  <2> QED  BY <2>1, <2>2, <1>3, <1>4
<1>16. KeptInv'
  <2> SUFFICES ASSUME NEW k \in objs' PROVE Kept(k)'
    BY DEF KeptInv
  <2>1. CASE k = m
    BY <2>1, <1>2, <1>3 DEF Kept
  <2>2. CASE k # m
    <3>1. Kept(k) /\ k \in Keys
      BY <2>2, <1>4 DEF KeptInv, TreeType
    <3>2. node'[k] = node[k]
      BY <2>2, <3>1, <1>0, <1>1, <1>3
    <3>3. \A u \in Temps : Spare(u, k) => Spare(u, k)'
      <4> SUFFICES ASSUME NEW u \in Temps, Spare(u, k) PROVE Spare(u, k)'
        OBVIOUS
      <4>1. u # t
        BY <3>1, <1>2, SshDisjoint DEF Spare, Names
      <4>2. node'[u] = node[u]
        BY <4>1, <1>0, <1>1, <1>3
      <4> QED  BY <4>2, <1>4 DEF Spare
    <3> QED  BY <3>1, <3>2, <3>3, <1>4 DEF Kept
  <2> QED  BY <2>1, <2>2
<1> QED  BY <1>6, <1>8, <1>11, <1>12, <1>13, <1>14, <1>15, <1>16

\* Rename of a temporary n of the call p to its destination m: the file it wrote, or
\* what it had moved aside, which brings back what is in it.
LEMMA BackFacts ==
  ASSUME CallType, CallInv, OwnInv, Server, NEW p \in Procs, Others(p),
         NEW n \in Temps, NEW m \in Keys, CanRename(n, m), Renamed(n, m),
         n \in {tmp[p], aside[p]}, m = to[p], DirOf[n] = DirOf[m], node[n] # Partial,
         prev[n] \in {None, m}, \A x \in Names : moved[n][x] # None => DirOf[x] = m,
         tmp'[p] \in {tmp[p], None}, aside'[p] \in {aside[p], None}, aside'[p] # n,
         \A t \in {tmp[p], aside[p]} \cap Temps : t \in {tmp'[p], aside'[p]} \/ t = n,
         tmp'[p] # None \/ aside'[p] # None => to'[p] = m,
         pc[p] \notin {"fill", "drop_tmp"}, n = tmp[p] => node[n] # Dir,
         pc'[p] = "drop_aside" => n = tmp[p], pc[p] # "drop_aside"
  PROVE  Server'
<1> USE DEF Server
<1>0. /\ None \notin Temps /\ Temps \subseteq Names /\ Keys \subseteq Names /\ Keys \cap Temps = {}
      /\ n # m /\ None \notin Keys /\ Root \notin Keys
  BY SshDisjoint DEF Names
<1>1. node[n] # None /\ node[m] = None /\ HasDir(m) /\ \A u \in Temps : moved[u][n] = None
  BY DEF CanRename, TreeInv
<1>2. \A x \in Names : DirOf[x] # n
  BY <1>0, SshTree, SshDisjoint DEF Names
<1>3. \A x \in Names : moved[n][x] # None => node[x] = None /\ x # m /\ x # n /\ DirOf[x] # Root
  <2> SUFFICES ASSUME NEW x \in Names, moved[n][x] # None
               PROVE  node[x] = None /\ x # m /\ x # n /\ DirOf[x] # Root
    OBVIOUS
  <2>1. DirOf[x] = m /\ m # Root
    BY <1>0
  <2>2. ~HasDir(x)
    BY <2>1, <1>0, <1>1, SshDisjoint DEF HasDir
  <2>3. x # m
    BY <2>1, <1>0, SshTree
  <2> QED  BY <2>1, <2>2, <2>3, <1>1 DEF TreeInv
<1>4. /\ node' \in [Names -> Files \cup {Dir, None}]
      /\ node'[m] = node[n] /\ node'[n] = None
      /\ \A x \in Names : moved[n][x] # None => node'[x] = moved[n][x]
      /\ \A x \in Names : moved[n][x] = None /\ x # n /\ x # m => node'[x] = node[x]
  <2>1. \A x \in Names : node'[x] = CASE x = m -> node[n]
                                      [] x = n -> None
                                      [] moved[n][x] # None /\ x # n -> moved[n][x]
                                      [] OTHER -> node[x]
    BY <1>0, <1>2 DEF Renamed
  <2>2. node'[m] = node[n] /\ node'[n] = None
    <3>1. m \in Names /\ n \in Names
      BY <1>0
    <3>2. node'[m] = node[n]
      BY <3>1, <2>1, <1>0, <1>3
    <3>3. node'[n] = None
      BY <3>1, <2>1, <1>0
    <3> QED  BY <3>2, <3>3
  <2>3. \A x \in Names : moved[n][x] # None => node'[x] = moved[n][x]
    BY <2>1, <1>3
  <2>4. \A x \in Names : moved[n][x] = None /\ x # n /\ x # m => node'[x] = node[x]
    BY <2>1
  <2>5. \A x \in Names : node'[x] \in Files \cup {Dir, None}
    BY <2>2, <2>3, <2>4, <1>0 DEF TreeType
  <2>6. node' = [x \in Names |-> node'[x]]
    BY DEF Renamed
  <2> QED  BY <2>2, <2>3, <2>4, <2>5, <2>6
<1>5. /\ moved' \in [Temps -> [Names -> Files \cup {Dir, None}]]
      /\ \A x \in Names : moved'[n][x] = None
      /\ \A t \in Temps : t # n => moved'[t] = moved[t]
  <2>1. \A t \in Temps : moved'[t] = IF t = n THEN Empty ELSE moved[t]
    BY <1>0 DEF Renamed
  <2>2. moved' = [t \in Temps |-> moved'[t]]
    BY DEF Renamed
  <2>3. Empty \in [Names -> Files \cup {Dir, None}] /\ \A x \in Names : Empty[x] = None
    BY DEF Empty
  <2> QED  BY <2>1, <2>2, <2>3 DEF TreeType
<1>6. /\ prev' \in [Temps -> Keys \cup {None}]
      /\ \A t \in Temps : prev'[t] = IF t = n THEN None ELSE prev[t]
  <2>1. \A t \in Temps : prev'[t] = IF t = n THEN None ELSE prev[t]
    BY <1>0 DEF Renamed
  <2>2. prev' = [t \in Temps |-> prev'[t]]
    BY DEF Renamed
  <2> QED  BY <2>1, <2>2 DEF TreeType
<1>7. /\ objs' = IF IsFile(n) THEN objs \cup {m} ELSE objs
      /\ orphans' = orphans \cup {t \in Temps : moved[n][t] # None /\ ~Held(t)}
  BY <1>0 DEF Renamed
<1>8. TreeType'
  BY <1>4, <1>5, <1>6, <1>7 DEF TreeType
<1>9. \A u \in Temps : /\ Held(u)' => Held(u)
                       /\ Held(u) /\ u # n => Held(u)'
  BY <1>0 DEF Held, Others
<1>10. Held(n)
  BY DEF Held
<1>11. \A q \in Procs : q # p => tmp[q] # n /\ aside[q] # n
  BY <1>0 DEF OwnInv
<1>12. \A t \in Temps : node[t] # None /\ t # n => node'[t] = node[t]
  BY <1>0, <1>4 DEF TreeInv
<1>13. TreeInv'
  <2>1. \A x \in Keys : node[x] = Dir => node'[x] = Dir
    BY <1>0, <1>1, <1>3, <1>4, SshDisjoint DEF TreeInv
  <2>2. \A x \in Names : HasDir(x) => HasDir(x)'
    BY <2>1 DEF HasDir
  <2>3. ASSUME NEW x \in Names, node'[x] = Dir PROVE DirOf[x] = Root
    <3>1. CASE x = m
      BY <2>3, <3>1, <1>0, <1>4 DEF TreeInv
    <3>2. CASE x # m
      BY <2>3, <3>2, <1>4, SshDisjoint DEF TreeInv
    <3> QED  BY <3>1, <3>2
  <2>4. \A x \in Names : node'[x] # None => HasDir(x)'
    <3> SUFFICES ASSUME NEW x \in Names, node'[x] # None PROVE HasDir(x)'
      OBVIOUS
    <3>1. CASE moved[n][x] # None
      <4>1. DirOf[x] = m /\ node'[m] = Dir
        BY <3>1, <1>4 DEF TreeInv
      <4> QED  BY <4>1 DEF HasDir
    <3>2. CASE moved[n][x] = None
      BY <3>2, <2>2, <1>1, <1>4 DEF TreeInv
    <3> QED  BY <3>1, <3>2
  <2>5. \A u \in Temps, x \in Names : moved'[u][x] # None =>
           node'[u] = Dir /\ DirOf[x] \in Keys /\ moved'[u][x] # Dir
    BY <1>5, <1>12, SshDisjoint DEF TreeInv
  <2>6. \A t, u \in Temps : node'[t] # None => moved'[u][t] = None
    <3> SUFFICES ASSUME NEW t \in Temps, NEW u \in Temps, node'[t] # None, u # n
                 PROVE  moved[u][t] = None
      BY <1>0, <1>5
    <3>1. CASE moved[n][t] # None
      BY <3>1 DEF TreeInv
    <3>2. CASE moved[n][t] = None
      BY <3>2, <1>0, <1>4 DEF TreeInv
    <3> QED  BY <3>1, <3>2
  <2>7. \A t, u, w \in Temps : moved'[u][t] # None /\ moved'[w][t] # None => u = w
    BY <1>0, <1>5 DEF TreeInv
  <2> QED  BY <2>3, <2>4, <2>5, <2>6, <2>7 DEF TreeInv
<1>14. \A t \in Temps : t # n => (Placed(t)' <=> Placed(t))
  <2> SUFFICES ASSUME NEW t \in Temps, t # n PROVE Placed(t)' <=> Placed(t)
    OBVIOUS
  <2>1. t \in Names /\ t # m
    BY <1>0
  <2>2. CASE moved[n][t] # None
    BY <2>1, <2>2, <1>4 DEF Placed
  <2>3. CASE moved[n][t] = None
    <3>1. node'[t] = node[t]
      BY <2>1, <2>3, <1>4
    <3>2. \A u \in Temps : moved'[u][t] = moved[u][t]
      BY <2>1, <2>3, <1>5
    <3> QED  BY <3>1, <3>2 DEF Placed
  <2> QED  BY <2>2, <2>3
<1>15. PrevInv'
  <2>1. \A t \in Temps : prev'[t] # None => Placed(t)'
    BY <1>6, <1>14 DEF PrevInv
  <2>2. ASSUME NEW t \in orphans' PROVE Placed(t)' /\ ~Held(t)'
    <3>1. CASE t \in orphans
      BY <3>1, <1>9, <1>10, <1>14 DEF PrevInv, TreeType
    <3>2. CASE t \in Temps /\ moved[n][t] # None /\ ~Held(t)
      BY <3>2, <1>0, <1>4, <1>9 DEF Placed
    <3> QED  BY <3>1, <3>2, <1>7
  <2> QED  BY <2>1, <2>2 DEF PrevInv
<1>16. WholeInv'
  <2>1. \A k \in Keys : node'[k] # Partial
    BY <1>0, <1>4 DEF WholeInv, WholeObjects
  <2>2. \A k \in Keys, u \in Temps : moved'[u][k] # Partial
    BY <1>0, <1>5, SshDisjoint DEF WholeInv
  <2> QED  BY <2>1, <2>2 DEF WholeInv, WholeObjects
<1>17. \A t \in Temps : t # n /\ node[t] # Partial /\ (\A u \in Temps : moved[u][t] # Partial)
                         => node'[t] # Partial /\ \A u \in Temps : moved'[u][t] # Partial
  BY <1>0, <1>4, <1>5, SshDisjoint
<1>18. TempInv'
  <2> SUFFICES ASSUME NEW q \in Procs, tmp'[q] # None PROVE TempInv!(q)!2'
    BY DEF TempInv
  <2>1. /\ to'[q] = to[q] /\ tmp'[q] = tmp[q] /\ tmp[q] \in Temps /\ tmp[q] \in Names
        /\ tmp[q] # m /\ tmp[q] # None
    BY <1>0 DEF CallType, Others
  <2>2. TempInv!(q)!2
    BY <2>1, <1>0 DEF TempInv
  <2>3. CASE tmp[q] = n
    <3>1. ~Placed(n)'
      BY <1>0, <1>1, <1>4, <1>5 DEF Placed
    <3>2. node'[n] # Partial /\ node'[n] # Dir /\ prev'[n] = None
          /\ \A u \in Temps : moved'[u][n] # Partial
      BY <1>0, <1>1, <1>4, <1>5, <1>6, SshDisjoint
    <3> QED  BY <2>1, <2>2, <2>3, <3>1, <3>2
  <2>4. CASE tmp[q] # n
    <3>1. pc'[q] = "drop_aside" => pc[q] = "drop_aside"
      BY <2>1, <2>4 DEF Others
    <3>2. pc'[q] \notin {"fill", "drop_tmp"} => pc[q] \notin {"fill", "drop_tmp"}
      BY DEF Others
    <3>3. Placed(tmp[q])' <=> Placed(tmp[q])
      BY <2>1, <2>4, <1>14
    <3>4. node'[tmp[q]] # Dir
      BY <2>1, <2>2, <2>4, <1>4 DEF TreeInv
    <3>5. prev'[tmp[q]] = None
      BY <2>1, <2>2, <1>6
    <3>6. DirOf[tmp'[q]] = DirOf[to'[q]]
      BY <2>1, <2>2
    <3>7. pc'[q] \notin {"fill", "drop_tmp"} =>
             node'[tmp[q]] # Partial /\ \A u \in Temps : moved'[u][tmp[q]] # Partial
      BY <2>1, <2>2, <2>4, <3>2, <1>17
    <3>8. pc'[q] = "drop_aside" => ~Placed(tmp[q])'
      BY <2>2, <3>1, <3>3
    <3> QED  BY <2>1, <3>4, <3>5, <3>6, <3>7, <3>8 DEF Placed
  <2> QED  BY <2>3, <2>4
<1>19. AsideInv'
  <2> SUFFICES ASSUME NEW q \in Procs, aside'[q] # None PROVE AsideInv!(q)!2'
    BY DEF AsideInv
  <2>1. /\ to'[q] = to[q] /\ aside'[q] = aside[q] /\ aside[q] \in Temps /\ aside[q] \in Names
        /\ aside[q] # n /\ aside[q] # m
    BY <1>0, <1>11 DEF CallType, Others
  <2>2. AsideInv!(q)!2
    BY <2>1, <1>0 DEF AsideInv
  <2> QED  BY <2>1, <2>2, <1>5, <1>6, <1>17
<1>20. KeptInv'
  <2> SUFFICES ASSUME NEW k \in objs' PROVE Kept(k)'
    BY DEF KeptInv
  <2>1. IsFile(n) => node'[m] \in Values
    BY <1>4 DEF IsFile, Files
  <2>2. CASE k = m /\ IsFile(n)
    BY <2>1, <2>2 DEF Kept
  <2>3. CASE ~(k = m /\ IsFile(n))
    <3>1. Kept(k) /\ k \in Keys /\ k # n
      BY <2>3, <1>0, <1>7 DEF KeptInv, TreeType
    <3>2. CASE node[k] \in Values
      <4>1. moved[n][k] = None /\ k # m
        BY <3>1, <3>2, <1>0, <1>1, <1>3, SshDisjoint
      <4> QED  BY <4>1, <3>1, <3>2, <1>0, <1>4 DEF Kept
    <3>3. CASE \E t \in Temps : moved[t][k] \in Values
      <4>1. PICK t \in Temps : moved[t][k] \in Values
        BY <3>3
      <4>2. CASE t = n
        BY <4>1, <4>2, <3>1, <1>0, <1>4, SshDisjoint DEF Kept
      <4>3. CASE t # n
        BY <4>1, <4>3, <1>5 DEF Kept
      <4> QED  BY <4>2, <4>3
    <3>4. CASE \E t \in Temps : Spare(t, k)
      <4>1. PICK t \in Temps : Spare(t, k)
        BY <3>4
      <4>2. CASE t = n
        <5>1. k = m /\ node[n] \in Values
          BY <4>1, <4>2, <3>1, <1>0, <1>1, SshDisjoint DEF Spare
        <5> QED  BY <5>1, <1>4 DEF Kept
      <4>3. CASE pc'[p] = "drop_aside" /\ t = aside'[p]
        <5>1. aside[p] = t /\ prev[t] = k /\ k # None /\ aside[p] # None
          BY <4>1, <4>3, <3>1, <1>0 DEF Spare
        <5>2. k = m
          BY <5>1 DEF AsideInv
        <5>3. node[n] \in Values
          BY <4>3, <1>0, <1>1 DEF TreeType, Files
        <5> QED  BY <5>2, <5>3, <1>4 DEF Kept
      <4>4. CASE t # n /\ ~(pc'[p] = "drop_aside" /\ t = aside'[p])
        <5>1. prev'[t] = k
          BY <4>1, <4>4, <1>6 DEF Spare
        <5>2. \A q \in Procs : pc'[q] = "drop_aside" => aside'[q] # t
          BY <4>1, <4>4 DEF Spare, Others
        <5>3. node[t] \in Values => node'[t] \in Values
          BY <4>4, <1>12, SshDisjoint
        <5>4. (\E u \in Temps : moved[u][t] \in Values)
                => node'[t] \in Values \/ \E u \in Temps : moved'[u][t] \in Values
          <6> SUFFICES ASSUME NEW u \in Temps, moved[u][t] \in Values
                       PROVE  node'[t] \in Values \/ moved'[u][t] \in Values
            OBVIOUS
          <6>1. CASE u = n
            BY <6>1, <1>0, <1>4, SshDisjoint
          <6>2. CASE u # n
            BY <6>2, <1>5
          <6> QED  BY <6>1, <6>2
        <5> QED  BY <4>1, <5>1, <5>2, <5>3, <5>4 DEF Spare, Kept
      <4> QED  BY <4>2, <4>3, <4>4
    <3> QED  BY <3>1, <3>2, <3>3, <3>4 DEF Kept
  <2> QED  BY <2>2, <2>3
<1>21. TempsAccounted'
  <2> SUFFICES ASSUME NEW t \in Temps, node'[t] # None PROVE t \in orphans' \/ Held(t)'
    BY DEF TempsAccounted
  <2>1. t # n /\ t \in Names /\ t # m
    BY <1>0, <1>4
  <2>2. CASE moved[n][t] # None
    BY <2>1, <2>2, <1>7, <1>9
  <2>3. CASE moved[n][t] = None
    BY <2>1, <2>3, <1>4, <1>7, <1>9 DEF TempsAccounted
  <2> QED  BY <2>2, <2>3
<1> QED  BY <1>8, <1>13, <1>15, <1>16, <1>18, <1>19, <1>20, <1>21

\* Rename of the destination k, a file or a directory with all that is in it, to a
\* name nobody has.
LEMMA AsideFacts ==
  ASSUME CallType, CallInv, OwnInv, Server, NEW p \in Procs, Others(p),
         NEW k \in Keys, k = to[p], node[k] # None, NEW m \in Temps, Unused(m),
         DirOf[m] = DirOf[k], Renamed(k, m),
         tmp'[p] = tmp[p], tmp[p] # None, aside'[p] = m, aside[p] = None, to'[p] = k,
         pc'[p] = "move", pc[p] = "aside"
  PROVE  Server'
<1> USE DEF Server
<1> DEFINE In(x) == node[k] = Dir /\ DirOf[x] = k
<1>0. /\ None \notin Temps /\ Temps \subseteq Names /\ Keys \subseteq Names /\ Keys \cap Temps = {}
      /\ k # m /\ None \notin Keys /\ Root \notin Keys /\ k \notin Temps
  BY SshDisjoint DEF Names
<1>1. /\ node[m] = None /\ (\A u \in Temps : moved[u][m] = None) /\ ~Held(m) /\ prev[m] = None
      /\ \A x \in Names : moved[m][x] = None
  BY SshDisjoint DEF Unused, PrevInv, Placed, TreeInv
<1>2. /\ \A x \in Names : In(x) => x # m /\ x # k /\ DirOf[x] # Root /\ node[x] # Dir
      /\ node[k] # Partial /\ node[k] \in Files \cup {Dir, None}
  <2>1. ASSUME NEW x \in Names, In(x) PROVE x # m /\ x # k /\ DirOf[x] # Root /\ node[x] # Dir
    <3>1. DirOf[k] = Root /\ DirOf[x] = k /\ k # Root
      BY <2>1, <1>0 DEF TreeInv
    <3> QED  BY <3>1 DEF TreeInv
  <2> QED  BY <2>1, <1>0 DEF WholeInv, WholeObjects, TreeType
<1>3. /\ node' \in [Names -> Files \cup {Dir, None}]
      /\ node'[m] = node[k] /\ node'[k] = None
      /\ \A x \in Names : In(x) => node'[x] = None
      /\ \A x \in Names : ~In(x) /\ x # k /\ x # m => node'[x] = node[x]
  <2>1. \A x \in Names : node'[x] = CASE x = m -> node[k]
                                      [] x = k \/ In(x) -> None
                                      [] OTHER -> node[x]
    BY <1>0 DEF Renamed
  <2>2. m \in Names /\ k \in Names
    BY <1>0
  <2>3. node'[m] = node[k]
    BY <2>1, <2>2, <1>0, <1>2
  <2>4. node'[k] = None
    BY <2>1, <2>2, <1>0
  <2>5. \A x \in Names : In(x) => node'[x] = None
    BY <2>1, <1>2
  <2>6. \A x \in Names : ~In(x) /\ x # k /\ x # m => node'[x] = node[x]
    BY <2>1
  <2>7. \A x \in Names : node'[x] \in Files \cup {Dir, None}
    BY <2>3, <2>4, <2>5, <2>6, <1>2 DEF TreeType
  <2>8. node' = [x \in Names |-> node'[x]]
    BY DEF Renamed
  <2> QED  BY <2>3, <2>4, <2>5, <2>6, <2>7, <2>8
<1>4. /\ moved' \in [Temps -> [Names -> Files \cup {Dir, None}]]
      /\ \A x \in Names : moved'[m][x] = IF In(x) THEN node[x] ELSE None
      /\ \A t \in Temps : t # m => moved'[t] = moved[t]
  <2>1. \A t \in Temps : moved'[t] = IF t = m THEN [x \in Names |-> IF In(x) THEN node[x] ELSE None]
                                     ELSE moved[t]
    BY <1>0 DEF Renamed
  <2>2. moved' = [t \in Temps |-> moved'[t]]
    BY DEF Renamed
  <2>3. [x \in Names |-> IF In(x) THEN node[x] ELSE None] \in [Names -> Files \cup {Dir, None}]
    BY DEF TreeType
  <2> QED  BY <2>1, <2>2, <2>3 DEF TreeType
<1>5. /\ prev' \in [Temps -> Keys \cup {None}]
      /\ \A t \in Temps : prev'[t] = IF t = m /\ IsFile(k) THEN k ELSE prev[t]
  <2>1. \A t \in Temps : prev'[t] = IF t = m /\ IsFile(k) THEN k ELSE prev[t]
    BY <1>0 DEF Renamed
  <2>2. prev' = [t \in Temps |-> prev'[t]]
    BY DEF Renamed
  <2> QED  BY <2>1, <2>2 DEF TreeType
<1>6. objs' = objs /\ orphans' = orphans
  BY <1>0 DEF Renamed
<1>7. TreeType'
  BY <1>3, <1>4, <1>5, <1>6 DEF TreeType
<1>8. \A u \in Temps : Held(u)' <=> Held(u) \/ u = m
  BY <1>0 DEF Held, Others
<1>9. \A q \in Procs : tmp[q] # m /\ aside[q] # m
  BY <1>1 DEF Held
<1> HIDE DEF In
<1>10. TreeInv'
  <2>1. ASSUME NEW x \in Names, node'[x] = Dir PROVE DirOf[x] = Root
    <3>1. CASE x = m
      BY <2>1, <3>1, <1>0, <1>3 DEF TreeInv
    <3>2. CASE x # m
      BY <2>1, <3>2, <1>3, SshDisjoint DEF TreeInv
    <3> QED  BY <3>1, <3>2
  <2>2. ASSUME NEW x \in Names, HasDir(x), ~In(x) PROVE HasDir(x)'
    <3>1. CASE DirOf[x] = Root
      BY <3>1 DEF HasDir
    <3>2. CASE DirOf[x] # Root
      <4>1. DirOf[x] \in Keys /\ node[DirOf[x]] = Dir /\ DirOf[DirOf[x]] = Root /\ DirOf[x] # k
        BY <2>2, <3>2, SshTree DEF HasDir, In
      <4>2. node'[DirOf[x]] = Dir
        BY <4>1, <1>0, <1>2, <1>3
      <4> QED  BY <4>1, <4>2 DEF HasDir
    <3> QED  BY <3>1, <3>2
  <2>3. ASSUME NEW x \in Names, node'[x] # None PROVE HasDir(x)'
    <3>1. CASE x = m
      <4>1. ~In(k) /\ HasDir(k)
        BY <1>0, <1>2 DEF TreeInv
      <4>2. HasDir(k)'
        BY <4>1, <1>0, <2>2
      <4> QED  BY <4>2, <3>1 DEF HasDir
    <3>2. CASE x # m
      <4>1. x # k /\ ~In(x) /\ node[x] # None
        BY <2>3, <3>2, <1>3
      <4> QED  BY <4>1, <2>2 DEF TreeInv
    <3> QED  BY <3>1, <3>2
  <2>4. ASSUME NEW u \in Temps, NEW x \in Names, moved'[u][x] # None
        PROVE  node'[u] = Dir /\ DirOf[x] \in Keys /\ moved'[u][x] # Dir
    <3>1. CASE u = m
      <4>1. In(x) /\ moved'[u][x] = node[x]
        BY <2>4, <3>1, <1>4
      <4> QED  BY <4>1, <3>1, <1>2, <1>3 DEF In
    <3>2. CASE u # m
      <4>1. node[u] = Dir /\ DirOf[x] \in Keys /\ moved[u][x] # Dir /\ moved'[u][x] = moved[u][x]
        BY <2>4, <3>2, <1>4 DEF TreeInv
      <4>2. ~In(u)
        BY <4>1, <1>0, <1>2
      <4> QED  BY <4>1, <4>2, <3>2, <1>0, <1>3
    <3> QED  BY <3>1, <3>2
  <2>5. ASSUME NEW t \in Temps, NEW u \in Temps, node'[t] # None PROVE moved'[u][t] = None
    <3>1. CASE t = m
      BY <3>1, <1>0, <1>1, <1>2, <1>4
    <3>2. CASE t # m
      <4>1. ~In(t) /\ node[t] # None
        BY <2>5, <3>2, <1>0, <1>3
      <4> QED  BY <4>1, <1>0, <1>4 DEF TreeInv
    <3> QED  BY <3>1, <3>2
  <2>6. ASSUME NEW t \in Temps, NEW u \in Temps, NEW w \in Temps,
               moved'[u][t] # None, moved'[w][t] # None
        PROVE  u = w
    <3>1. CASE In(t) /\ node[t] # None
      BY <2>6, <3>1, <1>4 DEF TreeInv
    <3>2. CASE ~(In(t) /\ node[t] # None)
      <4>1. u # m /\ w # m
        BY <2>6, <3>2, <1>0, <1>4
      <4> QED  BY <2>6, <4>1, <1>4 DEF TreeInv
    <3> QED  BY <3>1, <3>2
  <2> QED  BY <2>1, <2>3, <2>4, <2>5, <2>6 DEF TreeInv
<1>11. \A t \in Temps : t # m => (Placed(t)' <=> Placed(t))
  <2> SUFFICES ASSUME NEW t \in Temps, t # m PROVE Placed(t)' <=> Placed(t)
    OBVIOUS
  <2>1. t \in Names /\ t # k
    BY <1>0
  <2>2. CASE In(t)
    <3>1. node'[t] = None /\ moved'[m][t] = node[t] /\ moved[m][t] = None
      BY <2>1, <2>2, <1>1, <1>3, <1>4
    <3>2. \A u \in Temps : u # m => moved'[u][t] = moved[u][t]
      BY <1>4
    <3> QED  BY <3>1, <3>2 DEF Placed
  <2>3. CASE ~In(t)
    <3>1. node'[t] = node[t]
      BY <2>1, <2>3, <1>3
    <3>2. \A u \in Temps : moved'[u][t] = moved[u][t]
      BY <2>1, <2>3, <1>1, <1>4
    <3> QED  BY <3>1, <3>2 DEF Placed
  <2> QED  BY <2>2, <2>3
<1>12. PrevInv'
  <2>1. Placed(m)' /\ ~Placed(m)
    BY <1>1, <1>3 DEF Placed
  <2>2. \A t \in Temps : prev'[t] # None => Placed(t)'
    BY <2>1, <1>5, <1>11 DEF PrevInv
  <2>3. \A t \in orphans' : Placed(t)' /\ ~Held(t)'
    BY <2>1, <1>6, <1>8, <1>11 DEF PrevInv, TreeType
  <2> QED  BY <2>2, <2>3 DEF PrevInv
<1>13. WholeInv'
  <2>1. \A l \in Keys : node'[l] # Partial
    BY <1>0, <1>3, SshDisjoint DEF WholeInv, WholeObjects
  <2>2. \A l \in Keys, u \in Temps : moved'[u][l] # Partial
    BY <1>0, <1>4, SshDisjoint DEF WholeInv, WholeObjects
  <2> QED  BY <2>1, <2>2 DEF WholeInv, WholeObjects
<1>14. \A t \in Temps : t # m /\ node[t] # Partial /\ (\A u \in Temps : moved[u][t] # Partial)
                         => node'[t] # Partial /\ \A u \in Temps : moved'[u][t] # Partial
  <2> SUFFICES ASSUME NEW t \in Temps, t # m, node[t] # Partial, NEW u \in Temps,
                      moved[u][t] # Partial
               PROVE  node'[t] # Partial /\ moved'[u][t] # Partial
    BY <1>0
  <2> QED  BY <1>0, <1>3, <1>4, SshDisjoint
<1>15. TempInv'
  <2> SUFFICES ASSUME NEW q \in Procs, tmp'[q] # None PROVE TempInv!(q)!2'
    BY DEF TempInv
  <2>1. /\ to'[q] = to[q] /\ tmp'[q] = tmp[q] /\ tmp[q] \in Temps /\ tmp[q] \in Names
        /\ tmp[q] # m /\ tmp[q] # None /\ tmp[q] # k
    BY <1>0, <1>9 DEF CallType, Others
  <2>2. TempInv!(q)!2
    BY <2>1, <1>0 DEF TempInv
  <2>3. pc'[q] = "drop_aside" => pc[q] = "drop_aside"
    BY DEF Others
  <2>4. pc'[q] \notin {"fill", "drop_tmp"} => pc[q] \notin {"fill", "drop_tmp"}
    BY DEF Others
  <2>5. Placed(tmp[q])' <=> Placed(tmp[q])
    BY <2>1, <1>11
  <2>6. node'[tmp[q]] # Dir
    BY <2>1, <2>2, <1>3, SshDisjoint
  <2>7. prev'[tmp[q]] = None
    BY <2>1, <2>2, <1>5
  <2>8. pc'[q] \notin {"fill", "drop_tmp"} =>
           node'[tmp[q]] # Partial /\ \A u \in Temps : moved'[u][tmp[q]] # Partial
    BY <2>1, <2>2, <2>4, <1>14
  <2>9. pc'[q] = "drop_aside" => ~Placed(tmp[q])'
    BY <2>2, <2>3, <2>5
  <2> QED  BY <2>1, <2>2, <2>6, <2>7, <2>8, <2>9 DEF Placed
<1>16. AsideInv'
  <2> SUFFICES ASSUME NEW q \in Procs, aside'[q] # None PROVE AsideInv!(q)!2'
    BY DEF AsideInv
  <2>1. CASE q = p
    <3>1. prev'[m] \in {None, k}
      BY <1>1, <1>5
    <3>2. node'[m] # Partial /\ \A u \in Temps : moved'[u][m] # Partial
      <4>1. ~In(m)
        BY <1>0, <1>2
      <4>2. \A u \in Temps : moved'[u][m] = None
        BY <4>1, <1>0, <1>1, <1>4
      <4> QED  BY <4>2, <1>2, <1>3, SshDisjoint
    <3>3. \A x \in Names : moved'[m][x] # None => DirOf[x] = k
      BY <1>4 DEF In
    <3> QED  BY <2>1, <3>1, <3>2, <3>3
  <2>2. CASE q # p
    <3>1. /\ to'[q] = to[q] /\ aside'[q] = aside[q] /\ aside[q] \in Temps /\ aside[q] \in Names
          /\ aside[q] # m
      BY <2>2, <1>0, <1>9 DEF CallType, Others
    <3>2. AsideInv!(q)!2
      BY <3>1, <1>0 DEF AsideInv
    <3> QED  BY <3>1, <3>2, <1>4, <1>5, <1>14
  <2> QED  BY <2>1, <2>2
<1>17. KeptInv'
  <2> SUFFICES ASSUME NEW l \in objs PROVE Kept(l)'
    BY <1>6 DEF KeptInv
  <2>1. Kept(l) /\ l \in Keys /\ l # m
    BY <1>0 DEF KeptInv, TreeType
  <2>2. CASE node[l] \in Values
    <3>1. CASE l = k
      <4>1. prev'[m] = k /\ node'[m] \in Values
        BY <2>2, <3>1, <1>3, <1>5 DEF IsFile, Files
      <4>2. \A q \in Procs : pc'[q] = "drop_aside" => aside'[q] # m
        BY <1>9 DEF Others
      <4> QED  BY <3>1, <4>1, <4>2 DEF Kept, Spare
    <3>2. CASE l # k /\ In(l)
      BY <2>1, <2>2, <3>2, <1>0, <1>4 DEF Kept
    <3>3. CASE l # k /\ ~In(l)
      BY <2>1, <2>2, <3>3, <1>0, <1>3 DEF Kept
    <3> QED  BY <3>1, <3>2, <3>3
  <2>3. CASE \E t \in Temps : moved[t][l] \in Values
    <3>1. PICK t \in Temps : moved[t][l] \in Values
      BY <2>3
    <3>2. t # m
      BY <3>1, <2>1, <1>0, <1>1, SshDisjoint
    <3> QED  BY <3>1, <3>2, <1>4 DEF Kept
  <2>4. CASE \E t \in Temps : Spare(t, l)
    <3>1. PICK t \in Temps : Spare(t, l)
      BY <2>4
    <3>2. t # m
      BY <3>1, <2>1, <1>0, <1>1 DEF Spare
    <3>3. prev'[t] = l /\ \A q \in Procs : pc'[q] = "drop_aside" => aside'[q] # t
      BY <3>1, <3>2, <1>5 DEF Spare, Others
    <3>4. CASE node[t] \in Values /\ In(t)
      BY <3>3, <3>4, <1>0, <1>4 DEF Kept, Spare
    <3>5. CASE node[t] \in Values /\ ~In(t)
      <4>1. node'[t] = node[t]
        BY <3>2, <3>5, <1>0, <1>3
      <4> QED  BY <4>1, <3>3, <3>5 DEF Kept, Spare
    <3>6. CASE \E u \in Temps : moved[u][t] \in Values
      <4>1. PICK u \in Temps : moved[u][t] \in Values
        BY <3>6
      <4>2. u # m
        BY <4>1, <1>0, <1>1, SshDisjoint
      <4> QED  BY <4>1, <4>2, <3>3, <1>4 DEF Kept, Spare
    <3> QED  BY <3>1, <3>4, <3>5, <3>6 DEF Spare
  <2> QED  BY <2>1, <2>2, <2>3, <2>4 DEF Kept
<1>18. TempsAccounted'
  BY <1>0, <1>3, <1>6, <1>8 DEF TempsAccounted
<1> QED  BY <1>7, <1>10, <1>12, <1>13, <1>15, <1>16, <1>17, <1>18

-----------------------------------------------------------------------------
\* Every step of a call keeps the invariant's part about the server.
LEMMA ServerStep ==
  ASSUME CallType, CallInv, OwnInv, Server, CallType', CallInv', OwnInv', NEW p \in Procs, Step(p)
  PROVE  Server'
<1> USE DEF WithTemp, WithAside, Writing, Reading
<1>0. None \notin Temps /\ Temps \subseteq Names /\ Keys \subseteq Names
  BY SshDisjoint DEF Names
<1>c. CallInv!(p) /\ CallInv!(p)'
  BY DEF CallInv
<1>r. ASSUME NEW r, Return(p, r)
      PROVE  Others(p) /\ tmp'[p] = None /\ aside'[p] = None /\ pc'[p] = "idle"
  BY <1>r DEF Return, Others, CallType
<1>g. ASSUME NEW at, Goto(p, at)
      PROVE  /\ pc'[p] = at /\ to' = to /\ \A q \in Procs : q # p => pc'[q] = pc[q]
             /\ tmp' = tmp /\ aside' = aside => Others(p)
  BY <1>g DEF Goto, Others, CallType
<1>k. ASSUME UNCHANGED <<node, moved, objs, prev, orphans>>, Others(p), tmp'[p] = tmp[p],
             aside'[p] = aside[p],
             tmp[p] # None => to'[p] = to[p] /\ (pc'[p] \in {"fill", "drop_tmp"}
                                               \/ pc[p] \notin {"fill", "drop_tmp"}),
             pc'[p] # "drop_aside"
      PROVE  Server'
  <2>1. orphans' = orphans \cup {t \in {} \cap Temps : node[t] # None}
    BY <1>k
  <2>2. \A t \in {} \cap Temps : t \in {tmp[p], aside[p]} /\ t \notin {tmp'[p], aside'[p]}
    OBVIOUS
  <2>3. \A t \in {tmp[p], aside[p]} \cap Temps :
          t \in {tmp'[p], aside'[p]} \/ t \in {} \/ node[t] = None
    BY <1>k
  <2> QED  BY <2>1, <2>2, <2>3, <1>k, KeepTree
<1>b. ASSUME NEW o, NEW at \in {"put_mkdir", "copy_stat", "check", "all_stat"}, NEW s, NEW d,
             NEW v, NEW set, Begin(p, o, at, s, d, v, set)
      PROVE  Server'
  <2>1. /\ UNCHANGED <<node, moved, objs, prev, orphans, tmp, aside>> /\ Others(p)
        /\ pc'[p] = at /\ pc[p] = "idle"
    BY <1>b DEF Begin, Others, CallType, tree
  <2> QED  BY <2>1, <1>c, <1>k
<1>1. CASE PutObject(p) \/ Copy(p) \/ Delete(p) \/ DeleteAll(p)
  BY <1>1, <1>b DEF PutObject, Copy, Delete, DeleteAll
<1>2. CASE /\ \E r : Return(p, r)
           /\ pc[p] \notin WithTemp /\ UNCHANGED tree
  BY <1>2, <1>c, <1>r, <1>k DEF tree
<1>3. CASE CopyStat(p) \/ StatDst(p) \/ CopyOpen(p) \/ FillFail(p) \/ PosixFail(p)
  <2>1. ASSUME NEW at \in {"copy_dst", "create", "copy_open", "copy_mkdir"}, Goto(p, at),
               UNCHANGED <<tree, tmp, aside>>, pc[p] \notin WithTemp
        PROVE  Server'
    BY <2>1, <1>c, <1>g, <1>k DEF tree
  <2>2. CASE CopyStat(p)
    BY <2>2, <2>1, <1>2 DEF CopyStat
  <2>3. CASE StatDst(p)
    BY <2>3, <2>1, <1>2 DEF StatDst
  <2>4. CASE CopyOpen(p)
    BY <2>4, <2>1, <1>2 DEF CopyOpen
  <2>5. CASE FillFail(p) \/ PosixFail(p)
    BY <2>5, <1>g, <1>k DEF FillFail, PosixFail, tree
  <2> QED  BY <2>2, <2>3, <2>4, <2>5, <1>3
<1>4. CASE MoveAsideFail(p) \/ MoveInFail(p)
  BY <1>4, <1>g, <1>k DEF MoveAsideFail, MoveInFail, tree
<1>5. CASE DeleteCheck(p)
  BY <1>5, <1>k DEF DeleteCheck, tree, args, Others
<1>6. CASE DeleteDecide(p) \/ UnlinkDone(p) \/ AllStat(p) \/ AllRead(p)
  <2>1. UNCHANGED tree /\ pc[p] \in {"check", "unlink", "all_unlink", "all_stat", "all_read"}
    BY <1>6 DEF DeleteDecide, UnlinkDone, AllStat, AllRead
  <2>2. CASE \E r : Return(p, r)
    BY <2>1, <2>2, <1>2
  <2>3. CASE (\E at : Goto(p, at) /\ at # "drop_aside") /\ UNCHANGED <<tmp, aside>>
    BY <2>1, <2>3, <1>c, <1>g, <1>k DEF tree
  <2> QED  BY <2>2, <2>3, <1>6 DEF DeleteDecide, UnlinkDone, AllStat, AllRead
<1>7. CASE Fail(p)
  BY <1>7, <1>2 DEF Fail
<1>8. CASE MkdirAll(p)
  <2>1. CASE Return(p, "error") /\ UNCHANGED node
    BY <2>1, <1>8, <1>2 DEF MkdirAll, tree
  <2>2. CASE /\ \A k \in Keys : k = DirOf[to[p]] => ~IsFile(k)
             /\ node' = [n \in Names |-> IF n = DirOf[to[p]] THEN Dir ELSE node[n]]
             /\ Goto(p, IF op[p] = "put" THEN "put_stat" ELSE "create")
             /\ UNCHANGED <<body, tmp, aside, delVars>>
    <3>1. Others(p) /\ pc'[p] # "drop_aside" /\ tmp[p] = None /\ to[p] \in Keys
      BY <2>2, <1>8, <1>c, <1>g DEF MkdirAll
    <3> QED  BY <2>2, <3>1, <1>8, MkdirFacts DEF MkdirAll
  <2> QED  BY <2>1, <2>2, <1>8 DEF MkdirAll
<1>9. CASE Create(p)
  <2>1. PICK t \in Temps : /\ Unused(t) /\ DirOf[t] = DirOf[to[p]]
                           /\ node' = [node EXCEPT ![t] = Partial]
                           /\ prev' = [prev EXCEPT ![t] = None]
                           /\ orphans' = orphans \ {t}
                           /\ tmp' = [tmp EXCEPT ![p] = t]
    BY <1>9 DEF Create
  <2>2. /\ pc'[p] = "fill" /\ tmp'[p] = t /\ to'[p] = to[p] /\ aside' = aside /\ Others(p)
        /\ UNCHANGED <<moved, objs>> /\ HasDir(to[p])
    BY <2>1, <1>9 DEF Create, Goto, Others, CallType
  <2>3. to[p] \in Keys /\ tmp[p] = None /\ aside[p] = None
    BY <1>9, <1>c DEF Create
  <2>4. aside'[p] = None
    BY <2>2, <2>3
  <2> QED  BY <2>1, <2>2, <2>3, <2>4, CreateFacts
<1>10. CASE Fill(p)
  BY <1>10, FillFacts
<1>11. CASE Replace(p) \/ ReplaceLost(p)
  BY <1>11, PosixFacts DEF Replace, ReplaceLost
<1>12. CASE MoveAside(p)
  <2>1. PICK t \in Temps : /\ Unused(t) /\ DirOf[t] = DirOf[to[p]] /\ Renamed(to[p], t)
                           /\ aside' = [aside EXCEPT ![p] = t]
    BY <1>12 DEF MoveAside
  <2>2. /\ pc'[p] = "move" /\ aside'[p] = t /\ to'[p] = to[p] /\ tmp' = tmp /\ Others(p)
        /\ pc[p] = "aside" /\ node[to[p]] # None
    BY <2>1, <1>12 DEF MoveAside, Goto, Others, CallType
  <2>3. to[p] \in Keys /\ tmp[p] # None /\ aside[p] = None
    BY <2>2, <1>c
  <2> QED  BY <2>1, <2>2, <2>3, AsideFacts
<1>13. CASE MoveIn(p)
  <2> DEFINE n == tmp[p]  m == to[p]
  <2>1. n \in Temps /\ m \in Keys /\ CanRename(n, m) /\ Renamed(n, m) /\ pc[p] \in {"plain", "move"}
    BY <1>13, <1>c DEF MoveIn, CallType
  <2>2. /\ DirOf[n] = DirOf[m] /\ node[n] # Partial /\ node[n] # Dir /\ prev[n] = None
    BY <2>1, <1>0 DEF TempInv, Server
  <2>3. \A x \in Names : moved[n][x] = None
    BY <2>1, <2>2 DEF Server, TreeInv
  <2>4. CASE pc[p] = "plain" /\ Return(p, "ok")
    <3>1. Others(p) /\ tmp'[p] = None /\ aside'[p] = None /\ pc'[p] = "idle" /\ aside[p] = None
      BY <2>4, <1>c, <1>r
    <3> QED  BY <2>1, <2>2, <2>3, <2>4, <3>1, <1>0, BackFacts
  <2>5. CASE pc[p] = "move" /\ Goto(p, "drop_aside") /\ UNCHANGED <<body, tmp, aside, delVars>>
    <3>1. /\ Others(p) /\ tmp'[p] = tmp[p] /\ aside'[p] = aside[p] /\ to'[p] = m
          /\ pc'[p] = "drop_aside"
      BY <2>5, <1>g
    <3>2. aside'[p] # n
      BY <3>1, <2>1, <1>0 DEF OwnInv
    <3> QED  BY <2>1, <2>2, <2>3, <2>5, <3>1, <3>2, <1>0, BackFacts
  <2> QED  BY <2>4, <2>5, <1>13 DEF MoveIn
<1>14. CASE Restore(p)
  <2> DEFINE n == aside[p]  m == to[p]
  <2>1. n \in Temps /\ m \in Keys /\ CanRename(n, m) /\ Renamed(n, m) /\ pc[p] = "restore"
    BY <1>14, <1>c DEF Restore, CallType
  <2>2. /\ DirOf[n] = DirOf[m] /\ node[n] # Partial /\ prev[n] \in {None, m}
        /\ \A x \in Names : moved[n][x] # None => DirOf[x] = m
    BY <2>1, <1>0 DEF AsideInv, Server
  <2>3. /\ Others(p) /\ tmp'[p] = tmp[p] /\ aside'[p] = None /\ to'[p] = m
        /\ pc'[p] = "drop_tmp"
    BY <1>14 DEF Restore, Goto, Others, CallType
  <2>4. n # tmp[p] /\ aside'[p] # n
    BY <2>1, <2>3, <1>0 DEF OwnInv
  <2> QED  BY <2>1, <2>2, <2>3, <2>4, <1>0, BackFacts
<1>15. CASE RestoreFail(p)
  <2>1. /\ Others(p) /\ tmp'[p] = tmp[p] /\ aside'[p] = None /\ to'[p] = to[p]
        /\ pc'[p] = "drop_tmp" /\ pc[p] = "restore" /\ Abandon({aside[p]})
    BY <1>15 DEF RestoreFail, Goto, Others, CallType
  <2>2. aside[p] \in Temps /\ aside[p] # tmp[p]
    BY <2>1, <1>c, <1>0 DEF CallType, OwnInv
  <2>3. /\ \A t \in {aside[p]} \cap Temps : t \in {tmp[p], aside[p]} /\ t \notin {tmp'[p], aside'[p]}
        /\ \A t \in {tmp[p], aside[p]} \cap Temps :
             t \in {tmp'[p], aside'[p]} \/ t \in {aside[p]} \/ node[t] = None
    BY <2>1, <2>2, <1>0
  <2> QED  BY <2>1, <2>3, KeepTree DEF Abandon
<1>16. CASE DropAside(p)
  <2>1. /\ Others(p) /\ tmp'[p] = None /\ aside'[p] = None /\ pc'[p] = "idle"
        /\ pc[p] = "drop_aside" /\ aside[p] \in Temps /\ tmp[p] \in Temps
    BY <1>16, <1>r, <1>c DEF DropAside, CallType
  <2>2. CASE CanRemove(aside[p]) /\ Removed(aside[p]) /\ UNCHANGED <<objs, orphans>>
    BY <2>1, <2>2, DropFacts
  <2>3. CASE Abandon({aside[p]})
    <3>1. node[tmp[p]] = None
      BY <2>1, <1>0 DEF Server, TempInv, Placed
    <3> QED  BY <2>1, <2>3, <3>1, <1>0, KeepTree DEF Abandon
  <2> QED  BY <2>2, <2>3, <1>16 DEF DropAside
<1>17. CASE DropTmp(p)
  <2>1. /\ Others(p) /\ tmp'[p] = None /\ aside'[p] = None /\ pc'[p] = "idle"
        /\ pc[p] = "drop_tmp" /\ aside[p] = None /\ tmp[p] \in Temps
    BY <1>17, <1>r, <1>c DEF DropTmp, CallType
  <2>2. CASE CanRemove(tmp[p]) /\ Removed(tmp[p]) /\ UNCHANGED <<objs, orphans>>
    BY <2>1, <2>2, DropFacts
  <2>3. CASE Abandon({tmp[p]})
    BY <2>1, <2>3, <1>0, KeepTree DEF Abandon
  <2> QED  BY <2>2, <2>3, <1>17 DEF DropTmp
<1>18. CASE Unlink(p)
  <2>1. PICK n \in todo[p] : (CanRemove(n) /\ Deleted(n)) \/ UNCHANGED tree
    BY <1>18 DEF Unlink
  <2>2. /\ n \in Names /\ Others(p) /\ UNCHANGED <<tmp, aside, to, pc>> /\ tmp[p] = None
        /\ pc[p] \in {"unlink", "all_unlink"}
    BY <2>1, <1>18, <1>c DEF Unlink, Others, CallType, args
  <2>3. CASE CanRemove(n) /\ Deleted(n)
    BY <2>2, <2>3, DeleteFacts
  <2>4. CASE UNCHANGED tree
    BY <2>2, <2>4, <1>k DEF tree
  <2> QED  BY <2>1, <2>3, <2>4
<1>19. CASE AllRmdir(p)
  <2>1. pc[p] = "all_rmdir" /\ \E r : Return(p, r)
    BY <1>19 DEF AllRmdir
  <2>2. CASE UNCHANGED tree
    BY <2>1, <2>2, <1>2
  <2>3. CASE CanRemove(from[p]) /\ Deleted(from[p])
    <3>1. /\ from[p] \in Names /\ Others(p) /\ tmp[p] = None /\ aside[p] = None
          /\ tmp'[p] = None /\ aside'[p] = None /\ pc'[p] = "idle"
      BY <2>1, <1>0, <1>c, <1>r
    <3>2. tmp' = tmp /\ aside' = aside
      BY <3>1 DEF Others, CallType
    <3> QED  BY <2>3, <3>1, <3>2, DeleteFacts
  <2> QED  BY <2>2, <2>3, <1>19 DEF AllRmdir
<1>20. CASE Drop(p)
  <2>1. /\ Others(p) /\ tmp'[p] = None /\ aside'[p] = None /\ pc'[p] = "idle"
        /\ Abandon({tmp[p], aside[p]})
    BY <1>20, <1>r DEF Drop
  <2> QED  BY <2>1, <1>0, KeepTree DEF Abandon
<1> QED
  <2>1. CASE \/ Replace(p) \/ ReplaceLost(p) \/ PosixFail(p) \/ MoveAside(p) \/ MoveAsideFail(p)
             \/ MoveIn(p) \/ MoveInFail(p) \/ Restore(p) \/ RestoreFail(p)
             \/ DropAside(p) \/ DropTmp(p)
    BY <2>1, <1>3, <1>4, <1>11, <1>12, <1>13, <1>14, <1>15, <1>16, <1>17
  <2> QED
    BY <2>1, <1>1, <1>3, <1>5, <1>6, <1>7, <1>8, <1>9, <1>10, <1>18, <1>19, <1>20 DEF Step

\* Inv, seen as what the calls know and what the server holds.
LEMMA InvSplit == Inv <=> CallType /\ CallInv /\ OwnInv /\ Server
BY DEF Inv, TypeOK, CallType, TreeType, Server

\* A step that changes nothing changes nothing the invariant talks of.
LEMMA StutterInv == Inv /\ UNCHANGED vars => Inv'
<1> SUFFICES ASSUME Inv, UNCHANGED vars PROVE Inv'
  OBVIOUS
<1> USE DEF vars, tree, args, delVars
<1>1. CallType' /\ CallInv' /\ OwnInv'
  BY InvSplit DEF CallType, CallInv, OwnInv
<1>2. TreeType' /\ TreeInv' /\ WholeInv'
  BY InvSplit DEF Server, TreeType, TreeInv, WholeInv, WholeObjects, HasDir
<1>3. PrevInv' /\ TempsAccounted'
  BY InvSplit DEF Server, PrevInv, TempsAccounted, Placed, Held
<1>4. TempInv' /\ AsideInv'
  BY InvSplit DEF Server, TempInv, AsideInv, Placed
<1>5. KeptInv'
  BY InvSplit DEF Server, KeptInv, Kept, Spare
<1> QED
  BY <1>1, <1>2, <1>3, <1>4, <1>5 DEF Inv, TypeOK, CallType, TreeType

\* Every step keeps the invariant.
LEMMA NextInv == Inv /\ [Next]_vars => Inv'
<1> SUFFICES ASSUME Inv, [Next]_vars PROVE Inv'
  OBVIOUS
<1>1. CASE UNCHANGED vars
  BY <1>1, StutterInv
<1>2. CASE Next
  <2>1. PICK p \in Procs : Step(p)
    BY <1>2 DEF Next
  <2>2. CallType' /\ CallInv' /\ OwnInv'
    BY <2>1, InvSplit, CallStep DEF Server, TreeType, WholeInv
  <2>3. Server'
    BY <2>1, <2>2, InvSplit, ServerStep
  <2> QED  BY <2>2, <2>3 DEF Inv, TypeOK, CallType, TreeType, Server
<1> QED  BY <1>1, <1>2

\* The inductive invariant of ssh/storage.go's puts, copies and deletions.
THEOREM InvHolds == Spec => []Inv
BY InitInv, NextInv, PTL DEF Spec

\* The state of the calls and of the server has its types.
THEOREM TypeCorrect == Spec => []TypeOK
<1>1. Inv => TypeOK
  BY DEF Inv
<1> QED  BY <1>1, InvHolds, PTL

\* However many calls put, copy and delete, and whichever requests fail, no object is a
\* file that is still being written: a temporary has its final name only after Close.
THEOREM ObjectsAreWhole == Spec => []WholeObjects
<1>1. Inv => WholeObjects
  BY DEF Inv, WholeInv
<1> QED  BY <1>1, InvHolds, PTL

\* replaceFile never loses the object it replaces: until it is deleted, a whole object
\* has its name, or is under the name it was moved aside to.
THEOREM ReplacedIsKept == Spec => []ReplacedNotLost
<1>1. Inv => ReplacedNotLost
  BY DEF Inv, KeptInv, Kept, Spare, ReplacedNotLost
<1> QED  BY <1>1, InvHolds, PTL

\* Every temporary on the server is a running call's, or a failure's that was recorded.
THEOREM TempsAreAccounted == Spec => []TempsAccounted
<1>1. Inv => TempsAccounted
  BY DEF Inv
<1> QED  BY <1>1, InvHolds, PTL

\* A put or a copy that returns nil has renamed its file to the destination, and one that
\* returns an error, other than that of a dropped connection, has not.
THEOREM ReportsAreTrue == Spec => ReportsWhatItDid
<1>1. Inv /\ [Next]_vars =>
        [\A p \in Procs : tmp[p] # None /\ pc'[p] = "idle"
           => res'[p] = "dropped" \/ (res'[p] = "ok" <=> wrote'[p])]_vars
  <2> SUFFICES ASSUME Inv, Next, NEW p \in Procs, tmp[p] # None, pc'[p] = "idle"
               PROVE  res'[p] = "dropped" \/ (res'[p] = "ok" <=> wrote'[p])
    BY DEF vars
  <2>1. CallType /\ CallInv!(p) /\ pc[p] \in WithTemp /\ pc[p] # "idle"
    BY InvSplit DEF CallInv, WithTemp
  <2>2. PICK q \in Procs : Step(q)
    BY DEF Next
  <2> USE DEF WithTemp, WithAside, CallType
  <2>r. ASSUME NEW r \in {"ok", "missing", "error", "dropped"}, NEW z \in Procs, Return(z, r)
        PROVE  res'[z] = r /\ (z # p => pc'[p] = pc[p])
    BY <2>r, <2>1 DEF Return
  <2>g. ASSUME NEW z \in Procs, NEW at, Goto(z, at)
        PROVE  z # p => pc'[p] = pc[p]
    BY <2>g, <2>1 DEF Goto
  <2>3. q = p
    <3> SUFFICES ASSUME q # p PROVE pc'[p] = pc[p]
      BY <2>1
    <3>1. CASE PutObject(q) \/ Copy(q) \/ Delete(q) \/ DeleteAll(q)
      BY <3>1, <2>1 DEF PutObject, Copy, Delete, DeleteAll, Begin
    <3>2. CASE CopyStat(q) \/ StatDst(q) \/ CopyOpen(q) \/ MkdirAll(q) \/ Create(q) \/ Fill(q)
                 \/ FillFail(q)
      BY <3>2, <2>r, <2>g DEF CopyStat, StatDst, CopyOpen, MkdirAll, Create, Fill, FillFail
    <3>3. CASE Replace(q) \/ ReplaceLost(q) \/ PosixFail(q) \/ MoveAside(q) \/ MoveAsideFail(q)
                 \/ MoveIn(q) \/ MoveInFail(q) \/ Restore(q) \/ RestoreFail(q)
      BY <3>3, <2>r, <2>g DEF Replace, ReplaceLost, PosixRename, PosixFail, MoveAside,
           MoveAsideFail, MoveIn, MoveInFail, Restore, RestoreFail
    <3>4. CASE DropAside(q) \/ DropTmp(q) \/ DeleteDecide(q) \/ UnlinkDone(q) \/ AllStat(q)
                 \/ AllRead(q) \/ AllRmdir(q) \/ Fail(q) \/ Drop(q)
      BY <3>4, <2>r, <2>g DEF DropAside, DropTmp, DeleteDecide, UnlinkDone, AllStat, AllRead,
           AllRmdir, Fail, Drop
    <3>5. CASE DeleteCheck(q) \/ Unlink(q)
      BY <3>5 DEF DeleteCheck, Unlink
    <3> QED  BY <3>1, <3>2, <3>3, <3>4, <3>5, <2>2 DEF Step
  <2>4. ASSUME NEW at, Goto(p, at) PROVE pc'[p] = at
    BY <2>1, <2>4 DEF Goto
  <2>w. ASSUME wrote' = [wrote EXCEPT ![p] = TRUE] PROVE wrote'[p] = TRUE
    BY <2>1, <2>w
  <2>5. CASE Replace(p) \/ ReplaceLost(p)
    BY <2>5, <2>r, <2>w DEF Replace, ReplaceLost, PosixRename
  <2>6. CASE MoveIn(p)
    BY <2>6, <2>r, <2>4, <2>w DEF MoveIn
  <2>7. CASE DropAside(p)
    BY <2>7, <2>1, <2>r DEF DropAside
  <2>8. CASE DropTmp(p)
    BY <2>8, <2>1, <2>r DEF DropTmp
  <2>9. CASE Drop(p)
    BY <2>9, <2>r DEF Drop
  <2>10. ~(FillFail(p) \/ Fill(p) \/ PosixFail(p) \/ MoveAside(p) \/ MoveAsideFail(p)
           \/ MoveInFail(p) \/ Restore(p) \/ RestoreFail(p))
    BY <2>4 DEF FillFail, Fill, PosixFail, MoveAside, MoveAsideFail, MoveInFail, Restore,
         RestoreFail
  <2>11. ~(PutObject(p) \/ Copy(p) \/ CopyStat(p) \/ StatDst(p) \/ CopyOpen(p) \/ MkdirAll(p)
           \/ Create(p) \/ Delete(p) \/ DeleteCheck(p) \/ DeleteDecide(p) \/ Unlink(p)
           \/ UnlinkDone(p) \/ DeleteAll(p) \/ AllStat(p) \/ AllRead(p) \/ AllRmdir(p) \/ Fail(p))
    BY <2>1 DEF PutObject, Copy, CopyStat, StatDst, CopyOpen, MkdirAll, Create, Delete,
         DeleteCheck, DeleteDecide, Unlink, UnlinkDone, DeleteAll, AllStat, AllRead, AllRmdir,
         Fail, Begin
  <2> QED  BY <2>2, <2>3, <2>5, <2>6, <2>7, <2>8, <2>9, <2>10, <2>11 DEF Step
<1> QED  BY <1>1, InvHolds, PTL DEF Spec, ReportsWhatItDid

-----------------------------------------------------------------------------
\* sftp_lazy.go.

Opening == {"handshake", "init", "stop"}
Holding == {"locked", "record", "unlock"} \cup Connecting

\* The lock is held exactly by the call that is past the select and not yet back.
LockInv ==
  /\ \A p \in Users : holder = p <=> lpc[p] \in Holding
  /\ \A p \in Closers : lpc[p] \in {"idle", "wait", "locked", "unlock"}

\* The attempt of p: when it runs, whose connection it uses, what its error says.
AttemptInv(p) ==
  /\ lpc[p] \in Connecting \cup {"record"} => ~attempted
  /\ lpc[p] \in Opening => cur[p] \in Conns /\ after[cur[p]] \in {"armed", "running"}
  /\ cur[p] # Nil => lpc[p] \in Opening \cup {"record"} /\ owner[cur[p]] = p
  /\ cause[p] = "cancel" => ctx[p] = "done"
  /\ lpc[p] \in {"idle", "wait", "locked", "dial", "handshake", "init"} => err[p] = "nil"
  /\ lpc[p] = "stop" => err[p] \in {"nil", "host"}
  /\ lpc[p] = "record" => err[p] # "closed" /\ (err[p] = "cancel" => ctx[p] = "done")

\* The connection of an attempt is usable or being closed while it has no error,
\* closed or being closed once it has one, and safe from AfterFunc when it is
\* about to be cached.
HealthInv(p) ==
  /\ lpc[p] = "record" /\ err[p] = "nil" =>
       cur[p] \in Conns /\ conn[cur[p]] = "open" /\ after[cur[p]] = "stopped"
  /\ cur[p] # Nil /\ err[p] = "nil" => conn[cur[p]] = "open" \/ after[cur[p]] = "running"
  /\ cur[p] # Nil /\ err[p] # "nil" => conn[cur[p]] = "closed" \/ after[cur[p]] = "running"

\* A socket and its AfterFunc: an armed one belongs to an attempt under way, a
\* running one has a cause, and every open connection is accounted for.
ConnInv(c) ==
  /\ conn[c] = "new" <=> after[c] = "none"
  /\ after[c] = "armed" => owner[c] \in Callers /\ cur[owner[c]] = c /\ lpc[owner[c]] \in Opening
  /\ after[c] = "running" /\ owner[c] \in Callers /\ cur[owner[c]] = c => cause[owner[c]] # "nil"
  /\ conn[c] = "open" => \/ c = ssh \/ after[c] = "running"
                         \/ owner[c] \in Callers /\ cur[owner[c]] = c

CacheInv ==
  /\ CachedClientIsLive
  /\ CancelIsNotCached
  /\ ~attempted => connErr = "nil"

LazyInv ==
  /\ LazyTypeOK
  /\ LockInv
  /\ \A p \in Callers : AttemptInv(p) /\ HealthInv(p)
  /\ \A c \in Conns : ConnInv(c)
  /\ CacheInv

-----------------------------------------------------------------------------
\* The fields of a new sftpLazy (newSFTPLazy) satisfy the invariant.
LEMMA LazyInitInv == LazyInit => LazyInv
<1> SUFFICES ASSUME LazyInit PROVE LazyInv
  OBVIOUS
<1> USE SftpDisjoint DEF LazyInit, Users, Connecting, Errs
<1>1. LazyTypeOK
  BY DEF LazyTypeOK
<1>2. LockInv
  BY DEF LockInv, Holding
<1>3. ASSUME NEW p \in Callers PROVE AttemptInv(p) /\ HealthInv(p)
  BY DEF AttemptInv, HealthInv, Opening
<1>4. ASSUME NEW c \in Conns PROVE ConnInv(c)
  BY DEF ConnInv
<1>5. CacheInv
  BY DEF CacheInv, CachedClientIsLive, CancelIsNotCached
<1> QED  BY <1>1, <1>2, <1>3, <1>4, <1>5 DEF LazyInv

\* Every step of Client, connect, openSFTP, Close and AfterFunc's goroutine keeps
\* the invariant.
LEMMA LazyNextInv == LazyInv /\ [LazyNext]_clientVars => LazyInv'
<1> SUFFICES ASSUME LazyInv, [LazyNext]_clientVars PROVE LazyInv'
  OBVIOUS
<1> USE SftpDisjoint DEF Users, Connecting, Opening, Holding, Errs, lazyVars, connVars
<1>1. ASSUME NEW p \in Callers, Call(p) PROVE LazyInv'
  BY <1>1 DEF Call, LazyInv, LazyTypeOK, LockInv, AttemptInv, HealthInv, ConnInv,
    CacheInv, CachedClientIsLive, CancelIsNotCached
<1>2. ASSUME NEW p \in Callers, Cancel(p) PROVE LazyInv'
  BY <1>2 DEF Cancel, LazyInv, LazyTypeOK, LockInv, AttemptInv, HealthInv, ConnInv,
    CacheInv, CachedClientIsLive, CancelIsNotCached
<1>3. ASSUME NEW p \in Callers, GiveUp(p) PROVE LazyInv'
  BY <1>3 DEF GiveUp, ClientReturn, LazyInv, LazyTypeOK, LockInv, AttemptInv, HealthInv, ConnInv,
    CacheInv, CachedClientIsLive, CancelIsNotCached
<1>4. ASSUME NEW p \in Callers, Decide(p) PROVE LazyInv'
  BY <1>4 DEF Decide, LazyInv, LazyTypeOK, LockInv, AttemptInv, HealthInv, ConnInv,
    CacheInv, CachedClientIsLive, CancelIsNotCached
<1>5. ASSUME NEW p \in Callers, Timeout(p) PROVE LazyInv'
  BY <1>5 DEF Timeout, LazyInv, LazyTypeOK, LockInv, AttemptInv, HealthInv, ConnInv,
    CacheInv, CachedClientIsLive, CancelIsNotCached
\* A new connection: its AfterFunc is armed for this attempt, which has no error.
<1>6. ASSUME NEW p \in Callers, DialOK(p) PROVE LazyInv'
  <2>1. LazyTypeOK'
    BY <1>6 DEF DialOK, LazyInv, LazyTypeOK
  <2>2. LockInv'
    BY <1>6 DEF DialOK, LazyInv, LazyTypeOK, LockInv
  <2>3. \A q \in Callers : AttemptInv(q)'
    BY <1>6 DEF DialOK, LazyInv, LazyTypeOK, LockInv, AttemptInv, HealthInv, ConnInv
  <2>4. \A q \in Callers : HealthInv(q)'
    BY <1>6 DEF DialOK, LazyInv, LazyTypeOK, LockInv, AttemptInv, HealthInv, ConnInv
  <2>5. \A d \in Conns : ConnInv(d)'
    BY <1>6 DEF DialOK, LazyInv, LazyTypeOK, LockInv, AttemptInv, HealthInv, ConnInv, CacheInv,
      CachedClientIsLive
  <2>6. CacheInv'
    BY <1>6 DEF DialOK, LazyInv, LazyTypeOK, LockInv, AttemptInv, HealthInv, ConnInv, CacheInv,
      CachedClientIsLive, CancelIsNotCached
  <2> QED  BY <2>1, <2>2, <2>3, <2>4, <2>5, <2>6 DEF LazyInv
<1>7. ASSUME NEW p \in Callers, DialRefused(p) PROVE LazyInv'
  BY <1>7 DEF DialRefused, DialFail, LazyInv, LazyTypeOK, LockInv, AttemptInv, HealthInv, ConnInv,
    CacheInv, CachedClientIsLive, CancelIsNotCached
<1>8. ASSUME NEW p \in Callers, DialCut(p) PROVE LazyInv'
  BY <1>8 DEF DialCut, DialFail, LazyInv, LazyTypeOK, LockInv, AttemptInv, HealthInv, ConnInv,
    CacheInv, CachedClientIsLive, CancelIsNotCached
<1>9. ASSUME NEW p \in Callers, OpenStep(p) PROVE LazyInv'
  BY <1>9 DEF OpenStep, LazyInv, LazyTypeOK, LockInv, AttemptInv, HealthInv, ConnInv,
    CacheInv, CachedClientIsLive, CancelIsNotCached
<1>10. ASSUME NEW p \in Callers, OpenRefused(p) PROVE LazyInv'
  BY <1>10 DEF OpenRefused, OpenFail, LazyInv, LazyTypeOK, LockInv, AttemptInv, HealthInv, ConnInv,
    CacheInv, CachedClientIsLive, CancelIsNotCached
<1>11. ASSUME NEW p \in Callers, OpenCut(p) PROVE LazyInv'
  BY <1>11 DEF OpenCut, OpenFail, LazyInv, LazyTypeOK, LockInv, AttemptInv, HealthInv, ConnInv,
    CacheInv, CachedClientIsLive, CancelIsNotCached
\* stop(): the connection leaves the reach of AfterFunc, or the attempt fails.
<1>12. ASSUME NEW p \in Callers, Stop(p) PROVE LazyInv'
  <2>1. LazyTypeOK'
    BY <1>12 DEF Stop, LazyInv, LazyTypeOK
  <2>2. LockInv'
    BY <1>12 DEF Stop, LazyInv, LazyTypeOK, LockInv
  <2>3. \A q \in Callers : AttemptInv(q)'
    BY <1>12 DEF Stop, LazyInv, LazyTypeOK, LockInv, AttemptInv, HealthInv, ConnInv
  <2>4. \A q \in Callers : HealthInv(q)'
    BY <1>12 DEF Stop, LazyInv, LazyTypeOK, LockInv, AttemptInv, HealthInv, ConnInv
  <2>5. \A d \in Conns : ConnInv(d)'
    BY <1>12 DEF Stop, LazyInv, LazyTypeOK, LockInv, AttemptInv, HealthInv, ConnInv, CacheInv,
      CachedClientIsLive
  <2>6. CacheInv'
    BY <1>12 DEF Stop, LazyInv, LazyTypeOK, LockInv, AttemptInv, HealthInv, ConnInv, CacheInv,
      CachedClientIsLive, CancelIsNotCached
  <2> QED  BY <2>1, <2>2, <2>3, <2>4, <2>5, <2>6 DEF LazyInv
\* The outcome is cached; ~attempted says nothing was cached before.
<1>13. ASSUME NEW p \in Callers, Record(p) PROVE LazyInv'
  <2>1. LazyTypeOK'
    <3>1. cur[p] \in Conns \cup {Nil} /\ err[p] \in Errs
      BY DEF LazyInv, LazyTypeOK
    <3>2. /\ attempted' \in BOOLEAN /\ connErr' \in Errs
          /\ sftp' \in Conns \cup {Nil} /\ ssh' \in Conns \cup {Nil}
      BY <1>13, <3>1 DEF Record, LazyInv, LazyTypeOK
    <3>3. /\ cur' = [cur EXCEPT ![p] = Nil] /\ lpc' = [lpc EXCEPT ![p] = "unlock"]
          /\ UNCHANGED <<holder, timed, closed, ctx, cause, err, connVars>>
      BY <1>13 DEF Record
    <3> QED  BY <3>2, <3>3 DEF LazyInv, LazyTypeOK
  <2>2. LockInv'
    BY <1>13 DEF Record, LazyInv, LazyTypeOK, LockInv
  <2>3. \A q \in Callers : AttemptInv(q)'
    BY <1>13 DEF Record, LazyInv, LazyTypeOK, LockInv, AttemptInv, HealthInv, ConnInv
  <2>4. \A q \in Callers : HealthInv(q)'
    BY <1>13 DEF Record, LazyInv, LazyTypeOK, LockInv, AttemptInv, HealthInv, ConnInv
  <2>5. \A d \in Conns : ConnInv(d)'
    BY <1>13 DEF Record, LazyInv, LazyTypeOK, LockInv, AttemptInv, HealthInv, ConnInv, CacheInv,
      CachedClientIsLive
  <2>6. CacheInv'
    BY <1>13 DEF Record, LazyInv, LazyTypeOK, LockInv, AttemptInv, HealthInv, ConnInv, CacheInv,
      CachedClientIsLive, CancelIsNotCached
  <2> QED  BY <2>1, <2>2, <2>3, <2>4, <2>5, <2>6 DEF LazyInv
<1>14. ASSUME NEW p \in Closers, CallClose(p) PROVE LazyInv'
  BY <1>14 DEF CallClose, LazyInv, LazyTypeOK, LockInv, AttemptInv, HealthInv, ConnInv,
    CacheInv, CachedClientIsLive, CancelIsNotCached
\* The cached connection is closed; no attempt is under way.
<1>15. ASSUME NEW p \in Closers, Close(p) PROVE LazyInv'
  <2>1. LazyTypeOK'
    BY <1>15 DEF Close, LazyInv, LazyTypeOK
  <2>2. LockInv'
    BY <1>15 DEF Close, LazyInv, LazyTypeOK, LockInv
  <2>3. \A q \in Callers : AttemptInv(q)'
    BY <1>15 DEF Close, LazyInv, LazyTypeOK, LockInv, AttemptInv, HealthInv, ConnInv
  <2>4. \A q \in Callers : HealthInv(q)'
    BY <1>15 DEF Close, LazyInv, LazyTypeOK, LockInv, AttemptInv, HealthInv, ConnInv
  <2>5. \A d \in Conns : ConnInv(d)'
    BY <1>15 DEF Close, LazyInv, LazyTypeOK, LockInv, AttemptInv, HealthInv, ConnInv, CacheInv,
      CachedClientIsLive
  <2>6. CacheInv'
    BY <1>15 DEF Close, LazyInv, LazyTypeOK, LockInv, AttemptInv, HealthInv, ConnInv, CacheInv,
      CachedClientIsLive, CancelIsNotCached
  <2> QED  BY <2>1, <2>2, <2>3, <2>4, <2>5, <2>6 DEF LazyInv
<1>16. ASSUME NEW p \in Users, Acquire(p) PROVE LazyInv'
  BY <1>16 DEF Acquire, LazyInv, LazyTypeOK, LockInv, AttemptInv, HealthInv, ConnInv,
    CacheInv, CachedClientIsLive, CancelIsNotCached
<1>17. ASSUME NEW p \in Users, Unlock(p) PROVE LazyInv'
  BY <1>17 DEF Unlock, ClientReturn, LazyInv, LazyTypeOK, LockInv, AttemptInv, HealthInv, ConnInv,
    CacheInv, CachedClientIsLive, CancelIsNotCached
<1>18. ASSUME NEW c \in Conns, Fire(c) PROVE LazyInv'
  BY <1>18 DEF Fire, LazyInv, LazyTypeOK, LockInv, AttemptInv, HealthInv, ConnInv,
    CacheInv, CachedClientIsLive, CancelIsNotCached
<1>19. ASSUME NEW c \in Conns, AfterClose(c) PROVE LazyInv'
  BY <1>19 DEF AfterClose, LazyInv, LazyTypeOK, LockInv, AttemptInv, HealthInv, ConnInv,
    CacheInv, CachedClientIsLive, CancelIsNotCached
<1>20. CASE UNCHANGED clientVars
  BY <1>20 DEF clientVars, LazyInv, LazyTypeOK, LockInv, AttemptInv, HealthInv, ConnInv, CacheInv,
    CachedClientIsLive, CancelIsNotCached
<1> QED
  BY <1>1, <1>2, <1>3, <1>4, <1>5, <1>6, <1>7, <1>8, <1>9, <1>10, <1>11, <1>12, <1>13, <1>14,
     <1>15, <1>16, <1>17, <1>18, <1>19, <1>20
  DEF LazyNext, ClientStep

-----------------------------------------------------------------------------
\* Every reachable state of the lazy connection satisfies the invariant.
THEOREM LazyInvHolds == LazySpec => []LazyInv
<1>1. LazyInit => LazyInv  BY LazyInitInv
<1>2. LazyInv /\ [LazyNext]_clientVars => LazyInv'  BY LazyNextInv
<1> QED  BY <1>1, <1>2, PTL DEF LazySpec

\* The fields of sftpLazy and the state of every call and socket keep their types.
THEOREM LazyTypeCorrect == LazySpec => []LazyTypeOK
<1>1. LazyInv => LazyTypeOK  BY DEF LazyInv
<1> QED  BY <1>1, LazyInvHolds, PTL

\* A client that Client hands out from its cache is live: the stop() in connect
\* has kept the AfterFunc of its attempt from closing it.
THEOREM CachedClientLive == LazySpec => []CachedClientIsLive
<1>1. LazyInv => CachedClientIsLive  BY DEF LazyInv, CacheInv
<1> QED  BY <1>1, LazyInvHolds, PTL

\* Client never caches the failure of a caller whose ctx is done.
THEOREM CancelNotCached == LazySpec => []CancelIsNotCached
<1>1. LazyInv => CancelIsNotCached  BY DEF LazyInv, CacheInv
<1> QED  BY <1>1, LazyInvHolds, PTL

\* No error path of connect and openSFTP leaves a socket open that nobody owns.
THEOREM SocketsAccounted == LazySpec => []NoSocketLeaks
<1>1. LazyInv => NoSocketLeaks
  <2> SUFFICES ASSUME LazyInv, NEW c \in Conns, conn[c] = "open"
               PROVE  \/ c = ssh \/ after[c] = "running"
                      \/ holder \in Callers /\ cur[holder] = c
    BY DEF NoSocketLeaks
  <2>1. CASE owner[c] \in Callers /\ cur[owner[c]] = c
    <3>1. lpc[owner[c]] \in Holding
      BY <2>1, SftpDisjoint DEF LazyInv, AttemptInv, Opening, Holding, Connecting
    <3> QED  BY <2>1, <3>1 DEF LazyInv, LockInv, Users
  <2> QED  BY <2>1 DEF LazyInv, ConnInv
<1> QED  BY <1>1, LazyInvHolds, PTL

\* All clones of a storage share one connection.
THEOREM SingleConnection == LazySpec => []OneConnection
<1>1. LazyInv => OneConnection
  <2> SUFFICES ASSUME LazyInv, NEW c \in Conns, NEW d \in Conns, c # d,
                      conn[c] = "open", conn[d] = "open",
                      after[c] # "running", after[d] # "running"
               PROVE  FALSE
    BY DEF OneConnection
  <2> DEFINE Attempting(e) == owner[e] \in Callers /\ cur[owner[e]] = e
  <2>1. (c = ssh \/ Attempting(c)) /\ (d = ssh \/ Attempting(d))
    BY DEF LazyInv, ConnInv
  <2>2. ASSUME NEW e \in Conns, Attempting(e)
        PROVE  holder = owner[e] /\ ~attempted
    BY <2>2, SftpDisjoint DEF LazyInv, AttemptInv, LockInv, Users, Opening, Holding, Connecting
  <2>3. ssh # Nil => attempted
    BY DEF LazyInv, CacheInv, CachedClientIsLive
  <2> QED  BY <2>1, <2>2, <2>3, SftpDisjoint
<1> QED  BY <1>1, LazyInvHolds, PTL
=============================================================================
