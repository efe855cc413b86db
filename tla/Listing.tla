------------------------------- MODULE Listing -------------------------------
(***************************************************************************)
(* List of the backends, one step per call to the filesystem, the server   *)
(* or the service, while other callers put, copy and delete.  The trees    *)
(* are walked: fs reads a directory's names and looks at each of them, ssh *)
(* reads a directory with its files' attributes.  In a tree objects come   *)
(* into being by a rename of a temporary next to them.  s3 and azure are   *)
(* asked page by page.                                                     *)
(*                                                                         *)
(* Names are listed relative to the prefix; as the prefix is one and the   *)
(* same, a name stands for its relative form.  The folder marker, a key    *)
(* that is the prefix itself, is the one whose relative form is empty.     *)
(***************************************************************************)
EXTENDS Naturals, FiniteSets, Sequences, Functions

CONSTANTS
  Files,     \* names of objects
  Temps,     \* names of temporaries
  Marker,    \* the key of the folder marker
  Dirs,      \* directories
  Prefix,    \* the one that is listed
  Above,     \* Above[x]: the directories that name or directory x is in, at any depth
  KeyRank,   \* KeyRank[n]: the place of a name in the order of strings.Compare, and of the services
  WalkRank,  \* WalkRank[x]: the place of a name or directory in the order of afero.Walk
  PageSize,  \* how many keys the service puts in a page at most
  MaxTime    \* bound: how many objects and temporaries are written

Names == Files \cup Temps \cup {Marker}
ChildOf(x, d) == Above[x] = Above[d] \cup {d}

ASSUME ListingAssumption ==
  /\ PageSize \in Nat \ {0} /\ MaxTime \in Nat
  /\ IsFiniteSet(Names) /\ "" \notin Names /\ Marker \notin Files \cup Temps
  /\ Names \cap Dirs = {} /\ Prefix \in Dirs
  /\ KeyRank \in Injection(Names, Nat)
  /\ WalkRank \in Injection(Names \cup Dirs, Nat)

\* The directories above a name are a chain: one is in the next, the last holds the name.
ASSUME TreeAssumption ==
  /\ Above \in [Names \cup Dirs -> SUBSET Dirs]
  /\ \A x \in Names \cup Dirs : \A d \in Above[x] :
       /\ Above[d] \subseteq Above[x]
       /\ \E e \in Above[x] \cup {x} : ChildOf(e, d)
  /\ \A x \in Names \cup Dirs : \A d, e \in Above[x] \cup {x} : Above[d] = Above[e] => d = e

VARIABLES
  kind,     \* the backend
  store,    \* store[n]: when the file of that name was written, 0 if there is none
  dirs,     \* the directories there are, in a tree
  time,     \* history: how many files have been written
  stayed,   \* history: the names that have been there since the call began
  were,     \* history: the files there have been since, as <<name, time>>
  failed,   \* history: a request has failed, or ctx has ended
  pc,       \* what List does next
  todo,     \* names and directories it has still to look at
  at,       \* the directory fs is about to read, or the key after which a page begins
  res,      \* what it has collected
  result    \* how it ended

world == <<store, dirs, time, stayed, were>>
vars == <<kind, world, failed, pc, todo, at, res, result>>

Trees == {"fs", "ssh"}
Buckets == {"s3v1", "s3v2", "azure"}
Present(n) == store[n] # 0

Listed == {n \in Names : Prefix \in Above[n]}

Init ==
  /\ kind \in Trees \cup Buckets
  /\ dirs \in IF kind \in Trees
                THEN {D \in SUBSET Dirs : \A d \in D : Above[d] \subseteq D}
                ELSE {{}}
  /\ store \in [Names -> {0, 1}]
  /\ \A n \in Names : Present(n) =>
       IF kind \in Trees THEN n \in Files /\ Above[n] \subseteq dirs ELSE n \notin Temps
  /\ time = 1
  /\ stayed = {n \in Names : Present(n)}
  /\ were = {<<n, 1>> : n \in stayed}
  /\ failed = FALSE
  /\ pc = IF kind \in Trees THEN "stat" ELSE "page"
  /\ todo = {} /\ at = "" /\ res = <<>> /\ result = "none"

-----------------------------------------------------------------------------
Return(r) == pc' = "done" /\ result' = r /\ UNCHANGED <<at, todo>>
Goto(p) == pc' = p /\ UNCHANGED result
Entry(n) == <<n, store[n]>>
Entries(names) == [i \in DOMAIN names |-> Entry(names[i])]
In(d) == {n \in Names : ChildOf(n, d) /\ Present(n)}
SubDirs(d) == {e \in dirs : ChildOf(e, d)}

\* The ways to put the members of a set in a row, and whether names are in key order.
Rows(S) == Bijection(1..Cardinality(S), S)
InOrder(names) == \A i, j \in DOMAIN names : i < j => KeyRank[names[i]] <= KeyRank[names[j]]

\* The root of the listing: one that is missing or a file lists nothing.
StatRoot(k) ==
  /\ kind = k /\ pc = "stat"
  /\ \/ Prefix \notin dirs /\ Return("ok")
     \/ Prefix \in dirs /\ todo' = {Prefix} /\ Goto("walk") /\ UNCHANGED at
  /\ UNCHANGED <<kind, world, failed, res>>

\* slices.SortFunc with strings.Compare of the names, the last step of the trees' List:
\* an entry goes to the place that counts it and the entries before it.
NotAfter(i, j) ==
  LET k(e) == KeyRank[res[e][1]] IN k(i) < k(j) \/ (k(i) = k(j) /\ i <= j)
PlaceOf(j) == Cardinality({i \in DOMAIN res : NotAfter(i, j)})

Sorted(k) ==
  /\ kind = k /\ pc = "walk" /\ todo = {}
  /\ res' = [i \in DOMAIN res |-> res[CHOOSE j \in DOMAIN res : PlaceOf(j) = i]]
  /\ Return("ok")
  /\ UNCHANGED <<kind, world, failed>>

-----------------------------------------------------------------------------
\* internal/fsbackend: afero.Walk with the function List gives it.

FsStat == StatRoot("fs")
FsSort == Sorted("fs")

First(x) == \A y \in todo : WalkRank[x] <= WalkRank[y]

\* Mutant: a name that has vanished since it was read ends the walk.
LstatStrict ==
  /\ kind = "fs" /\ pc = "walk"
  /\ \E n \in todo :
       /\ First(n)
       /\ \/ /\ n \in dirs
             /\ todo' = todo \ {n} /\ at' = n /\ Goto("names") /\ UNCHANGED res
          \/ /\ n \in Names /\ Present(n)
             /\ todo' = todo \ {n} /\ res' = Append(res, Entry(n)) /\ UNCHANGED <<at, pc, result>>
          \/ /\ n \notin dirs /\ (n \in Names => ~Present(n))
             /\ Return("error") /\ UNCHANGED res
  /\ UNCHANGED <<kind, world, failed>>

\* The next name is looked at: it may have vanished, which is no error.
Lstat ==
  /\ kind = "fs" /\ pc = "walk"
  /\ \E n \in todo :
       /\ First(n)
       /\ todo' = todo \ {n}
       /\ \/ /\ n \in dirs
             /\ at' = n /\ Goto("names") /\ UNCHANGED res
          \/ /\ n \in Names /\ Present(n)
             /\ res' = Append(res, Entry(n)) /\ UNCHANGED <<at, pc, result>>
          \/ /\ n \notin dirs /\ (n \in Names => ~Present(n))
             /\ UNCHANGED <<at, pc, res, result>>
  /\ UNCHANGED <<kind, world, failed>>

\* readDirNames; a directory that has vanished is no error either.
ReadDirNames ==
  /\ kind = "fs" /\ pc = "names"
  /\ todo' = todo \cup (IF at \in dirs THEN In(at) \cup SubDirs(at) ELSE {})
  /\ Goto("walk")
  /\ UNCHANGED <<kind, world, failed, at, res>>

-----------------------------------------------------------------------------
\* ssh: listUnder, in the order in which the server lists the directories.

SshStat == StatRoot("ssh")
SshSort == Sorted("ssh")

ReadDir ==
  /\ kind = "ssh" /\ pc = "walk"
  /\ \E d \in todo :
       IF d \in dirs
         THEN /\ \E row \in Rows(In(d)) : res' = res \o Entries(row)
              /\ todo' = (todo \ {d}) \cup SubDirs(d)
         ELSE todo' = todo \ {d} /\ UNCHANGED res
  /\ UNCHANGED <<kind, world, failed, pc, at, result>>

-----------------------------------------------------------------------------
\* s3 and azure: the keys after the one where a page begins, and the pages the service
\* may answer with, which may be short of the largest.

Rest == {n \in Listed : Present(n) /\ (at # "" => KeyRank[n] > KeyRank[at])}
Pages == {S \in SUBSET Rest :
            /\ Cardinality(S) <= PageSize /\ (S = {} => Rest = {})
            /\ \A n \in S, m \in Rest \ S : KeyRank[n] < KeyRank[m]}

\* A request for a page, until one is not truncated.  The folder marker's name is
\* empty: it is skipped.  The next page begins after the last key of this one: v1's
\* marker is that key, as without a delimiter the service gives none; the tokens of
\* the v2 paginator and of azure's stand for it.
NextPage(k) ==
  /\ kind = k /\ pc = "page"
  /\ \E page \in Pages :
       /\ \E row \in Rows(page \ {Marker}) : InOrder(row) /\ res' = res \o Entries(row)
       /\ \/ page = Rest /\ Return("ok")
          \/ /\ page # Rest
             /\ at' \in page /\ \A n \in page : KeyRank[n] <= KeyRank[at']
             /\ UNCHANGED <<todo, pc, result>>
  /\ UNCHANGED <<kind, world, failed>>

ListObjects == NextPage("s3v1")
ListObjectsV2 == NextPage("s3v2")
ListBlobsFlat == NextPage("azure")

-----------------------------------------------------------------------------
\* A request fails, or ctx has ended before the next one.
Fail ==
  /\ pc # "done"
  /\ failed' = TRUE
  /\ Return("error")
  /\ UNCHANGED <<kind, world, res>>

\* What the other callers do.  Every change of the store ends with Observe.
Observe ==
  /\ stayed' = {n \in stayed : store'[n] # 0}
  /\ were' = were \cup {<<n, store'[n]>> : n \in {m \in Names : store'[m] # 0}}
  /\ UNCHANGED <<kind, failed, pc, todo, at, res, result>>

\* A put or a copy in a tree: its directory, its temporary, the rename.
Create(t) ==
  /\ kind \in Trees /\ pc # "done" /\ time < MaxTime /\ ~Present(t)
  /\ time' = time + 1
  /\ dirs' = dirs \cup Above[t]
  /\ store' = [store EXCEPT ![t] = time + 1]
  /\ Observe

Rename(t, f) ==
  /\ pc # "done" /\ Present(t) /\ Above[f] = Above[t]
  /\ store' = [store EXCEPT ![f] = store[t], ![t] = 0]
  /\ UNCHANGED <<dirs, time>> /\ Observe

\* An upload, or a copy by the service.
Upload(n) ==
  /\ kind \in Buckets /\ pc # "done" /\ time < MaxTime
  /\ time' = time + 1
  /\ store' = [store EXCEPT ![n] = time + 1]
  /\ UNCHANGED dirs /\ Observe

\* Delete and DeleteAll, and a failed put, remove files; DeleteAll directories too.
Unlink(n) ==
  /\ pc # "done" /\ Present(n)
  /\ store' = [store EXCEPT ![n] = 0]
  /\ UNCHANGED <<dirs, time>> /\ Observe

RemoveDir(d) ==
  /\ pc # "done" /\ d \in dirs /\ In(d) = {} /\ SubDirs(d) = {}
  /\ dirs' = dirs \ {d}
  /\ UNCHANGED <<store, time>> /\ Observe

Done == pc = "done" /\ UNCHANGED vars

Others ==
  \/ \E t \in Temps : Create(t) \/ (\E f \in Files : Rename(t, f))
  \/ \E n \in Files \cup {Marker} : Upload(n)
  \/ \E n \in Names : Unlink(n)
  \/ \E d \in Dirs : RemoveDir(d)

Next ==
  \/ FsStat \/ Lstat \/ ReadDirNames \/ FsSort
  \/ SshStat \/ ReadDir \/ SshSort
  \/ ListObjects \/ ListObjectsV2 \/ ListBlobsFlat
  \/ Fail \/ Others \/ Done

Spec == Init /\ [][Next]_vars

-----------------------------------------------------------------------------
\* A List that returns, returns in the order of the keys, and no name twice: every
\* object that stays for the whole of the call, whatever comes and goes around it,
\* and nothing but files that were there during the call, as they were then.  It
\* fails only if a request failed: temporaries that are renamed away and
\* directories that are removed in the middle of it are no failures.
ListsWhatStays ==
  /\ result = "error" => failed
  /\ result = "ok" =>
       /\ \A i, j \in DOMAIN res : i < j => KeyRank[res[i][1]] < KeyRank[res[j][1]]
       /\ (stayed \cap Listed) \ {Marker} \subseteq {res[i][1] : i \in DOMAIN res}
       /\ \A i \in DOMAIN res : res[i] \in were /\ res[i][1] \in Listed \ {Marker}
=============================================================================
