---------------------------- MODULE ListingProofs ----------------------------
(***************************************************************************)
(* Proofs about Listing, for any tree of directories, any names and pages  *)
(* of any size: a List that returns has every object that stayed, in       *)
(* order, and nothing that was not there.  In a tree the argument is that  *)
(* what the walk has still to look at covers every name that stays and is  *)
(* not collected yet, and covers none twice; in a bucket that the pages    *)
(* read so far hold every name that stays up to the key they end at.       *)
(***************************************************************************)
EXTENDS Listing, FiniteSetTheorems, TLAPS

\* What the walk has still to look at, and what looking at it can still find.
Active == todo \cup (IF pc = "names" THEN {at} ELSE {})
Covers(x, n) == x = n \/ x \in Above[n]
Collected == {res[i][1] : i \in DOMAIN res}

Types ==
  /\ kind \in Trees \cup Buckets
  /\ store \in [Names -> Nat] /\ time \in Nat
  /\ dirs \subseteq Dirs /\ stayed \subseteq Names
  /\ pc \in IF kind \in Trees THEN {"stat", "walk", "names", "done"} ELSE {"page", "done"}
  /\ pc # "done" => result = "none"
  /\ result = "error" => failed
  /\ todo \subseteq Names \cup Dirs
  /\ kind \in Buckets => at \in Names \cup {""}
  /\ res \in Seq(Names \X Nat)

\* What the other callers keep: a file in a tree has its directories.
WorldInv ==
  /\ \A n \in stayed : Present(n)
  /\ \A n \in Names : Present(n) => Entry(n) \in were
  /\ \A n \in Names : kind \in Trees /\ Present(n) => n # Marker /\ Above[n] \subseteq dirs

ResInv == \A i \in DOMAIN res : res[i] \in were /\ res[i][1] \in Listed \ {Marker}

\* Names are collected once; what is left to look at lies under the prefix.
WalkInv ==
  kind \in Trees /\ pc # "done" =>
    /\ \A i, j \in DOMAIN res : res[i][1] = res[j][1] => i = j
    /\ pc = "stat" => res = <<>> /\ todo = {}
    /\ pc = "names" => at \in Dirs \ todo
    /\ kind = "ssh" => todo \subseteq Dirs /\ pc # "names"
    /\ \A x \in Active : x = Prefix \/ Prefix \in Above[x]

\* No two of them cover one name, and none a name that is collected.
ApartInv ==
  kind \in Trees /\ pc # "done" =>
    /\ \A x, y \in Active : \A n \in Names : Covers(x, n) /\ Covers(y, n) => x = y
    /\ \A x \in Active : \A n \in Collected : ~Covers(x, n)

\* Every name that stays is collected or covered.
CoverInv ==
  kind \in Trees /\ pc \in {"walk", "names"} =>
    \A n \in stayed \cap Listed : n \in Collected \/ \E x \in Active : Covers(x, n)

\* The pages so far: in order, up to the key at which they end, and complete up to it.
PageInv ==
  kind \in Buckets /\ pc # "done" =>
    /\ at = "" => res = <<>>
    /\ \A i, j \in DOMAIN res : i < j => KeyRank[res[i][1]] < KeyRank[res[j][1]]
    /\ \A i \in DOMAIN res : KeyRank[res[i][1]] <= KeyRank[at]
    /\ \A n \in (stayed \cap Listed) \ {Marker} :
         at # "" /\ KeyRank[n] <= KeyRank[at] => n \in Collected

Inv == /\ Types /\ WorldInv /\ ResInv /\ WalkInv /\ ApartInv /\ CoverInv /\ PageInv
       /\ ListsWhatStays

-----------------------------------------------------------------------------
\* Sorting: the places are 1 to the length, each that of one entry, and in order.
LEMMA Ranks ==
  ASSUME res \in Seq(Names \X Nat)
  PROVE  /\ DOMAIN res = 1..Len(res) /\ Len(res) \in Nat
         /\ \A i \in DOMAIN res : res[i][1] \in Names /\ KeyRank[res[i][1]] \in Nat
<1>1. DOMAIN res = 1..Len(res) /\ Len(res) \in Nat /\ \A i \in DOMAIN res : res[i] \in Names \X Nat
  OBVIOUS
<1>2. KeyRank \in [Names -> Nat]  BY ListingAssumption DEF Injection
<1> QED  BY <1>1, <1>2

\* An entry that comes before another one has a lesser place.
LEMMA PlaceLess ==
  ASSUME res \in Seq(Names \X Nat), NEW i \in DOMAIN res, NEW j \in DOMAIN res,
         i # j, NotAfter(i, j)
  PROVE  PlaceOf(i) < PlaceOf(j)
<1> DEFINE S(e) == {x \in DOMAIN res : NotAfter(x, e)}
<1>1. IsFiniteSet(DOMAIN res)  BY Ranks, FS_Interval
<1>2. S(i) \subseteq S(j)
  <2> SUFFICES ASSUME NEW x \in DOMAIN res, NotAfter(x, i) PROVE NotAfter(x, j)
    OBVIOUS
  <2>1. \A e \in {x, i, j} : e \in Nat /\ KeyRank[res[e][1]] \in Nat  BY Ranks
  <2> QED  BY <2>1, SMTT(30) DEF NotAfter
<1>3. j \in S(j) /\ j \notin S(i)  BY Ranks DEF NotAfter
<1>4. IsFiniteSet(S(j))  BY <1>1, FS_Subset, S(j) \subseteq DOMAIN res
<1>5. /\ Cardinality(S(i)) <= Cardinality(S(j))
      /\ Cardinality(S(i)) = Cardinality(S(j)) => S(i) = S(j)
  <2> HIDE DEF S
  <2> QED  BY <1>2, <1>4, FS_Subset
<1>6. Cardinality(S(i)) \in Nat /\ Cardinality(S(j)) \in Nat
  <2> HIDE DEF S
  <2> QED  BY <1>2, <1>4, FS_Subset, FS_CardinalityType
<1>7. Cardinality(S(i)) # Cardinality(S(j))
  <2> HIDE DEF S
  <2> QED  BY <1>3, <1>5
<1>8. Cardinality(S(i)) < Cardinality(S(j))
  <2> HIDE DEF S
  <2> QED  BY <1>5, <1>6, <1>7
<1> QED  BY <1>8 DEF PlaceOf

\* Places are positions of the list.
LEMMA PlaceRange ==
  ASSUME res \in Seq(Names \X Nat), NEW j \in DOMAIN res
  PROVE  PlaceOf(j) \in DOMAIN res
<1> DEFINE S == {x \in DOMAIN res : NotAfter(x, j)}
<1>1. IsFiniteSet(DOMAIN res) /\ Cardinality(DOMAIN res) = Len(res)
  <2>1. IsFiniteSet(1..Len(res)) /\ Cardinality(1..Len(res)) = IF 1 > Len(res) THEN 0 ELSE Len(res) - 1 + 1
    BY Ranks, FS_Interval
  <2> QED  BY <2>1, Ranks
<1>2. S \subseteq DOMAIN res  OBVIOUS
<1>3. j \in S  BY Ranks DEF NotAfter
<1>4. IsFiniteSet(S) /\ Cardinality(S) <= Len(res) /\ Cardinality(S) \in Nat /\ Cardinality(S) # 0
  <2> HIDE DEF S
  <2>1. IsFiniteSet(S) /\ Cardinality(S) <= Cardinality(DOMAIN res)  BY <1>1, <1>2, FS_Subset
  <2>2. Cardinality(S) \in Nat  BY <2>1, FS_CardinalityType
  <2>3. Cardinality(S) # 0  BY <2>1, <1>3, FS_EmptySet
  <2> QED  BY <2>1, <2>2, <2>3, <1>1
<1> QED
  <2>1. PlaceOf(j) = Cardinality(S)  BY DEF PlaceOf
  <2> HIDE DEF S
  <2> QED  BY <2>1, <1>4, Ranks

Row == [i \in DOMAIN res |-> CHOOSE j \in DOMAIN res : PlaceOf(j) = i]

\* The sort puts each entry in one place, and names in order.
LEMMA SortRow ==
  ASSUME res \in Seq(Names \X Nat)
  PROVE  /\ \A i \in DOMAIN res : Row[i] \in DOMAIN res
         /\ \A j \in DOMAIN res : \E i \in DOMAIN res : Row[i] = j
         /\ \A i, j \in DOMAIN res : Row[i] = Row[j] => i = j
         /\ \A i, j \in DOMAIN res : i < j => KeyRank[res[Row[i]][1]] <= KeyRank[res[Row[j]][1]]
<1> DEFINE D == DOMAIN res
           place == [j \in D |-> PlaceOf(j)]
<1>1. D \subseteq Nat /\ IsFiniteSet(D)  BY Ranks, FS_Interval
<1>2. \A j \in D : PlaceOf(j) \in D  BY PlaceRange
<1>3. \A i, j \in D : i # j => PlaceOf(i) < PlaceOf(j) \/ PlaceOf(j) < PlaceOf(i)
  <2> SUFFICES ASSUME NEW i \in D, NEW j \in D, i # j
               PROVE  PlaceOf(i) < PlaceOf(j) \/ PlaceOf(j) < PlaceOf(i)
    OBVIOUS
  <2>1. NotAfter(i, j) \/ NotAfter(j, i)  BY Ranks DEF NotAfter
  <2> QED  BY <2>1, PlaceLess
<1>4. \A i, j \in D : PlaceOf(i) = PlaceOf(j) => i = j
  <2> SUFFICES ASSUME NEW i \in D, NEW j \in D, PlaceOf(i) = PlaceOf(j), i # j PROVE FALSE
    OBVIOUS
  <2>1. PlaceOf(i) \in Nat /\ PlaceOf(j) \in Nat  BY <1>1, <1>2
  <2>2. PlaceOf(i) < PlaceOf(j) \/ PlaceOf(j) < PlaceOf(i)  BY <1>3
  <2> QED  BY <2>1, <2>2
<1>5. place \in Injection(D, D)
  <2> HIDE DEF D
  <2>1. place \in [D -> D]  BY <1>2
  <2>2. \A a, b \in D : place[a] = place[b] => a = b  BY <1>4
  <2> QED  BY <2>1, <2>2 DEF Injection, IsInjective
<1>6. place \in Surjection(D, D)
  <2> HIDE DEF D, place
  <2> QED  BY <1>1, <1>5, FS_Injection
<1>7. \A i \in D : \E j \in D : PlaceOf(j) = i
  <2> HIDE DEF D
  <2>1. \A i \in D : \E j \in D : place[j] = i  BY <1>6 DEF Surjection
  <2> QED  BY <2>1
<1>8. \A i \in D : Row[i] \in D /\ PlaceOf(Row[i]) = i
  <2> SUFFICES ASSUME NEW i \in D PROVE Row[i] \in D /\ PlaceOf(Row[i]) = i
    OBVIOUS
  <2>1. Row[i] = CHOOSE j \in D : PlaceOf(j) = i  BY DEF Row
  <2> HIDE DEF D
  <2> QED  BY <2>1, <1>7
<1>9. ASSUME NEW i \in D, NEW j \in D, i < j
      PROVE  KeyRank[res[Row[i]][1]] <= KeyRank[res[Row[j]][1]]
  <2>1. Row[i] \in D /\ Row[j] \in D /\ PlaceOf(Row[i]) = i /\ PlaceOf(Row[j]) = j  BY <1>8
  <2>2. i \in Nat /\ j \in Nat  BY <1>1
  <2>3. Row[i] # Row[j] /\ ~(PlaceOf(Row[j]) < PlaceOf(Row[i]))  BY <2>1, <2>2, <1>9
  <2>4. ~NotAfter(Row[j], Row[i])  BY <2>1, <2>3, PlaceLess
  <2>5. KeyRank[res[Row[i]][1]] \in Nat /\ KeyRank[res[Row[j]][1]] \in Nat  BY <2>1, Ranks
  <2> QED  BY <2>4, <2>5, SMTT(30) DEF NotAfter
<1> QED
  <2>1. \A j \in D : Row[PlaceOf(j)] = j
    <3> HIDE DEF D
    <3> QED  BY <1>2, <1>4, <1>8
  <2> HIDE DEF D
  <2>2. /\ \A i \in D : Row[i] \in D
        /\ \A j \in D : \E i \in D : Row[i] = j
        /\ \A i, j \in D : Row[i] = Row[j] => i = j
        /\ \A i, j \in D : i < j => KeyRank[res[Row[i]][1]] <= KeyRank[res[Row[j]][1]]
    BY <2>1, <1>2, <1>8, <1>9
  <2> USE DEF D
  <2> QED  BY <2>2
-----------------------------------------------------------------------------
\* The tree: what covers a name below a directory, and that a directory's children
\* cover what it covers, each a part of its own.
LEMMA TreeTypes ==
  /\ \A x \in Names \cup Dirs : Above[x] \subseteq Dirs
  /\ \A n \in Names, d \in Dirs : n # d
<1>1. \A x \in Names \cup Dirs : Above[x] \subseteq Dirs  BY TreeAssumption
<1>2. Names \cap Dirs = {}  BY ListingAssumption
<1> QED  BY <1>1, <1>2

\* What a child covers lies below its directory.
LEMMA ChildCovers ==
  ASSUME NEW x \in Names \cup Dirs, NEW d \in Dirs, NEW n \in Names, ChildOf(x, d), Covers(x, n)
  PROVE  d \in Above[n] /\ Covers(d, n)
<1>1. d \in Above[x]  BY DEF ChildOf
<1>2. CASE x = n  BY <1>1, <1>2 DEF Covers
<1>3. CASE x \in Above[n]  BY <1>1, <1>3, TreeAssumption DEF Covers
<1> QED  BY <1>2, <1>3 DEF Covers

\* No two children of a directory cover one name.
LEMMA ChildrenApart ==
  ASSUME NEW x \in Names \cup Dirs, NEW y \in Names \cup Dirs, NEW d \in Dirs, NEW n \in Names,
         ChildOf(x, d), ChildOf(y, d), Covers(x, n), Covers(y, n)
  PROVE  x = y
<1>1. x \in Above[n] \cup {n} /\ y \in Above[n] \cup {n}  BY DEF Covers
<1>2. Above[x] = Above[y]  BY DEF ChildOf
<1> QED  BY <1>1, <1>2, TreeAssumption

\* A directory that covers a name has a child that covers it.
LEMMA ChildCovering ==
  ASSUME NEW d \in Dirs, NEW n \in Names, Covers(d, n)
  PROVE  d \in Above[n] /\ \E e \in Above[n] \cup {n} : ChildOf(e, d) /\ Covers(e, n)
<1>1. d \in Above[n]  BY TreeTypes DEF Covers
<1>2. PICK e \in Above[n] \cup {n} : ChildOf(e, d)  BY <1>1, TreeAssumption
<1>3. Covers(e, n)  BY DEF Covers
<1> QED  BY <1>1, <1>2, <1>3

\* A name that is there in a tree and is covered by a directory is found by reading it.
LEMMA ReadFinds ==
  ASSUME Types, WorldInv, kind \in Trees, NEW d \in Dirs, NEW n \in Names, Present(n), Covers(d, n)
  PROVE  d \in dirs /\ \E e \in In(d) \cup SubDirs(d) : Covers(e, n)
<1>1. Above[n] \subseteq dirs  BY DEF WorldInv
<1>2. PICK e \in Above[n] \cup {n} : ChildOf(e, d) /\ Covers(e, n)  BY ChildCovering
<1>3. e \in In(d) \cup SubDirs(d)  BY <1>1, <1>2 DEF In, SubDirs
<1> QED  BY <1>1, <1>2, <1>3, ChildCovering

\* What reading a directory finds are its children.
LEMMA Children ==
  ASSUME Types, NEW d \in Dirs, NEW x \in In(d) \cup SubDirs(d)
  PROVE  x \in Names \cup Dirs /\ ChildOf(x, d)
  BY DEF In, SubDirs, Types

-----------------------------------------------------------------------------
\* At the start nothing is collected and what is there has its directories.
LEMMA InitInv == Init => Inv
<1> SUFFICES ASSUME Init PROVE Inv
  OBVIOUS
<1>1. res = <<>> /\ todo = {} /\ at = "" /\ result = "none"  BY DEF Init
<1>a. /\ kind \in Trees => pc = "stat"
      /\ kind \in Buckets => pc = "page" /\ kind \notin Trees
      /\ kind \in Trees \cup Buckets
  BY DEF Init, Trees, Buckets
<1>c. DOMAIN res = {} /\ res \in Seq(Names \X Nat)
  <2>1. <<>> \in Seq(Names \X Nat) /\ DOMAIN <<>> = {}  OBVIOUS
  <2> QED  BY <1>1, <2>1
<1>b. Types
  <2>1. store \in [Names -> Nat] /\ stayed \subseteq Names /\ time \in Nat
    <3>1. store \in [Names -> {0, 1}] /\ time = 1 /\ stayed \subseteq Names  BY DEF Init
    <3> QED  BY <3>1
  <2>2. dirs \subseteq Dirs
    <3>1. dirs \in {{}} \/ dirs \in {D \in SUBSET Dirs : \A d \in D : Above[d] \subseteq D}  BY DEF Init
    <3> QED  BY <3>1
  <2> QED  BY <1>1, <1>a, <1>c, <2>1, <2>2 DEF Types
<1>2. \A n \in Names : Present(n) => n \in stayed /\ Entry(n) \in were
  <2> SUFFICES ASSUME NEW n \in Names, Present(n) PROVE n \in stayed /\ Entry(n) \in were
    OBVIOUS
  <2>1. n \in stayed /\ store[n] = 1  BY DEF Init, Present
  <2> QED  BY <2>1 DEF Init, Entry
<1>3. WorldInv
  <2>1. \A n \in stayed : Present(n)  BY DEF Init
  <2>2. \A n \in Names : kind \in Trees /\ Present(n) => n \in Files /\ Above[n] \subseteq dirs
    BY DEF Init
  <2>3. \A n \in Files : n # Marker  BY ListingAssumption
  <2> QED  BY <1>2, <2>1, <2>2, <2>3 DEF WorldInv
<1>4. ResInv  BY <1>c DEF ResInv
<1>5. PageInv  BY <1>1, <1>c DEF PageInv
<1>6. WalkInv  BY <1>1, <1>a, <1>c DEF WalkInv, Active
<1>7. ApartInv  BY <1>1, <1>a, <1>c DEF ApartInv, Active, Collected
<1>8. CoverInv  BY <1>a DEF CoverInv
<1>9. ListsWhatStays  BY <1>1 DEF ListsWhatStays
<1> QED  BY <1>b, <1>3, <1>4, <1>5, <1>6, <1>7, <1>8, <1>9 DEF Inv

\* Another caller's step keeps what List knows, if files in a tree keep their directories.
LEMMA WorldStep ==
  ASSUME Inv, pc # "done", Observe, store' \in [Names -> Nat], time' \in Nat, dirs' \subseteq Dirs,
         \A n \in Names : kind \in Trees /\ store'[n] # 0 => n # Marker /\ Above[n] \subseteq dirs'
  PROVE  Inv'
<1> USE DEF Inv, Observe
<1>1. stayed' \subseteq stayed /\ were \subseteq were'  OBVIOUS
<1>2. Types'  BY <1>1 DEF Types
<1>3. WorldInv'
  <2>1. \A n \in stayed' : store'[n] # 0  OBVIOUS
  <2>2. \A n \in Names : store'[n] # 0 => <<n, store'[n]>> \in were'  OBVIOUS
  <2> QED  BY <2>1, <2>2 DEF WorldInv, Present, Entry
<1>4. ResInv'  BY <1>1 DEF ResInv, Listed
<1>5. WalkInv'  BY DEF WalkInv, Active
<1>6. ApartInv'  BY DEF ApartInv, Active, Covers, Collected
<1>7. CoverInv'  BY <1>1 DEF CoverInv, Active, Covers, Collected, Listed
<1>8. PageInv'  BY <1>1 DEF PageInv, Collected, Listed
<1>9. ListsWhatStays'  BY DEF Types, ListsWhatStays
<1> QED  BY <1>2, <1>3, <1>4, <1>5, <1>6, <1>7, <1>8, <1>9

\* Puts, copies and deletions of other callers, in a tree and in a bucket.
LEMMA OthersInv == Inv /\ Others => Inv'
<1> SUFFICES ASSUME Inv, Others PROVE Inv'
  OBVIOUS
<1> USE DEF Inv
<1>0. /\ store \in [Names -> Nat] /\ time \in Nat /\ dirs \subseteq Dirs
      /\ \A n \in Names : kind \in Trees /\ store[n] # 0 => n # Marker /\ Above[n] \subseteq dirs
  BY DEF Types, WorldInv, Present
<1>1. ASSUME NEW t \in Temps, Create(t) PROVE Inv'
  <2>1. t \in Names /\ t # Marker /\ Above[t] \subseteq Dirs  BY ListingAssumption, TreeTypes DEF Names
  <2>2. store' = [store EXCEPT ![t] = time + 1] /\ time' = time + 1 /\ dirs' = dirs \cup Above[t]
        /\ Observe /\ pc # "done"
    BY <1>1 DEF Create
  <2> QED  BY <1>0, <2>1, <2>2, WorldStep
<1>2. ASSUME NEW t \in Temps, NEW f \in Files, Rename(t, f) PROVE Inv'
  <2>1. t \in Names /\ f \in Names /\ f # Marker  BY ListingAssumption DEF Names
  <2>2. store' = [store EXCEPT ![f] = store[t], ![t] = 0] /\ dirs' = dirs /\ time' = time
        /\ Observe /\ pc # "done" /\ store[t] # 0 /\ Above[f] = Above[t]
    BY <1>2 DEF Rename, Present
  <2> QED  BY <1>0, <2>1, <2>2, WorldStep
<1>3. ASSUME NEW n \in Files \cup {Marker}, Upload(n) PROVE Inv'
  <2>1. n \in Names /\ kind \notin Trees  BY <1>3 DEF Names, Upload, Buckets, Trees
  <2>2. store' = [store EXCEPT ![n] = time + 1] /\ dirs' = dirs /\ time' = time + 1
        /\ Observe /\ pc # "done"
    BY <1>3 DEF Upload
  <2> QED  BY <1>0, <2>1, <2>2, WorldStep
<1>4. ASSUME NEW n \in Names, Unlink(n) PROVE Inv'
  <2>1. store' = [store EXCEPT ![n] = 0] /\ dirs' = dirs /\ time' = time /\ Observe /\ pc # "done"
    BY <1>4 DEF Unlink
  <2> QED  BY <1>0, <2>1, WorldStep
<1>5. ASSUME NEW d \in Dirs, RemoveDir(d) PROVE Inv'
  <2>1. store' = store /\ dirs' = dirs \ {d} /\ time' = time /\ Observe /\ pc # "done"
        /\ In(d) \cup SubDirs(d) = {}
    BY <1>5 DEF RemoveDir
  <2>2. ASSUME NEW n \in Names, kind \in Trees, store[n] # 0 PROVE d \notin Above[n]
    BY <2>1, <2>2, ReadFinds DEF Covers, Present
  <2> QED  BY <1>0, <2>1, <2>2, WorldStep
<1> QED  BY <1>1, <1>2, <1>3, <1>4, <1>5 DEF Others
-----------------------------------------------------------------------------
\* What a step adds to the end of res.
LEMMA Added ==
  ASSUME res \in Seq(Names \X Nat), ResInv, were' = were,
         NEW add \in Seq(Names \X Nat), res' = res \o add,
         \A i \in DOMAIN add : add[i] \in were /\ add[i][1] \in Listed \ {Marker}
  PROVE  /\ res' \in Seq(Names \X Nat) /\ ResInv'
         /\ \A i \in DOMAIN res : i \in DOMAIN res' /\ res'[i] = res[i]
         /\ \A j \in DOMAIN add : Len(res) + j \in DOMAIN res' /\ res'[Len(res) + j] = add[j]
         /\ \A i \in DOMAIN res' : i \in DOMAIN res \/ \E j \in DOMAIN add : i = Len(res) + j
         /\ Collected' = Collected \cup {add[j][1] : j \in DOMAIN add}
<1>1. res' \in Seq(Names \X Nat)  OBVIOUS
<1>2. \A i \in DOMAIN res : i \in DOMAIN res' /\ res'[i] = res[i]  OBVIOUS
<1>3. \A j \in DOMAIN add : Len(res) + j \in DOMAIN res' /\ res'[Len(res) + j] = add[j]  OBVIOUS
<1>4. \A i \in DOMAIN res' : i \in DOMAIN res \/ \E j \in DOMAIN add : i = Len(res) + j
  <2> SUFFICES ASSUME NEW i \in DOMAIN res', i \notin DOMAIN res
               PROVE  \E j \in DOMAIN add : i = Len(res) + j
    OBVIOUS
  <2>1. i - Len(res) \in DOMAIN add /\ i = Len(res) + (i - Len(res))  OBVIOUS
  <2> QED  BY <2>1
<1>5. \A i \in DOMAIN res' : res'[i] \in were /\ res'[i][1] \in Listed \ {Marker}
  BY <1>2, <1>3, <1>4 DEF ResInv
<1>6. ResInv'  BY <1>5 DEF ResInv, Listed
<1>7. Collected' = Collected \cup {add[j][1] : j \in DOMAIN add}
  <2>1. ASSUME NEW m \in Collected' PROVE m \in Collected \cup {add[j][1] : j \in DOMAIN add}
    <3>1. PICK i \in DOMAIN res' : m = res'[i][1]  BY <2>1 DEF Collected
    <3> QED  BY <3>1, <1>2, <1>3, <1>4 DEF Collected
  <2>2. ASSUME NEW m \in Collected PROVE m \in Collected'
    <3>1. PICK i \in DOMAIN res : m = res[i][1]  BY <2>2 DEF Collected
    <3>2. i \in DOMAIN res' /\ m = res'[i][1]  BY <3>1, <1>2
    <3> QED  BY <3>2 DEF Collected
  <2>3. ASSUME NEW j \in DOMAIN add PROVE add[j][1] \in Collected'
    <3>1. Len(res) + j \in DOMAIN res' /\ res'[Len(res) + j][1] = add[j][1]  BY <1>3
    <3> QED  BY <3>1 DEF Collected
  <2> QED  BY <2>1, <2>2, <2>3
<1> QED  BY <1>1, <1>2, <1>3, <1>4, <1>6, <1>7

\* Names that are new and differ from each other leave all names different.
LEMMA AddedOnce ==
  ASSUME res \in Seq(Names \X Nat), ResInv, were' = were,
         NEW add \in Seq(Names \X Nat), res' = res \o add,
         \A i \in DOMAIN add : add[i] \in were /\ add[i][1] \in Listed \ {Marker},
         \A i, j \in DOMAIN res : res[i][1] = res[j][1] => i = j,
         \A i, j \in DOMAIN add : add[i][1] = add[j][1] => i = j,
         \A j \in DOMAIN add : add[j][1] \notin Collected
  PROVE  \A i, j \in DOMAIN res' : res'[i][1] = res'[j][1] => i = j
<1> SUFFICES ASSUME NEW i \in DOMAIN res', NEW j \in DOMAIN res', res'[i][1] = res'[j][1]
             PROVE  i = j
  OBVIOUS
<1>1. /\ \A e \in DOMAIN res : res'[e] = res[e]
      /\ \A e \in DOMAIN add : res'[Len(res) + e] = add[e]
  BY Added
<1>2. /\ i \in DOMAIN res \/ \E e \in DOMAIN add : i = Len(res) + e
      /\ j \in DOMAIN res \/ \E e \in DOMAIN add : j = Len(res) + e
  BY Added
<1>3. \A e \in DOMAIN res : res'[e][1] \in Collected /\ res'[e][1] = res[e][1]
  <2>1. \A e \in DOMAIN res : res[e][1] \in Collected  BY Zenon DEF Collected
  <2> QED  BY <1>1, <2>1
<1>4. \A e \in DOMAIN add : res'[Len(res) + e][1] \notin Collected /\ res'[Len(res) + e][1] = add[e][1]
  BY <1>1
<1>5. CASE i \in DOMAIN res
  <2>0. res'[j][1] \in Collected  BY <1>3, <1>5
  <2>1. j \in DOMAIN res  BY <1>2, <1>4, <2>0
  <2>2. res[i][1] = res[j][1]  BY <1>3, <1>5, <2>1
  <2> QED  BY <1>5, <2>1, <2>2
<1>6. CASE i \notin DOMAIN res
  <2>1. PICK a \in DOMAIN add : i = Len(res) + a  BY <1>2, <1>6
  <2>2. j \notin DOMAIN res  BY <1>3, <1>4, <2>1
  <2>3. PICK b \in DOMAIN add : j = Len(res) + b  BY <1>2, <2>2
  <2>4. add[a][1] = add[b][1]  BY <1>4, <2>1, <2>3
  <2>5. a = b  BY <2>4
  <2> QED  BY <2>1, <2>3, <2>5
<1> QED  BY <1>5, <1>6

\* List's own step leaves the world to others.
LEMMA SameWorld ==
  ASSUME WorldInv, UNCHANGED <<kind, world>>
  PROVE  WorldInv'
  BY DEF WorldInv, world, Present, Entry

\* A List that ends, and one that fails.
LEMMA Ends ==
  ASSUME Inv, UNCHANGED <<kind, world, failed>>, Return("ok"), pc # "done",
         res' \in Seq(Names \X Nat), ResInv',
         \A i, j \in DOMAIN res' : i < j => KeyRank[res'[i][1]] < KeyRank[res'[j][1]],
         (stayed \cap Listed) \ {Marker} \subseteq Collected'
  PROVE  Inv'
<1> USE DEF Inv, Return
<1>1. Types'  BY DEF Types, world
<1>2. WorldInv'  BY SameWorld
<1>3. ListsWhatStays'
  <2>1. stayed' = stayed /\ Listed' = Listed  BY DEF world, Listed
  <2>2. \A i \in DOMAIN res' : res'[i] \in were' /\ res'[i][1] \in Listed' \ {Marker}  BY DEF ResInv
  <2>3. (stayed' \cap Listed') \ {Marker} \subseteq {res'[i][1] : i \in DOMAIN res'}
    BY <2>1 DEF Collected
  <2> QED  BY <2>2, <2>3 DEF ListsWhatStays
<1> QED  BY <1>1, <1>2, <1>3 DEF WalkInv, ApartInv, CoverInv, PageInv

\* A List that fails promises nothing but that a request failed.
LEMMA FailInv == Inv /\ Fail => Inv'
<1> SUFFICES ASSUME Inv, Fail PROVE Inv'
  OBVIOUS
<1> USE DEF Inv, Fail, Return
<1>1. Types'  BY DEF Types, world
<1>2. WorldInv'  BY SameWorld
<1>3. ResInv'  BY DEF ResInv, world, Listed
<1>4. ListsWhatStays'  BY DEF ListsWhatStays
<1> QED  BY <1>1, <1>2, <1>3, <1>4 DEF WalkInv, ApartInv, CoverInv, PageInv
-----------------------------------------------------------------------------
\* A step of the walk: d is looked at, the names F are found, and C is left to look at
\* in its place.  C and F cover only what d covered, each a part of it, and every name
\* that stays.
WalkBy(d, C, F) ==
  /\ UNCHANGED <<kind, world, failed, result>> /\ kind \in Trees
  /\ pc \in {"walk", "names"} /\ pc' \in {"walk", "names"}
  /\ d \in Active /\ C \subseteq Names \cup Dirs /\ F \subseteq Names /\ C \cap F = {}
  /\ Active' = (Active \ {d}) \cup C /\ Collected' = Collected \cup F
  /\ todo' \subseteq Names \cup Dirs /\ (pc' = "names" => at' \in Dirs \ todo')
  /\ kind = "ssh" => todo' \subseteq Dirs /\ pc' # "names"
  /\ res' \in Seq(Names \X Nat) /\ ResInv'
  /\ \A i, j \in DOMAIN res' : res'[i][1] = res'[j][1] => i = j
  /\ \A x \in C : x = Prefix \/ Prefix \in Above[x]
  /\ \A x \in C \cup F : \A n \in Names : Covers(x, n) => Covers(d, n)
  /\ \A x, y \in C \cup F : \A n \in Names : Covers(x, n) /\ Covers(y, n) => x = y
  /\ \A n \in stayed \cap Listed : Covers(d, n) => n \in F \/ \E x \in C : Covers(x, n)

\* Such a step keeps the invariant.
LEMMA WalkStep == ASSUME Inv, NEW d, NEW C, NEW F, WalkBy(d, C, F) PROVE Inv'
<1> USE DEF WalkBy
<1> USE DEF Inv
<1>0. kind \notin Buckets /\ pc # "done"  BY DEF Trees, Buckets
<1>1. Types'  BY <1>0 DEF Types, world
<1>2. WorldInv'  BY SameWorld
<1>3. WalkInv'
  <2>1. \A x \in Active' : x = Prefix \/ Prefix \in Above[x]  BY <1>0 DEF WalkInv
  <2> QED  BY <2>1 DEF WalkInv
<1>4. ApartInv'
  <2>0. /\ \A x, y \in Active : \A n \in Names : Covers(x, n) /\ Covers(y, n) => x = y
        /\ \A x \in Active : \A n \in Collected : ~Covers(x, n)
    BY <1>0 DEF ApartInv
  <2>1. ASSUME NEW x \in Active', NEW y \in Active', NEW n \in Names, Covers(x, n), Covers(y, n)
        PROVE  x = y
    <3>1. CASE x \in Active \ {d} /\ y \in Active \ {d}  BY <2>0, <2>1, <3>1
    <3>2. CASE x \in C /\ y \in C  BY <2>1, <3>2
    <3>3. CASE x \in C /\ y \in Active \ {d}  BY <2>0, <2>1, <3>3
    <3>4. CASE x \in Active \ {d} /\ y \in C  BY <2>0, <2>1, <3>4
    <3> QED  BY <3>1, <3>2, <3>3, <3>4
  <2>2. Collected \subseteq Names
    <3>1. res \in Seq(Names \X Nat)  BY DEF Types
    <3> QED  BY <3>1, Ranks DEF Collected
  <2>3. ASSUME NEW x \in Active', NEW n \in Collected' PROVE ~Covers(x, n)
    <3>1. CASE n \in Collected /\ x \in Active \ {d}  BY <2>0, <3>1
    <3>2. CASE n \in Collected /\ x \in C  BY <2>0, <2>2, <3>2
    <3>3. CASE n \in F /\ x \in Active \ {d}
      <4>1. Covers(n, n)  BY DEF Covers
      <4>2. Covers(d, n)  BY <4>1, <3>3
      <4> QED  BY <2>0, <3>3, <4>2
    <3>4. CASE n \in F /\ x \in C
      <4>1. Covers(n, n)  BY DEF Covers
      <4> QED  BY <3>4, <4>1
    <3> QED  BY <3>1, <3>2, <3>3, <3>4
  <2>4. \A x, n : Covers(x, n)' <=> Covers(x, n)  BY DEF Covers
  <2> QED  BY <2>1, <2>3, <2>4 DEF ApartInv
<1>5. CoverInv'
  <2>0. stayed' = stayed /\ Listed' = Listed  BY DEF world, Listed
  <2>1. ASSUME NEW n \in stayed \cap Listed
        PROVE  n \in Collected' \/ \E x \in Active' : Covers(x, n)
    <3>1. n \in Collected \/ \E x \in Active : Covers(x, n)  BY DEF CoverInv
    <3> QED  BY <3>1
  <2>4. \A x, n : Covers(x, n)' <=> Covers(x, n)  BY DEF Covers
  <2> QED  BY <2>0, <2>1, <2>4 DEF CoverInv
<1>6. PageInv'  BY <1>0 DEF PageInv
<1>7. ListsWhatStays'  BY <1>0 DEF ListsWhatStays, Types
<1> QED  BY <1>1, <1>2, <1>3, <1>4, <1>5, <1>6, <1>7

\* The walk stays in the listing: names are listed, and their directories too.
LEMMA ActiveListed ==
  ASSUME WalkInv, kind \in Trees, pc # "done", NEW x \in Active, x \in Names
  PROVE  x \in Listed
<1>1. x # Prefix  BY ListingAssumption, TreeTypes
<1> QED  BY <1>1 DEF WalkInv, Listed

\* What is below a listed directory is listed.
LEMMA ChildListed ==
  ASSUME WalkInv, kind \in Trees, pc # "done", NEW d \in Active, d \in Dirs,
         NEW x \in Names \cup Dirs, ChildOf(x, d)
  PROVE  Prefix \in Above[x] /\ (x \in Names => x \in Listed)
<1>1. d = Prefix \/ Prefix \in Above[d]  BY DEF WalkInv
<1>2. Prefix \in Above[x]  BY <1>1 DEF ChildOf
<1> QED  BY <1>2 DEF Listed

\* A missing root lists nothing, as nothing that stays can be under it; else it covers all.
LEMMA StatInv == ASSUME NEW k \in Trees, Inv, StatRoot(k) PROVE Inv'
<1> USE DEF Inv
<1>0. kind = k /\ kind \in Trees /\ kind \notin Buckets /\ pc = "stat" /\ UNCHANGED <<kind, world, failed, res>>
  BY DEF StatRoot, Trees, Buckets
<1>1. res = <<>> /\ todo = {} /\ DOMAIN res = {}  BY <1>0 DEF WalkInv
<1>a. ResInv' /\ res' \in Seq(Names \X Nat) /\ DOMAIN res' = {} /\ Collected' = {} /\ Collected = {}
  BY <1>0, <1>1 DEF ResInv, world, Listed, Types, Collected
<1>2. CASE Prefix \notin dirs /\ Return("ok")
  <2>1. \A n \in stayed : Present(n) /\ Above[n] \subseteq dirs  BY <1>0 DEF WorldInv, Types
  <2>2. stayed \cap Listed = {}  BY <1>2, <2>1 DEF Listed
  <2> QED  BY <1>0, <1>2, <1>a, <2>2, Ends
<1>3. CASE Prefix \in dirs /\ todo' = {Prefix} /\ Goto("walk") /\ UNCHANGED at
  <2>0. pc' = "walk" /\ result' = result /\ Active' = {Prefix} /\ Prefix \in Dirs
    BY <1>3, ListingAssumption DEF Goto, Active
  <2>1. Types'  BY <1>0, <1>3, <2>0, <1>a DEF Types, world
  <2>2. WorldInv'  BY <1>0, SameWorld
  <2>3. WalkInv'  BY <1>0, <1>3, <1>a, <2>0 DEF WalkInv
  <2>4. ApartInv'  BY <2>0, <1>a DEF ApartInv
  <2>5. CoverInv'
    <3>1. \A n \in Listed' : Covers(Prefix, n)'  BY DEF Listed, Covers
    <3> QED  BY <2>0, <3>1 DEF CoverInv
  <2>6. PageInv'  BY <1>0 DEF PageInv
  <2>7. ListsWhatStays'  BY <1>0, <2>0 DEF ListsWhatStays, Types
  <2> QED  BY <1>a, <2>1, <2>2, <2>3, <2>4, <2>5, <2>6, <2>7
<1> QED  BY <1>2, <1>3 DEF StatRoot

\* The sort at the end of a walk: nothing is left to look at, so all that stays is collected.
LEMMA SortInv == ASSUME NEW k \in Trees, Inv, Sorted(k) PROVE Inv'
<1> USE DEF Inv
<1>0. /\ kind \in Trees /\ pc = "walk" /\ todo = {} /\ UNCHANGED <<kind, world, failed>> /\ Return("ok")
      /\ res \in Seq(Names \X Nat)
  BY DEF Sorted, Types
<1>1. DOMAIN res = 1..Len(res) /\ Len(res) \in Nat /\ \A i \in DOMAIN res : res[i] \in Names \X Nat
  BY <1>0
<1>2. res' = [i \in DOMAIN res |-> res[Row[i]]]
  BY DEF Sorted, Row
<1>3. /\ \A i \in DOMAIN res : Row[i] \in DOMAIN res
      /\ \A j \in DOMAIN res : \E i \in DOMAIN res : Row[i] = j
      /\ \A i, j \in DOMAIN res : Row[i] = Row[j] => i = j
      /\ \A i, j \in DOMAIN res : i < j => KeyRank[res[Row[i]][1]] <= KeyRank[res[Row[j]][1]]
  BY <1>0, SortRow
<1>4. res' \in Seq(Names \X Nat) /\ DOMAIN res' = DOMAIN res /\ \A i \in DOMAIN res : res'[i] = res[Row[i]]
  <2>1. res' \in [1..Len(res) -> Names \X Nat]  BY <1>1, <1>2, <1>3
  <2> QED  BY <2>1, <1>1, <1>2
<1>5. ResInv'
  <2>1. Listed' = Listed /\ were' = were  BY <1>0 DEF Listed, world
  <2>2. \A i \in DOMAIN res : res[Row[i]] \in were /\ res[Row[i]][1] \in Listed \ {Marker}
    BY <1>3 DEF ResInv
  <2> QED  BY <1>4, <2>1, <2>2, SMTT(30) DEF ResInv
<1>6. \A i, j \in DOMAIN res' : i < j => KeyRank[res'[i][1]] < KeyRank[res'[j][1]]
  <2> SUFFICES ASSUME NEW i \in DOMAIN res, NEW j \in DOMAIN res, i < j
               PROVE  KeyRank[res[Row[i]][1]] < KeyRank[res[Row[j]][1]]
    BY <1>4
  <2>0. i # j  BY <1>1
  <2>1. Row[i] \in DOMAIN res /\ Row[j] \in DOMAIN res /\ Row[i] # Row[j]  BY <2>0, <1>3
  <2>2. res[Row[i]][1] # res[Row[j]][1]  BY <2>1, <1>0 DEF WalkInv
  <2>3. res[Row[i]][1] \in Names /\ res[Row[j]][1] \in Names  BY <2>1, <1>1
  <2>4. KeyRank[res[Row[i]][1]] # KeyRank[res[Row[j]][1]]
    BY <2>2, <2>3, ListingAssumption DEF Injection, IsInjective
  <2>5. KeyRank[res[Row[i]][1]] \in Nat /\ KeyRank[res[Row[j]][1]] \in Nat  BY <2>1, <1>0, Ranks
  <2>6. KeyRank[res[Row[i]][1]] <= KeyRank[res[Row[j]][1]]  BY <1>3
  <2> QED  BY <2>4, <2>5, <2>6
<1>7. (stayed \cap Listed) \ {Marker} \subseteq Collected'
  <2>1. Active = {}  BY <1>0 DEF Active
  <2>2. stayed \cap Listed \subseteq Collected  BY <1>0, <2>1 DEF CoverInv
  <2>3. ASSUME NEW n \in Collected PROVE n \in Collected'
    <3>1. PICK j \in DOMAIN res : n = res[j][1]  BY <2>3 DEF Collected
    <3>2. PICK i \in DOMAIN res : Row[i] = j  BY <1>3
    <3>3. i \in DOMAIN res' /\ n = res'[i][1]  BY <3>1, <3>2, <1>4
    <3> QED  BY <3>3 DEF Collected
  <2> QED  BY <2>2, <2>3
<1> QED  BY <1>0, <1>4, <1>5, <1>6, <1>7, Ends
-----------------------------------------------------------------------------
\* Looking at a name: a directory is read next, a file is collected, and one that has
\* vanished covers nothing that stays.
LEMMA LstatInv == Inv /\ Lstat => Inv'
<1> SUFFICES ASSUME Inv, Lstat PROVE Inv'
  OBVIOUS
<1> USE DEF Inv
<1>1. PICK n \in todo :
        /\ todo' = todo \ {n}
        /\ \/ /\ n \in dirs
              /\ at' = n /\ Goto("names") /\ UNCHANGED res
           \/ /\ n \in Names /\ Present(n)
              /\ res' = Append(res, Entry(n)) /\ UNCHANGED <<at, pc, result>>
           \/ /\ n \notin dirs /\ (n \in Names => ~Present(n))
              /\ UNCHANGED <<at, pc, res, result>>
  BY DEF Lstat
<1>2. /\ kind = "fs" /\ pc = "walk" /\ kind \in Trees /\ pc # "done"
      /\ UNCHANGED <<kind, world, failed>> /\ Active = todo /\ n \in Active
      /\ todo \subseteq Names \cup Dirs /\ dirs \subseteq Dirs /\ store \in [Names -> Nat]
      /\ stayed \subseteq Names /\ res \in Seq(Names \X Nat)
  BY DEF Lstat, Trees, Active, Types
<1>3. /\ \A i, j \in DOMAIN res : res[i][1] = res[j][1] => i = j
      /\ n = Prefix \/ Prefix \in Above[n]
  BY <1>2 DEF WalkInv
<1>4. ASSUME UNCHANGED res
      PROVE  /\ ResInv' /\ res' \in Seq(Names \X Nat) /\ Collected' = Collected \cup {}
             /\ \A i, j \in DOMAIN res' : res'[i][1] = res'[j][1] => i = j
  BY <1>2, <1>3, <1>4 DEF ResInv, world, Listed, Collected
<1>5. CASE n \in dirs /\ at' = n /\ Goto("names") /\ UNCHANGED res
  <2>1. pc' = "names" /\ result' = result /\ at' \in Dirs \ todo'  BY <1>1, <1>2, <1>5 DEF Goto
  <2>2. Active' = (Active \ {n}) \cup {n}  BY <1>1, <1>2, <1>5, <2>1 DEF Active
  <2>3. todo' \subseteq Names \cup Dirs  BY <1>1, <1>2
  <2>4. {n} \subseteq Names \cup Dirs /\ {} \subseteq Names /\ {n} \cap {} = {} /\ {n} \cup {} = {n}
    BY <1>2
  <2>5. WalkBy(n, {n}, {})  BY <1>2, <1>3, <1>4, <1>5, <2>1, <2>2, <2>3, <2>4 DEF WalkBy
  <2> QED  BY <2>5, WalkStep
<1>6. CASE n \in Names /\ Present(n) /\ res' = Append(res, Entry(n)) /\ UNCHANGED <<at, pc, result>>
  <2> DEFINE add == <<Entry(n)>>
  <2>1. add \in Seq(Names \X Nat) /\ DOMAIN add = {1} /\ add[1] = Entry(n) /\ add[1][1] = n
    BY <1>2, <1>6 DEF Entry
  <2>2. res' = res \o add
    <3>1. Entry(n) \in Names \X Nat  BY <1>2, <1>6 DEF Entry
    <3> QED  BY <3>1, <1>2, <1>6
  <2>3. n # Marker /\ Entry(n) \in were  BY <1>2, <1>6 DEF WorldInv
  <2>4. n \in Listed  BY <1>2, <1>6, ActiveListed
  <2>5. n \notin Collected  BY <1>2 DEF ApartInv, Covers
  <2>6. were' = were  BY <1>2 DEF world
  <2> HIDE DEF add
  <2>7. \A i \in DOMAIN add : add[i] \in were /\ add[i][1] \in Listed \ {Marker}
    BY <2>1, <2>3, <2>4
  <2>8. {add[j][1] : j \in DOMAIN add} = {n}  BY <2>1
  <2>9. res' \in Seq(Names \X Nat) /\ ResInv' /\ Collected' = Collected \cup {n}
    BY <1>2, <2>1, <2>2, <2>6, <2>7, <2>8, Added
  <2>10. \A i, j \in DOMAIN add : add[i][1] = add[j][1] => i = j  BY <2>1
  <2>11. \A j \in DOMAIN add : add[j][1] \notin Collected  BY <2>1, <2>5
  <2>12. \A i, j \in DOMAIN res' : res'[i][1] = res'[j][1] => i = j
    BY <1>2, <1>3, <2>1, <2>2, <2>6, <2>7, <2>10, <2>11, AddedOnce
  <2>13. Active' = (Active \ {n}) \cup {} /\ todo' \subseteq Names \cup Dirs /\ pc' = "walk"
    BY <1>1, <1>2, <1>6 DEF Active
  <2>14. \A m \in stayed \cap Listed : Covers(n, m) => m \in {n}
    BY <1>2, <1>6, TreeTypes DEF Covers
  <2>15. {} \subseteq Names \cup Dirs /\ {n} \subseteq Names /\ {} \cap {n} = {} /\ {} \cup {n} = {n}
    BY <1>6
  <2>16. WalkBy(n, {}, {n})  BY <1>2, <1>6, <2>9, <2>12, <2>13, <2>14, <2>15 DEF WalkBy
  <2> QED  BY <2>16, WalkStep
<1>7. CASE n \notin dirs /\ (n \in Names => ~Present(n)) /\ UNCHANGED <<at, pc, res, result>>
  <2>1. \A m \in stayed : Present(m) /\ Above[m] \subseteq dirs /\ m \in Names  BY <1>2 DEF WorldInv
  <2>2. \A m \in stayed \cap Listed : ~Covers(n, m)  BY <1>7, <2>1 DEF Covers
  <2>3. Active' = (Active \ {n}) \cup {} /\ todo' \subseteq Names \cup Dirs /\ pc' = "walk"
    BY <1>1, <1>2, <1>7 DEF Active
  <2>4. {} \subseteq Names \cup Dirs /\ {} \subseteq Names /\ {} \cap {} = {} /\ {} \cup {} = {}
    OBVIOUS
  <2>5. WalkBy(n, {}, {})  BY <1>2, <1>4, <1>7, <2>2, <2>3, <2>4 DEF WalkBy
  <2> QED  BY <2>5, WalkStep
<1> QED  BY <1>1, <1>5, <1>6, <1>7

\* Reading a directory's names: they cover what it covered, each a part of its own.
LEMMA ReadNamesInv == Inv /\ ReadDirNames => Inv'
<1> SUFFICES ASSUME Inv, ReadDirNames PROVE Inv'
  OBVIOUS
<1> USE DEF Inv
<1> DEFINE C == IF at \in dirs THEN In(at) \cup SubDirs(at) ELSE {}
<1>1. /\ kind = "fs" /\ pc = "names" /\ kind \in Trees /\ pc # "done" /\ kind # "ssh"
      /\ todo' = todo \cup C /\ pc' = "walk" /\ UNCHANGED <<kind, world, failed, at, res, result>>
  BY DEF ReadDirNames, Trees, Goto
<1>2. /\ at \in Dirs \ todo /\ at \in Active
      /\ \A i, j \in DOMAIN res : res[i][1] = res[j][1] => i = j
      /\ todo \subseteq Names \cup Dirs /\ stayed \subseteq Names
  BY <1>1 DEF WalkInv, Active, Types
<1>3. \A x \in C : x \in Names \cup Dirs /\ ChildOf(x, at)  BY <1>2, Children
<1>4. \A n \in stayed \cap Listed : Covers(at, n) => \E x \in C : Covers(x, n)
  <2> SUFFICES ASSUME NEW n \in stayed \cap Listed, Covers(at, n) PROVE \E x \in C : Covers(x, n)
    OBVIOUS
  <2>1. n \in Names /\ Present(n)  BY <1>2 DEF WorldInv
  <2> QED  BY <1>1, <1>2, <2>1, ReadFinds
<1> HIDE DEF C
<1>5. Active' = (Active \ {at}) \cup C  BY <1>1, <1>2 DEF Active
<1>6. /\ ResInv' /\ res' \in Seq(Names \X Nat) /\ Collected' = Collected \cup {}
      /\ \A i, j \in DOMAIN res' : res'[i][1] = res'[j][1] => i = j
  BY <1>1, <1>2 DEF ResInv, world, Listed, Collected, Types
<1>7. \A x \in C : x = Prefix \/ Prefix \in Above[x]  BY <1>1, <1>2, <1>3, ChildListed
<1>8. \A x \in C \cup {} : \A n \in Names : Covers(x, n) => Covers(at, n)
  BY <1>2, <1>3, ChildCovers
<1>9. \A x, y \in C \cup {} : \A n \in Names : Covers(x, n) /\ Covers(y, n) => x = y
  BY <1>2, <1>3, ChildrenApart
<1>10. C \subseteq Names \cup Dirs /\ {} \subseteq Names /\ C \cap {} = {} /\ todo' \subseteq Names \cup Dirs
  BY <1>1, <1>2, <1>3
<1>11. WalkBy(at, C, {})  BY <1>1, <1>2, <1>4, <1>5, <1>6, <1>7, <1>8, <1>9, <1>10 DEF WalkBy
<1> QED  BY <1>11, WalkStep
\* A row of names, each of them once, and its entries.
LEMMA RowOf ==
  ASSUME NEW S \in SUBSET Names, NEW row \in Rows(S), store \in [Names -> Nat]
  PROVE  /\ Entries(row) \in Seq(Names \X Nat) /\ DOMAIN Entries(row) = DOMAIN row
         /\ DOMAIN row \subseteq Nat
         /\ \A i \in DOMAIN row : row[i] \in S /\ Entries(row)[i] = Entry(row[i])
         /\ \A i, j \in DOMAIN row : row[i] = row[j] => i = j
         /\ {Entries(row)[i][1] : i \in DOMAIN Entries(row)} = S
<1>1. Cardinality(S) \in Nat
  <2>1. IsFiniteSet(Names)  BY ListingAssumption
  <2>2. IsFiniteSet(S)  BY <2>1, FS_Subset
  <2> QED  BY <2>2, FS_CardinalityType
<1>2. row \in [1..Cardinality(S) -> S]  BY DEF Rows, Bijection, Injection
<1>3. DOMAIN row = 1..Cardinality(S)  BY <1>2
<1>4. \A i, j \in DOMAIN row : row[i] = row[j] => i = j
  BY <1>2 DEF Rows, Bijection, Injection, IsInjective
<1>5. \A n \in S : \E i \in DOMAIN row : row[i] = n
  BY <1>3 DEF Rows, Bijection, Surjection
<1>6. Entries(row) \in [1..Cardinality(S) -> Names \X Nat]  BY <1>2, <1>3 DEF Entries, Entry
<1>7. \A i \in DOMAIN row : Entries(row)[i] = Entry(row[i]) /\ Entries(row)[i][1] = row[i]
  BY DEF Entries, Entry
<1>8. Entries(row) \in Seq(Names \X Nat) /\ DOMAIN Entries(row) = DOMAIN row
  <2> DEFINE e == Entries(row)
  <2>1. e \in [1..Cardinality(S) -> Names \X Nat]  BY <1>6
  <2> HIDE DEF e
  <2>2. e \in Seq(Names \X Nat) /\ DOMAIN e = 1..Cardinality(S)  BY <1>1, <2>1
  <2> QED  BY <2>2, <1>3 DEF e
<1>9. {Entries(row)[i][1] : i \in DOMAIN Entries(row)} = {row[i] : i \in DOMAIN row}
  BY <1>7, <1>8
<1>10. {row[i] : i \in DOMAIN row} = S  BY <1>2, <1>3, <1>5
<1> QED  BY <1>1, <1>2, <1>3, <1>4, <1>7, <1>8, <1>9, <1>10

\* ssh reads a directory: its files are found, its directories are left to read.
LEMMA ReadDirInv == Inv /\ ReadDir => Inv'
<1> SUFFICES ASSUME Inv, ReadDir PROVE Inv'
  OBVIOUS
<1> USE DEF Inv
<1>1. PICK d \in todo :
        IF d \in dirs
          THEN /\ \E row \in Rows(In(d)) : res' = res \o Entries(row)
               /\ todo' = (todo \ {d}) \cup SubDirs(d)
          ELSE todo' = todo \ {d} /\ UNCHANGED res
  BY DEF ReadDir
<1>2. /\ kind = "ssh" /\ pc = "walk" /\ kind \in Trees /\ pc # "done" /\ pc' = "walk"
      /\ UNCHANGED <<kind, world, failed, result>> /\ Active = todo /\ d \in Active
      /\ Active' = todo'
  BY DEF ReadDir, Trees, Active
<1>3. /\ dirs \subseteq Dirs /\ store \in [Names -> Nat] /\ res \in Seq(Names \X Nat)
      /\ stayed \subseteq Names
  BY DEF Types
<1>4. /\ \A i, j \in DOMAIN res : res[i][1] = res[j][1] => i = j
      /\ todo \subseteq Dirs /\ d \in Dirs
  BY <1>2 DEF WalkInv
<1>5. \A n \in stayed \cap Listed : n \in Names /\ Present(n)  BY <1>3 DEF WorldInv
<1>6. CASE d \notin dirs
  <2>1. todo' = todo \ {d} /\ UNCHANGED res  BY <1>1, <1>6
  <2>2. \A n \in stayed \cap Listed : ~Covers(d, n)  BY <1>2, <1>4, <1>5, <1>6, ReadFinds
  <2>3. Active' = (Active \ {d}) \cup {} /\ todo' \subseteq Dirs  BY <1>2, <1>4, <2>1
  <2>4. /\ ResInv' /\ res' \in Seq(Names \X Nat) /\ Collected' = Collected \cup {}
        /\ \A i, j \in DOMAIN res' : res'[i][1] = res'[j][1] => i = j
    BY <1>2, <1>3, <1>4, <2>1 DEF ResInv, world, Listed, Collected
  <2>5. {} \subseteq Names \cup Dirs /\ {} \subseteq Names /\ {} \cap {} = {} /\ {} \cup {} = {}
    OBVIOUS
  <2>6. WalkBy(d, {}, {})  BY <1>2, <2>2, <2>3, <2>4, <2>5 DEF WalkBy
  <2> QED  BY <2>6, WalkStep
<1>7. CASE d \in dirs
  <2> DEFINE C == SubDirs(d)
             F == In(d)
  <2>1. PICK row \in Rows(F) : res' = res \o Entries(row)  BY <1>1, <1>7
  <2> DEFINE add == Entries(row)
  <2>2. todo' = (todo \ {d}) \cup C  BY <1>1, <1>7
  <2>3. C \subseteq Dirs /\ F \subseteq Names /\ \A n \in F : Present(n)
    BY <1>3 DEF SubDirs, In
  <2>4. \A x \in C \cup F : x \in Names \cup Dirs /\ ChildOf(x, d)
    BY DEF SubDirs, In, Types
  <2>5. C \cap F = {}  BY <2>3, TreeTypes
  <2>6. \A n \in stayed \cap Listed : Covers(d, n) => n \in F \/ \E x \in C : Covers(x, n)
    <3> SUFFICES ASSUME NEW n \in stayed \cap Listed, Covers(d, n)
                 PROVE  n \in F \/ \E x \in C : Covers(x, n)
      OBVIOUS
    <3>1. PICK e \in F \cup C : Covers(e, n)  BY <1>2, <1>4, <1>5, ReadFinds
    <3>2. CASE e \in C  BY <3>1, <3>2
    <3>3. CASE e \in F
      <4>1. e \in Names /\ n \in Names  BY <3>3, <2>3, <1>5
      <4>2. e \notin Above[n]  BY <4>1, TreeTypes
      <4> QED  BY <4>2, <3>1, <3>3 DEF Covers
    <3> QED  BY <3>1, <3>2, <3>3
  <2> HIDE DEF C, F
  <2>7. \A x \in C \cup F : \A n \in Names : Covers(x, n) => Covers(d, n)
    BY <1>4, <2>4, ChildCovers
  <2>8. \A x, y \in C \cup F : \A n \in Names : Covers(x, n) /\ Covers(y, n) => x = y
    BY <1>4, <2>4, ChildrenApart
  <2>9. \A x \in C \cup F : Prefix \in Above[x] /\ (x \in Names => x \in Listed)
    BY <1>2, <1>4, <2>4, ChildListed
  <2>10. /\ add \in Seq(Names \X Nat)
         /\ \A i \in DOMAIN add : row[i] \in F /\ add[i] = Entry(row[i]) /\ add[i][1] = row[i]
         /\ \A i, j \in DOMAIN add : row[i] = row[j] => i = j
         /\ {add[i][1] : i \in DOMAIN add} = F
    <3>1. F \in SUBSET Names  BY <2>3
    <3>2. /\ Entries(row) \in Seq(Names \X Nat) /\ DOMAIN Entries(row) = DOMAIN row
          /\ \A i \in DOMAIN row : row[i] \in F /\ Entries(row)[i] = Entry(row[i])
          /\ \A i, j \in DOMAIN row : row[i] = row[j] => i = j
          /\ {Entries(row)[i][1] : i \in DOMAIN Entries(row)} = F
      BY <2>1, <1>3, <3>1, RowOf
    <3>3. \A n : Entry(n)[1] = n  BY DEF Entry
    <3> QED  BY <3>2, <3>3
  <2>11. \A n \in F : n # Marker /\ Entry(n) \in were  BY <1>2, <2>3 DEF WorldInv
  <2>12. were' = were  BY <1>2 DEF world
  <2>13. \A n \in F : n \notin Collected
    <3> SUFFICES ASSUME NEW n \in F PROVE n \notin Collected
      OBVIOUS
    <3>1. Covers(d, n)
      <4>1. Covers(n, n)  BY DEF Covers
      <4> QED  BY <4>1, <2>7, <2>3
    <3> QED  BY <3>1, <1>2 DEF ApartInv
  <2> HIDE DEF add
  <2>14. \A i \in DOMAIN add : add[i] \in were /\ add[i][1] \in Listed \ {Marker}
    BY <2>3, <2>9, <2>10, <2>11
  <2>15. res' = res \o add  BY <2>1 DEF add
  <2>16. res' \in Seq(Names \X Nat) /\ ResInv' /\ Collected' = Collected \cup F
    BY <1>3, <2>10, <2>12, <2>14, <2>15, Added
  <2>17. \A i, j \in DOMAIN add : add[i][1] = add[j][1] => i = j  BY <2>10
  <2>18. \A j \in DOMAIN add : add[j][1] \notin Collected  BY <2>10, <2>13
  <2>19. \A i, j \in DOMAIN res' : res'[i][1] = res'[j][1] => i = j
    BY <1>3, <1>4, <2>10, <2>12, <2>14, <2>15, <2>17, <2>18, AddedOnce
  <2>20. Active' = (Active \ {d}) \cup C /\ todo' \subseteq Dirs  BY <1>2, <1>4, <2>2, <2>3
  <2>21. WalkBy(d, C, F)
    BY <1>2, <2>3, <2>5, <2>6, <2>7, <2>8, <2>9, <2>16, <2>19, <2>20 DEF WalkBy
  <2> QED  BY <2>21, WalkStep
<1> QED  BY <1>6, <1>7
-----------------------------------------------------------------------------
\* Names have ranks, and different ones.
LEMMA Keys ==
  /\ \A n \in Names : KeyRank[n] \in Nat
  /\ \A m, n \in Names : KeyRank[m] = KeyRank[n] => m = n
  BY ListingAssumption DEF Injection, IsInjective

\* A page holds the keys next after those before it, none left out, and is in order.
LEMMA PageStepInv == ASSUME NEW k \in Buckets, Inv, NextPage(k) PROVE Inv'
<1> USE DEF Inv
<1>1. PICK page \in Pages :
        /\ \E row \in Rows(page \ {Marker}) : InOrder(row) /\ res' = res \o Entries(row)
        /\ \/ page = Rest /\ Return("ok")
           \/ /\ page # Rest
              /\ at' \in page /\ \A n \in page : KeyRank[n] <= KeyRank[at']
              /\ UNCHANGED <<todo, pc, result>>
  BY DEF NextPage
<1> DEFINE S == page \ {Marker}
<1>2. PICK row \in Rows(S) : InOrder(row) /\ res' = res \o Entries(row)  BY <1>1
<1> DEFINE add == Entries(row)
<1>3. /\ kind \in Buckets /\ kind \notin Trees /\ pc = "page" /\ UNCHANGED <<kind, world, failed>>
      /\ were' = were /\ stayed' = stayed /\ Listed' = Listed
  BY DEF NextPage, Trees, Buckets, world, Listed
<1>4. /\ store \in [Names -> Nat] /\ res \in Seq(Names \X Nat) /\ at \in Names \cup {""}
      /\ Listed \subseteq Names /\ stayed \subseteq Names
  BY <1>3 DEF Types, Listed
<1>5. /\ at = "" => res = <<>>
      /\ \A i, j \in DOMAIN res : i < j => KeyRank[res[i][1]] < KeyRank[res[j][1]]
      /\ \A i \in DOMAIN res : KeyRank[res[i][1]] <= KeyRank[at]
      /\ \A n \in (stayed \cap Listed) \ {Marker} :
           at # "" /\ KeyRank[n] <= KeyRank[at] => n \in Collected
  BY <1>3 DEF PageInv
<1>6. /\ Rest \subseteq Listed /\ page \subseteq Rest
      /\ \A n \in Rest : Present(n) /\ (at # "" => KeyRank[n] > KeyRank[at])
      /\ \A n \in page, m \in Rest \ page : KeyRank[n] < KeyRank[m]
  BY DEF Pages, Rest
<1>7. S \subseteq Names /\ \A n \in S : n \in Listed /\ n # Marker /\ Entry(n) \in were
  BY <1>4, <1>6 DEF WorldInv
<1>8. /\ add \in Seq(Names \X Nat) /\ DOMAIN add = DOMAIN row /\ DOMAIN row \subseteq Nat
      /\ \A i \in DOMAIN add : row[i] \in S /\ add[i] = Entry(row[i]) /\ add[i][1] = row[i]
      /\ \A i, j \in DOMAIN row : row[i] = row[j] => i = j
      /\ {add[i][1] : i \in DOMAIN add} = S
  <2> HIDE DEF S
  <2>1. S \in SUBSET Names  BY <1>7
  <2>2. /\ Entries(row) \in Seq(Names \X Nat) /\ DOMAIN Entries(row) = DOMAIN row
        /\ DOMAIN row \subseteq Nat
        /\ \A i \in DOMAIN row : row[i] \in S /\ Entries(row)[i] = Entry(row[i])
        /\ \A i, j \in DOMAIN row : row[i] = row[j] => i = j
        /\ {Entries(row)[i][1] : i \in DOMAIN Entries(row)} = S
    BY <1>2, <1>4, <2>1, RowOf
  <2>3. \A n : Entry(n)[1] = n  BY DEF Entry
  <2> QED  BY <2>2, <2>3
<1>9. InOrder(row) /\ res' = res \o add  BY <1>2
<1> HIDE DEF S, add
<1>10. \A i \in DOMAIN add : add[i] \in were /\ add[i][1] \in Listed \ {Marker}  BY <1>7, <1>8
<1>11. /\ res' \in Seq(Names \X Nat) /\ ResInv' /\ Collected' = Collected \cup S
       /\ \A i \in DOMAIN res : i \in DOMAIN res' /\ res'[i] = res[i]
       /\ \A j \in DOMAIN add : Len(res) + j \in DOMAIN res' /\ res'[Len(res) + j] = add[j]
       /\ \A i \in DOMAIN res' : i \in DOMAIN res \/ \E j \in DOMAIN add : i = Len(res) + j
  BY <1>3, <1>4, <1>8, <1>9, <1>10, Added
<1>12. DOMAIN res = 1..Len(res) /\ Len(res) \in Nat /\ (\A i \in DOMAIN res : res[i][1] \in Names /\ KeyRank[res[i][1]] \in Nat)
  BY <1>4, Ranks
<1>13. ASSUME NEW i \in DOMAIN res PROVE at \in Names /\ at # ""
  <2>1. res # <<>>  BY <1>13
  <2> QED  BY <2>1, <1>4, <1>5
<1>14. ASSUME NEW i \in DOMAIN res', NEW j \in DOMAIN res', i < j
       PROVE  KeyRank[res'[i][1]] < KeyRank[res'[j][1]]
  <2>1. CASE i \in DOMAIN res /\ j \in DOMAIN res  BY <2>1, <1>5, <1>11, <1>14
  <2>2. CASE i \in DOMAIN res /\ j \notin DOMAIN res
    <3>1. PICK b \in DOMAIN add : j = Len(res) + b  BY <2>2, <1>11
    <3>2. res'[j][1] = row[b] /\ row[b] \in S /\ res'[i] = res[i]  BY <3>1, <2>2, <1>8, <1>11
    <3>3. row[b] \in Rest /\ row[b] \in Names  BY <3>2, <1>6, <1>7 DEF S
    <3>4. KeyRank[row[b]] > KeyRank[at] /\ KeyRank[res[i][1]] <= KeyRank[at]
      BY <3>3, <2>2, <1>5, <1>6, <1>13
    <3>5. KeyRank[row[b]] \in Nat /\ KeyRank[at] \in Nat /\ KeyRank[res[i][1]] \in Nat
      BY <3>3, <2>2, <1>12, <1>13, Keys
    <3> QED  BY <3>2, <3>4, <3>5
  <2>3. CASE i \notin DOMAIN res /\ j \notin DOMAIN res
    <3>1. PICK a \in DOMAIN add : i = Len(res) + a  BY <2>3, <1>11
    <3>2. PICK b \in DOMAIN add : j = Len(res) + b  BY <2>3, <1>11
    <3>a. a \in DOMAIN row /\ b \in DOMAIN row /\ a \in Nat /\ b \in Nat  BY <1>8
    <3>b. Len(res) \in Nat  BY <1>12
    <3>3. a \in DOMAIN row /\ b \in DOMAIN row /\ a < b /\ a # b  BY <3>1, <3>2, <3>a, <3>b, <1>14
    <3>4. KeyRank[row[a]] <= KeyRank[row[b]] /\ row[a] # row[b]  BY <3>3, <1>8, <1>9 DEF InOrder
    <3>5. row[a] \in Names /\ row[b] \in Names  BY <3>3, <1>7, <1>8
    <3>6. KeyRank[row[a]] \in Nat /\ KeyRank[row[b]] \in Nat /\ KeyRank[row[a]] # KeyRank[row[b]]
      BY <3>4, <3>5, Keys
    <3>7. res'[i][1] = row[a] /\ res'[j][1] = row[b]  BY <3>1, <3>2, <1>8, <1>11
    <3> QED  BY <3>4, <3>6, <3>7
  <2>4. CASE i \notin DOMAIN res /\ j \in DOMAIN res
    <3>1. PICK a \in DOMAIN add : i = Len(res) + a  BY <2>4, <1>11
    <3>2. a \in Nat  BY <1>8
    <3> QED  BY <3>1, <3>2, <2>4, <1>12, <1>14
  <2> QED  BY <2>1, <2>2, <2>3, <2>4
<1>15. \A n \in (stayed \cap Listed) \ {Marker} : n \in Collected \/ n \in Rest
  <2> SUFFICES ASSUME NEW n \in (stayed \cap Listed) \ {Marker}, n \notin Collected PROVE n \in Rest
    OBVIOUS
  <2>1. Present(n) /\ n \in Names  BY <1>4 DEF WorldInv
  <2>2. at # "" => at \in Names /\ ~(KeyRank[n] <= KeyRank[at])  BY <1>4, <1>5
  <2>3. ASSUME at # "" PROVE KeyRank[n] > KeyRank[at]
    <3>1. KeyRank[n] \in Nat /\ KeyRank[at] \in Nat  BY <2>1, <2>2, <2>3, Keys
    <3>2. ~(KeyRank[n] <= KeyRank[at])  BY <2>2, <2>3
    <3> QED  BY <3>1, <3>2
  <2> QED  BY <2>1, <2>3 DEF Rest
<1>16. CASE page = Rest /\ Return("ok")
  <2>1. (stayed \cap Listed) \ {Marker} \subseteq Collected'  BY <1>11, <1>15, <1>16 DEF S
  <2>2. pc # "done"  BY <1>3
  <2> QED  BY <1>3, <1>11, <1>14, <1>16, <2>1, <2>2, Ends
<1>17. CASE page # Rest /\ at' \in page /\ (\A n \in page : KeyRank[n] <= KeyRank[at'])
            /\ UNCHANGED <<todo, pc, result>>
  <2>1. at' \in Names /\ at' # "" /\ KeyRank[at'] \in Nat /\ at' \in Rest
    BY <1>4, <1>6, <1>17, Keys, ListingAssumption
  <2>a. KeyRank[at'] \in Nat  BY <2>1
  <2>2. Types'  BY <1>3, <1>11, <1>17, <2>1 DEF Types, world
  <2>3. WorldInv'  BY <1>3, SameWorld
  <2>4. \A i \in DOMAIN res' : KeyRank[res'[i][1]] <= KeyRank[at']
    <3> SUFFICES ASSUME NEW i \in DOMAIN res' PROVE KeyRank[res'[i][1]] <= KeyRank[at']
      OBVIOUS
    <3>1. CASE i \in DOMAIN res
      <4>1. KeyRank[res[i][1]] <= KeyRank[at] /\ KeyRank[at'] > KeyRank[at] /\ res'[i] = res[i]
        BY <3>1, <2>1, <1>5, <1>6, <1>11, <1>13
      <4>2. KeyRank[res[i][1]] \in Nat /\ KeyRank[at] \in Nat  BY <3>1, <1>12, <1>13, Keys
      <4>3. KeyRank[res[i][1]] <= KeyRank[at']  BY <4>1, <4>2, <2>a
      <4> QED  BY <4>1, <4>3
    <3>2. CASE i \notin DOMAIN res
      <4>1. PICK b \in DOMAIN add : i = Len(res) + b  BY <3>2, <1>11
      <4>2. res'[i][1] = row[b] /\ row[b] \in page  BY <4>1, <1>8, <1>11 DEF S
      <4> QED  BY <4>2, <1>17
    <3> QED  BY <3>1, <3>2
  <2>5. ASSUME NEW n \in (stayed \cap Listed) \ {Marker}, KeyRank[n] <= KeyRank[at']
        PROVE  n \in Collected'
    <3>1. CASE n \in Collected  BY <3>1, <1>11
    <3>2. CASE n \in Rest
      <4>1. n \in Names /\ KeyRank[n] \in Nat  BY <1>4, Keys
      <4>2. ASSUME n \notin page PROVE FALSE
        <5>1. KeyRank[at'] < KeyRank[n]  BY <4>2, <3>2, <1>6, <1>17
        <5> QED  BY <5>1, <4>1, <2>a, <2>5
      <4> QED  BY <4>2, <2>5, <1>11 DEF S
    <3> QED  BY <3>1, <3>2, <1>15
  <2>6. PageInv'  BY <1>3, <1>14, <2>1, <2>4, <2>5 DEF PageInv
  <2>7. ListsWhatStays'  BY <1>3, <1>17 DEF ListsWhatStays, Types
  <2>8. WalkInv' /\ ApartInv' /\ CoverInv'  BY <1>3 DEF WalkInv, ApartInv, CoverInv
  <2> QED  BY <1>11, <2>2, <2>3, <2>6, <2>7, <2>8
<1> QED  BY <1>1, <1>16, <1>17

-----------------------------------------------------------------------------
\* Every step keeps the invariant.
LEMMA NextInv == Inv /\ [Next]_vars => Inv'
<1> SUFFICES ASSUME Inv, [Next]_vars PROVE Inv'
  OBVIOUS
<1>1. CASE FsStat  BY <1>1, StatInv DEF FsStat, Trees
<1>2. CASE SshStat  BY <1>2, StatInv DEF SshStat, Trees
<1>3. CASE FsSort  BY <1>3, SortInv DEF FsSort, Trees
<1>4. CASE SshSort  BY <1>4, SortInv DEF SshSort, Trees
<1>5. CASE Lstat  BY <1>5, LstatInv
<1>6. CASE ReadDirNames  BY <1>6, ReadNamesInv
<1>7. CASE ReadDir  BY <1>7, ReadDirInv
<1>8. CASE ListObjects  BY <1>8, PageStepInv DEF ListObjects, Buckets
<1>9. CASE ListObjectsV2  BY <1>9, PageStepInv DEF ListObjectsV2, Buckets
<1>10. CASE ListBlobsFlat  BY <1>10, PageStepInv DEF ListBlobsFlat, Buckets
<1>11. CASE Fail  BY <1>11, FailInv
<1>12. CASE Others  BY <1>12, OthersInv
<1>13. CASE UNCHANGED vars
  <2> USE <1>13 DEF vars, world, Inv
  <2>1. Types'  BY DEF Types
  <2>2. WorldInv'  BY SameWorld
  <2>3. ResInv'  BY DEF ResInv, Listed
  <2>4. WalkInv'  BY DEF WalkInv, Active
  <2>5. ApartInv' /\ CoverInv'  BY DEF ApartInv, CoverInv, Active, Covers, Collected, Listed
  <2>6. PageInv'  BY DEF PageInv, Collected, Listed
  <2>7. ListsWhatStays'  BY DEF ListsWhatStays, Listed
  <2> QED  BY <2>1, <2>2, <2>3, <2>4, <2>5, <2>6, <2>7
<1> QED  BY <1>1, <1>2, <1>3, <1>4, <1>5, <1>6, <1>7, <1>8, <1>9, <1>10, <1>11, <1>12, <1>13 DEF Next, Done

\* List of every backend, in any tree and with pages of any size: what it returns is in
\* the order of the keys, has every object that stayed there for the whole of the call,
\* and has nothing but files as they were during it; only a failed request fails it.
THEOREM ListingComplete == Spec => []ListsWhatStays
<1>1. Inv => ListsWhatStays  BY DEF Inv
<1> QED  BY InitInv, NextInv, <1>1, PTL DEF Spec
=============================================================================
