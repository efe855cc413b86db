------------------------------ MODULE KeyGuard ------------------------------
(***************************************************************************)
(* guard.go, and what the backends do with the keys it lets through: a     *)
(* caller holds a storage, calls its methods with any keys and navigates   *)
(* with SubStorage and ListDir, or opens a directory storage with          *)
(* NewStorage.  A call is one step, as its keys are examined by sequential *)
(* code before the first request.                                          *)
(*                                                                         *)
(* A string is the sequence of the segments between its slashes, a segment *)
(* the sequence of the parts between its backslashes, and "" is <<>>.  So  *)
(* "/a" is <<Empty, a>>, "a/" is <<a, Empty>> and "..\a" is one segment.   *)
(***************************************************************************)
EXTENDS Integers, FiniteSets, SequencesExt

CONSTANTS
  Keys,        \* the strings callers use as keys and prefixes
  PairKeys,    \* those they use in calls with two keys
  Roots,       \* the strings they root a storage at
  Objects,     \* the objects in the backend; in a bucket or a container any name is legal
  Starts,      \* pairs <<m, n>> of segments where the name n begins with m
  MaxDepth     \* bound on the segments of a working directory

Empty == <<"">>
Dot == <<".">>
DotDot == <<"..">>
Str(segs) == IF segs = <<Empty>> THEN <<>> ELSE segs

ASSUME KeysAssumption == \A k \in Keys \cup PairKeys \cup Roots : k = Str(k)

VARIABLES
  kind,      \* the backend: "fs" (directory, in-memory), "ssh", "s3" or "azure"
  windows,   \* whether the program runs on Windows
  cwd,       \* cwd or prefix of the storage in the caller's hands
  guarded,   \* whether that storage is a *guard
  home,      \* history: the root the caller named last
  strayed,   \* history: since then ListDir has led it to a prefix that goes up
  method,    \* the call that has just returned, "none" before the next one
  asked,     \* its keys
  refused,   \* the guard, or cleanPrefix, returned ErrUnsafeKey
  reached    \* the objects it addressed

setting == <<kind, windows>>
vars == <<setting, cwd, guarded, home, strayed, method, asked, refused, reached>>

-----------------------------------------------------------------------------
\* path.IsAbs, path.Clean, path.Join and filepath.ToSlash.

IsAbs(k) == k # <<>> /\ k[1] = Empty

ToSlash(k) ==
  IF windows THEN Str(FlattenSeq([i \in DOMAIN k |-> [j \in DOMAIN k[i] |-> <<k[i][j]>>]]))
             ELSE k

Clean(k) ==
  LET step(out, s) ==
        IF s \in {Empty, Dot} THEN out
        ELSE IF s # DotDot THEN Append(out, s)
        ELSE IF out # <<>> /\ Last(out) # DotDot THEN Front(out)
        ELSE IF IsAbs(k) THEN out
        ELSE Append(out, DotDot)
      out == FoldLeft(step, <<>>, k)
  IN  IF IsAbs(k) THEN <<Empty>> \o (IF out = <<>> THEN <<Empty>> ELSE out)
      ELSE IF out = <<>> THEN <<Dot>>
      ELSE out

Join(a, b) == IF a = <<>> /\ b = <<>> THEN <<>>
              ELSE IF a = <<>> THEN Clean(b)
              ELSE Clean(a \o b)

-----------------------------------------------------------------------------
\* The gates of guard.go.  Each is the set of what it lets through for a key:
\* one string, or none when it returns ErrUnsafeKey.

Escapes(cleaned) == cleaned[1] = DotDot

\* clean: normalised separators, then no absolute key and none that still
\* walks up; the root is "".
CleanKey(key) ==
  LET k == ToSlash(key)
      root(c) == IF c = <<Dot>> THEN <<>> ELSE c
  IN  IF IsAbs(k) THEN {}
      ELSE IF k = <<>> THEN {<<>>}
      ELSE {root(c) : c \in {d \in {Clean(k)} : ~Escapes(d)}}

ListPrefix(prefix) == CleanKey(prefix)

ObjectKey(key) == {c \in CleanKey(key) : c # <<>>}

-----------------------------------------------------------------------------
\* What the backends make of a key.

Kinds == {"fs", "ssh", "s3", "azure"}
ObjectStore == kind \in {"s3", "azure"}
Native(k) == IF kind = "fs" THEN ToSlash(k) ELSE k
TrimSlash(k) == IF IsAbs(k) THEN Str(Tail(k)) ELSE k

\* The name of the object a key addresses.
Resolve(c, k) ==
  LET name == Join(c, Native(k)) IN IF kind = "azure" THEN TrimSlash(name) ELSE name

\* Mutant: a prefix without its final slash also matches longer names.
FixPrefixOpen(p) == IF kind = "azure" THEN TrimSlash(p) ELSE p

FixPrefix(p) ==
  LET q == IF kind = "azure" THEN TrimSlash(p) ELSE p
  IN  IF q # <<>> /\ Last(q) # Empty THEN Append(q, Empty) ELSE q

\* strings.HasPrefix, which is how an object store matches a prefix.
HasPrefix(o, p) ==
  \/ p = <<>>
  \/ /\ Len(p) <= Len(o)
     /\ SubSeq(o, 1, Len(p) - 1) = Front(p)
     /\ Last(p) = Empty \/ Last(p) = o[Len(p)] \/ <<Last(p), o[Len(p)]>> \in Starts

\* The names of a directory's path; two strings with one Place are one directory.
Place(p) == [abs |-> IsAbs(p), names |-> SelectSeq(Clean(p), LAMBDA s : s \notin {Empty, Dot})]

\* Where an object and a working directory are: an object store takes every
\* segment of a name as it is, the empty ones and "." and ".." too.
At(o) == IF ObjectStore THEN [abs |-> FALSE, names |-> o] ELSE Place(o)
AtDir(c) == IF ~ObjectStore THEN Place(c)
            ELSE [abs |-> FALSE, names |-> IF c = <<>> THEN <<>> ELSE Front(c)]

\* x is d or lies below it.
Within(x, d) ==
  /\ x.abs = d.abs
  /\ IsPrefix(d.names, x.names)
  /\ ObjectStore \/ \A i \in Len(d.names) + 1 .. Len(x.names) : x.names[i] # DotDot

\* In a tree every name is clean, and a file is not a directory.
Stored == IF ObjectStore THEN Objects
          ELSE LET clean == {o \in Objects : Clean(o) = o}
               IN  {o \in clean : \A n \in clean \ {o} : ~IsPrefix(o, n)}

\* The folder marker of d: the object whose name is d's and a final slash.
Marker(d) == {o \in Stored : At(o).names = Append(d.names, Empty)}
Below(d) == {o \in Stored : Within(At(o), d) /\ At(o) # d} \ Marker(d)

\* The prefix a storage at c lists for k.
FullPrefix(c, k) == FixPrefix(Join(c, k))

\* List: everything under a prefix, but for the name that is left empty.
Under(c, k) ==
  IF ObjectStore
    THEN {o \in Stored : HasPrefix(o, FullPrefix(c, k)) /\ o # FullPrefix(c, k)}
    ELSE Below(Place(Join(c, Native(k))))

\* Dirname, filepath.Base of a prefix.
Base(p) == LET named == {i \in DOMAIN p : p[i] # Empty}
           IN  IF named = {} THEN Empty ELSE p[Max(named)]

\* The name deleteKnown addresses for the object o which Walk found under the
\* prefix p: ListDir trims p off, Walk joins the Dirnames of the prefixes on the
\* way in front of the rest, and deleteKnown joins p in front of that.
Addressed(p, o) ==
  LET name == Clean([i \in DOMAIN o |-> IF i \in Len(p) .. Len(o) - 1
                                           THEN Base(SubSeq(o, 1, i)) ELSE o[i]])
  IN  IF kind = "azure" THEN TrimSlash(name) ELSE name

\* DeleteAll: in a tree everything under the prefix and the file of that name; an
\* object store is walked, the marker of the prefix included, and the names found
\* are joined again.
Removed(c, k) ==
  IF ObjectStore
    THEN {Addressed(FullPrefix(c, k), o) : o \in {n \in Stored : HasPrefix(n, FullPrefix(c, k))}}
    ELSE Under(c, k) \cup {o \in Stored : Place(o) = Place(Join(c, Native(k)))}

\* CopyAll lists k and copies what it found to the same names under l: without the
\* markers, nothing if one of the names is not clean, and without what is already
\* under a destination inside the source.
CleanRelative(name) == name # <<>> /\ ~IsAbs(name) /\ Clean(name) = name /\ ~Escapes(name)
Copied(c, k, l) ==
  LET base == AtDir(IF ObjectStore THEN FullPrefix(c, k) ELSE Join(c, Native(k))).names
      name(o) == SubSeq(At(o).names, Len(base) + 1, Len(At(o).names))
      listed == {o \in Under(c, k) : Last(o) # Empty}
      nested == k # l /\ IsPrefix(k, l)
      kept == IF nested THEN listed \ Under(c, l) ELSE listed
  IN  IF \A o \in listed : CleanRelative(name(o))
        THEN {Resolve(c, Join(l, name(o))) : o \in kept}
        ELSE {}

\* ListDir: the objects in the working directory, and the storages below it.
\* An object store is asked for the names that begin with the prefix, grouped
\* at the next slash; its folder marker is among them.
Level(p) == IF p = <<>> THEN 1 ELSE Len(p)
Files(c) ==
  IF ObjectStore THEN {o \in Stored : HasPrefix(o, c) /\ Len(o) = Level(c)}
  ELSE {o \in Below(Place(c)) : Len(Place(o).names) = Len(Place(c).names) + 1}
SubDirs(c) ==
  IF ObjectStore
    THEN {FixPrefix(Append(SubSeq(o, 1, Level(c)), Empty)) :
            o \in {n \in Stored : HasPrefix(n, c) /\ Len(n) > Level(c)}}
    ELSE {Join(c, <<Place(o).names[Len(Place(c).names) + 1]>>) :
            o \in {n \in Below(Place(c)) : Len(Place(n).names) > Len(Place(c).names) + 1}}

\* SubStorage of the backend.
SubCwd(c, path, relative) ==
  IF ~relative THEN Native(path)
  ELSE IF ObjectStore THEN FixPrefix(Join(c, path))
  ELSE Join(c, Native(path))

-----------------------------------------------------------------------------
\* The roots considered: an object store's are relative paths, clean but for a
\* final slash, so that path.Join keeps them.
Tidy(r) ==
  \/ ~ObjectStore \/ r = <<>>
  \/ ~IsAbs(r) /\ Clean(r) # <<Dot>> /\ FixPrefix(Clean(r)) = FixPrefix(r)

\* A backend's constructor.  WithUnsafe, which leaves out Guard and every
\* promise with it, is not considered.
Init ==
  /\ kind \in Kinds
  /\ windows \in BOOLEAN
  /\ \E r \in Roots : /\ Tidy(r)
                      /\ kind = "fs" => r # <<>>
                      /\ cwd = IF ObjectStore THEN FixPrefix(r) ELSE Native(r)
  /\ guarded = TRUE
  /\ home = AtDir(cwd) /\ strayed = FALSE
  /\ method = "none" /\ asked = <<>> /\ refused = FALSE /\ reached = {}

\* One call: its keys pass the gate, all of them before anything is done.
\* effect(ks) is what the backend does with them.
Call(m, keys, Gate(_), effect(_)) ==
  /\ method = "none"
  /\ method' = m /\ asked' = keys
  /\ IF guarded /\ \E i \in DOMAIN keys : Gate(keys[i]) = {}
       THEN refused' = TRUE /\ reached' = {}
       ELSE /\ refused' = FALSE
            /\ reached' = effect([i \in DOMAIN keys |->
                                    IF guarded THEN CHOOSE k \in Gate(keys[i]) : TRUE ELSE keys[i]])
  /\ UNCHANGED <<setting, cwd, guarded, home, strayed>>

\* GetObject, GetObjectRange, PutObject, Exists and Stat.
OneObject == \E k \in Keys :
  Call("object", <<k>>, ObjectKey, LAMBDA ks : {Resolve(cwd, ks[1])})

Copy == \E k, l \in PairKeys :
  Call("copy", <<k, l>>, ObjectKey, LAMBDA ks : {Resolve(cwd, ks[1]), Resolve(cwd, ks[2])})

Delete == \E k, l \in PairKeys :
  Call("delete", <<k, l>>, ObjectKey, LAMBDA ks : {Resolve(cwd, ks[1]), Resolve(cwd, ks[2])})

\* Mutant: the prefix of DeleteAll is gated like that of List.
DeleteAllPrefix == \E k \in Keys : Call("deleteall", <<k>>, ListPrefix, LAMBDA ks : Removed(cwd, ks[1]))

DeleteAll == \E k \in Keys : Call("deleteall", <<k>>, ObjectKey, LAMBDA ks : Removed(cwd, ks[1]))

List == \E k \in Keys : Call("list", <<k>>, ListPrefix, LAMBDA ks : Under(cwd, ks[1]))

CopyAll == \E k, l \in PairKeys :
  Call("copyall", <<k, l>>, ListPrefix,
       LAMBDA ks : Under(cwd, ks[1]) \cup Copied(cwd, ks[1], ks[2]))

\* The caller goes on with another storage, rooted at c, which Guard has wrapped.
Navigate(m, keys, c, h) ==
  /\ method = "none"
  /\ Len(AtDir(c).names) <= MaxDepth
  /\ method' = m /\ asked' = keys /\ refused' = FALSE
  /\ cwd' = c /\ home' = h /\ guarded' = TRUE
  /\ UNCHANGED setting

\* SubStorage(k, true): gated like a prefix; the result is guarded again.
SubStorage ==
  /\ method = "none"
  /\ \E k \in Keys :
       \/ /\ guarded /\ ListPrefix(k) = {}
          /\ Call("sub", <<k>>, ListPrefix, LAMBDA ks : {})
       \/ \E p \in IF guarded THEN ListPrefix(k) ELSE {k} :
            Navigate("sub", <<k>>, SubCwd(cwd, p, TRUE), home) /\ reached' = {}
              /\ UNCHANGED strayed

\* SubStorage(r, false): the caller names a new root, which is not gated.  An
\* object store takes it as it is, so only an r with a final slash is considered.
Reroot == \E r \in Roots :
  /\ Tidy(r) /\ (ObjectStore => r = FixPrefix(r))
  /\ Navigate("reroot", <<r>>, SubCwd(cwd, r, FALSE), AtDir(SubCwd(cwd, r, FALSE)))
  /\ reached' = {} /\ strayed' = FALSE

\* Mutant: the storages ListDir returns are not wrapped again.
ListDirBare ==
  /\ method = "none"
  /\ method' = "listdir" /\ asked' = <<>> /\ refused' = FALSE /\ reached' = Files(cwd)
  /\ \/ UNCHANGED <<cwd, guarded>>
     \/ \E c \in SubDirs(cwd) : cwd' = c /\ guarded' = FALSE
  /\ UNCHANGED <<setting, home, strayed>>

\* A prefix onto which path.Join does not put a key: it is not clean, and goes up.
GoesUp(c) == ~Tidy(c) /\ \E i \in DOMAIN c : c[i] = DotDot

\* ListDir; the caller stays, or goes on with one of the storages it returned.
ListDir ==
  /\ method = "none"
  /\ \E c \in {cwd} \cup SubDirs(cwd) :
       Navigate("listdir", <<>>, c, home) /\ strayed' = (strayed \/ GoesUp(c))
  /\ reached' = Files(cwd)

\* cleanPrefix of the directory storage: what is let through, as for the gates.
\* filepath.IsAbs wants a volume on Windows, hence the second test.
CleanPrefix(p) ==
  LET c == Clean(ToSlash(p))
  IN  IF p = <<>> THEN {<<>>}
      ELSE IF ~windows /\ IsAbs(p) THEN {}
      ELSE IF c = <<Dot>> THEN {<<>>}
      ELSE IF IsAbs(c) \/ Escapes(c) THEN {}
      ELSE {c}

\* directory.NewStorage(RootPath r, Prefix p): the caller opens another storage,
\* whose root must be a directory.  Until the call returns, its home is RootPath.
NewStorage == \E r \in Roots \ {<<>>}, p \in Keys :
  /\ kind = "fs"
  /\ method = "none"
  /\ \/ /\ CleanPrefix(p) = {}
        /\ method' = "new" /\ asked' = <<p>> /\ refused' = TRUE
        /\ UNCHANGED <<setting, cwd, guarded, home>>
     \/ \E c \in CleanPrefix(p) :
          Navigate("new", <<p>>, Join(Native(r), c), Place(Native(r)))
  /\ reached' = {} /\ UNCHANGED strayed

\* The next call may begin; a new storage's home is where it is.
Return ==
  /\ method # "none"
  /\ method' = "none" /\ asked' = <<>> /\ refused' = FALSE /\ reached' = {}
  /\ home' = IF method = "new" /\ ~refused THEN Place(cwd) ELSE home
  /\ UNCHANGED <<setting, cwd, guarded, strayed>>

Next == OneObject \/ Copy \/ Delete \/ DeleteAll \/ List \/ CopyAll \/ SubStorage \/ Reroot
          \/ ListDir \/ NewStorage \/ Return

Spec == Init /\ [][Next]_vars

-----------------------------------------------------------------------------
\* The reference: a walk through the segments of a key, counted rather than
\* carried out.

Walk(k) == SelectSeq(ToSlash(k), LAMBDA s : s \notin {Empty, Dot})
Depth(w, i) ==
  LET ups == {j \in 1..i : w[j] = DotDot}
  IN  i - 2 * Cardinality(ups)
Leaves(w) == \E i \in DOMAIN w : Depth(w, i) < 0

\* The names a walk that never leaves ends below: those it does not come back from.
Remaining(w) ==
  LET kept(i) == \A j \in i .. Len(w) : Depth(w, j) >= Depth(w, i)
      idx == SetToSortSeq({i \in DOMAIN w : w[i] # DotDot /\ kept(i)}, <)
  IN  [i \in DOMAIN idx |-> w[idx[i]]]

\* The place a key names in the storage at c.
Named(c, k) == [AtDir(c) EXCEPT !.names = @ \o Remaining(Walk(k))]

Gated == {"object", "copy", "delete", "deleteall", "list", "copyall", "sub", "new"}
NamesAnObject == {"object", "copy", "delete", "deleteall"}

\* NOT PROMISED: DeleteAll stays in the prefix, and so in the root, when the name of
\* an object there goes up.  Such a name is legal in a bucket or a container
\* (copy.go:267-268, docs/copy.md:72-74), and deleteKnown joins it: under the root
\* "p/", DeleteAll("x") with an object "p/x/../../q" deletes "q".
JoinedOutside(o) ==
  /\ ObjectStore /\ method = "deleteall"
  /\ \E k \in ObjectKey(asked[1]), n \in Stored :
       /\ HasPrefix(n, FullPrefix(cwd, k)) /\ \E i \in DOMAIN n : n[i] = DotDot
       /\ o = Addressed(FullPrefix(cwd, k), n)

\* guard.go:26-42: whatever keys a caller uses and however it navigates, every object
\* a call addresses lies in the root the caller named, and so does every storage it
\* is handed; a directory storage opened with a Prefix lies in its RootPath.
\* NOT PROMISED, though guard.go:39-40 says "navigating away from the root cannot
\* navigate out of the guard": what follows once ListDir of an object store has handed
\* out a prefix that goes up.  With an object "p/../q" ListDir under the root "p/"
\* returns a storage at "p/../" (s3/storage.go:287, azure/storage.go:273), and a key
\* joined onto that is outside.  `strayed' holds from then on, and in no other case.
Contained ==
  \/ strayed
  \/ /\ Within(AtDir(cwd), home)
     /\ \A o \in reached : Within(At(o), home) \/ JoinedOutside(o)

\* objectKey, listPrefix, clean, cleanPrefix: a call is refused exactly when one
\* of its keys is absolute, walks out of the storage at some point or, where an
\* object must be named, ends at the root; a refused call addresses nothing.
GateIsExact ==
  method \in Gated =>
    /\ refused <=> \E i \in DOMAIN asked :
                     \/ IsAbs(ToSlash(asked[i]))
                     \/ Leaves(Walk(asked[i]))
                     \/ method \in NamesAnObject /\ Remaining(Walk(asked[i])) = <<>>
    /\ refused => reached = {}

\* A call that is not refused addresses exactly the objects its keys name: what
\* the backend makes of them with Join, fixPrefix and prefix matching agrees with
\* the walk.  DeleteAll also addresses the object of the prefix's own name, and
\* misses or mistakes only objects whose names are not clean; what CopyAll writes has
\* the name of something it listed.  ListDir reports the files of the working
\* directory, its folder marker included, and leads to its sub-directories.  Of a
\* storage whose prefix ListDir took from an unclean name nothing is said.
ResolvesAsNamed ==
  [][LET named == {Named(cwd, asked'[i]) : i \in DOMAIN asked'}
         below == UNION {Below(d) : d \in named}
         whole == {o \in below : Clean(o) = o}
         here == AtDir(cwd)
         depth(x) == Len(x.names) - Len(here.names)
         same(x, d, y, e) == x = [d EXCEPT !.names = @ \o
                                    SubSeq(y.names, Len(e.names) + 1, Len(y.names))]
     IN  ~refused' /\ Tidy(cwd) =>
           /\ method' \in {"object", "copy", "delete"} => {At(o) : o \in reached'} = named
           /\ method' = "list" => reached' = below
           /\ method' = "copyall" =>
                LET src == Named(cwd, asked'[1])
                    dst == Named(cwd, asked'[2])
                IN  /\ Below(src) \subseteq reached'
                    /\ \A o \in reached' \ Below(src) :
                         \E n \in Below(src) : same(At(o), dst, At(n), src)
           /\ method' = "deleteall" =>
                /\ whole \subseteq reached'
                /\ below = whole => {At(o) : o \in reached' \ below} \subseteq named
           /\ method' = "listdir" =>
                /\ reached' = {o \in Below(here) : depth(At(o)) = 1} \cup Marker(here)
                /\ cwd' # cwd => Within(AtDir(cwd'), here) /\ depth(AtDir(cwd')) = 1]_vars
=============================================================================
