# storages in TLA+

A verification project for `github.com/greenmaskio/storages`: TLA+ models of the
parts of the library in which concurrency, failures and ordering decide whether
it is correct, TLC runs that check them on small instances, and TLAPS proofs of
the most important results for every instance.

    tlc -workers 2 -config Fs.cfg MCFsBackend          # one run
    tlapm FsBackendProofs.tla                          # the proofs of one module

## The system

The library is one interface, `Storager` (`storager.go`), five backends and two
wrappers. A `Storager` value is used from many goroutines; the bytes behind it
are shared with other programs. There is no process of the library's own: every
call runs in its caller's goroutine, and helps itself with goroutines that end
with the call (`writeAll`, the errgroups) or may outlive it (`AfterFunc`).

| Part | State | Operations | Hard behaviour | What makes it correct |
|---|---|---|---|---|
| `storager.go` | the objects | put, get, copy, delete, list | what one caller may see of another | an object is whole or absent; a put or a copy takes effect at once or never; a deletion that meets a missing path removes nothing; a range is exact and clamped; a listing is sorted and complete |
| `internal/fsbackend` (directory, in-memory) | a file tree, temporaries, open handles | `PutObject`, `Copy`, `GetObject`, `Delete`, `DeleteAll`, reads | calls interleave per filesystem call; a cancelled copy races its goroutine; kills; names vanish under a walk | it implements the contract; nothing writes to a file that has a reader; temporaries are accounted for |
| `ssh/sftp_lazy.go` | one cached connection, its error, `closed`, a channel as a lock | `Client`, `Close` | a ctx or a timeout that ends as the handshake does; a stalled host; Close racing a call | a cached client is live; no socket leaks; a cancellation is not cached; every call returns |
| `ssh/storage.go` | a tree on a server | as above, through SFTP | replacing a file may take two renames; dropped connections; other clients | an object is never lost while it is replaced; a call reports what it did |
| `copy.go` | the totals and the first error of one call | `CopyAll` | concurrent copies over overlapping trees; the first error cancels | every copy has the content that was listed; totals and error tell the truth |
| `s3/storage.go` | a bucket, open multipart uploads | `Copy`, `Delete`, `DeleteAll`, reads | the source changes between requests; lost answers; batches; pages; `Range` headers at the limits of int64 | a copy is one version, the one reported; uploads are aborted; deletions do what they say |
| `azure/storage.go` | blobs with background copies | `Copy`, deletions, reads | polling a copy that others supersede; abort | no copy goes on after Copy reported failure; the size is the copy's own; deletions do what they say |
| `encrypted` | none but the layout of a file | whole reads, ranges and sizes of encrypted objects | several requests for one read; chunk and int64 boundaries | exactly the bytes that were asked for, of one version; a failure is told as what it was |
| `guard.go` | the wrapped storage | gates the keys of every method, wraps what navigation returns; `directory.NewStorage` gates its `Prefix` | two layers normalise one string; long navigation | no key and no sub-storage leaves the root; the backend addresses what the gate looked at |

`CopyAll` calls `List` and `Copy` of the backend it runs on; every ssh operation
begins with `sftpLazy.Client`; `encrypted` turns a range read into `Stat` and
several range reads of the storage it wraps; azure falls back to `StreamCopy`,
which is `GetObject` and `PutObject`. The directory and in-memory storages are
the filesystem backend over two afero filesystems.

## The modules

Conventions: one step is one call to the filesystem, the server or the service,
because that is the grain at which others interfere. `pc[p]` names the call that
`p` makes next; `Begin` and `Return` start and end a call and reset what it held;
`res[p]` is how it ended. History variables are marked in the declarations. An
operator whose comment begins with "Mutant" is a plausible bug; no action uses
it, it serves to show that a property can fail. Failures are actions of their
own, so every request may fail at any time. "NOT PROMISED" in a comment marks an
action or an operator that stands for a case in which the code does not do what its
own documentation says; the section "Where the code does not keep its word" has
them all.

* **ObjectStore**: the contract. Nine variables, no temporaries, no handles: a
  put or copy is one `Install` step, a copy or read takes a value its source had
  during the call, deletions erase object by object. A `DeleteAll` succeeds only if it
  met (`Find`) or erased an object. `EndDeleteAllOfEmptyDir` is the one step that the
  contract does not allow; it is there for the filesystem backend.
* **FsBackend** (`internal/fsbackend/backend.go`): directory entries, inodes,
  handles, the goroutine of `writeAll`, temporaries and what RemoveAll does to
  them. An object's content is a sequence of pieces, so torn files are states of
  the model. `StoredObj` and `StoredTodo` map it to ObjectStore;
  `ImplementsObjectStore` is that instance's specification. Chmod and Rename of
  `renameIntoPlace` are one step, as a chmod of a temporary concerns nobody. Keys
  and directories are disjoint, so "the destination is a directory" is one of
  the reasons of `Fail`. The in-memory filesystem is assumed to keep an open
  file's data across a rename or removal as the operating system does.
* **SftpLazy** (`ssh/sftp_lazy.go`): every field, the lock, connect with its
  timeout and `AfterFunc`, including the deferred cancel that ends the timeout's
  ctx. The host may refuse, accept or stall at every step. `timed` says whether
  a ConnectTimeout is set and is chosen at the start. Its `LazySpec`, `lpc` and
  `Users` have names of their own because SshProofs extends both it and SshBackend.
* **CopyAll** (`copy.go`): `CopyListed`. Keys are sequences of segments. `queue` is
  the set of objects the loop has still to start; `NextOf` takes them in the order
  they were listed in. The copy of one object is what ObjectStore promises: it takes a value and installs it
  later, or fails.
* **SshBackend** (`ssh/storage.go`): requests to an SFTP server, which is
  external; `replaceFile` with all of its ways out, `removeAll`, dropped
  connections. Directories are one level deep; `moved` is what a directory that
  was renamed took along. `orphans` are the temporaries that a failed request or a
  dropped connection left behind and that no call holds (`Held`).
* **KeyPath** (`utils.go`, and of s3 and azure `TrimPrefix`, `Dirname` and
  `path.Join`): what becomes of the name of an object on its way from `ListDir`
  through `Walk` to `deleteKnown`. A name is the sequence of its segments, empty ones,
  `.` and `..` included, since any name is legal in a bucket or a container.
  `Addressed` is the name the request carries; it is the listed one if that is clean.
* **S3Backend** (`s3/storage.go`, `utils.go`): copies, multipart copies,
  deletions and the walk; the service is external and other clients write to the
  bucket. The ETag of an object is its content. The service gives an upload an id
  that no call knows (`Unused`). `PutObject` is one step: the SDK's
  upload manager behind it is external. `Objs` are the keys that the requests of a
  deletion name, after `Addressed`.
* **AzureBackend** (`azure/storage.go`, `StreamCopy` of `copy.go`): `Copy`,
  `PutObject`, `Delete` and `DeleteAll` with its walk. The service's background
  copies and the other clients are external. `erased` records what a call has
  deleted and `absent` what was missing at some time of it, so that a deletion's
  answer can be compared with both. `orphans` are blobs with a pending copy that no
  call waits for. As in S3Backend a listed name is joined again before it is deleted.
* **Reads** (all four backends): `GetObject`, `GetObjectRange`, `Stat` and
  `Exists`. The backends differ in how they reach one answer: fs and ssh open the
  file and ask for its size, s3 renders a `Range` header, azure sends an offset
  and a count and gets an empty success at the end of a blob. An object is a
  version and a length. That an open file keeps its version is
  `ReadersKeepTheirVersion` of FsBackend. How the services answer a range is
  external. The azure code hands offset and count to the SDK, which adds them in
  int64; a sum that wraps around (`CountWraps`) may be refused, or ignored so that all
  of the blob comes back (`AzureWrapped`).
* **Listing** (all backends, s3 with both pagings): `List`. fs reads a
  directory's names and looks at each later, ssh reads directories with
  attributes, the services answer page by page. Around it other callers create
  temporaries, rename them into place, upload, delete and remove directories.
  `stayed` and `were` record what was there for all, and for any, of the call.
  The tree is the constant `Above`: the directories above each name, of any depth.
  The final sort, the order of a directory's entries and how a service cuts its
  keys into pages are external.
* **EncRange** (`encrypted`): `GetObject` and `GetObjectRange`, their sources and
  the readers they return, over the layout arithmetic of `layout.go`, and the
  size `Stat`, `List` and `Copy` report. age is external: a chunk decrypts only
  as a whole, at its place, under its header's key.
* **KeyGuard** (`guard.go`, with `toSlash`, `fixPrefix`, `blobName`, `sub` and
  `ListDir` of the backends, and `cleanPrefix` and `NewStorage` of `directory`):
  a caller that holds one guarded storage, calls its
  methods with any keys and navigates. A call is one step. A string is the
  sequence of its segments, and a segment the sequence of its parts between
  backslashes, so path.Clean, path.Join and ToSlash are modelled by what they do.
  The properties compare them with a walk that only counts names and `..`.
  GetObject, GetObjectRange, PutObject, Exists and Stat do the same with their key
  and share `OneObject`. The roots a caller names on an object store are relative and
  clean; the names stored there are not, so `ListDir` also hands out prefixes such as
  `a//` and `a/../`, and `DeleteAll` joins such names (`Addressed`). An object store
  takes a name literally (`At`), a tree by the directory it leads to (`Place`).
  `strayed` records that ListDir led to a prefix that goes up. `NewStorage` may open a directory storage
  at any time; until it returns, the storage's home is `RootPath`, so that
  `Contained` is about the `Prefix` as well. Drive letters are left out.
* **MC…** modules give the instances; **FsBackendProofs**, **SshProofs** (with
  SftpLazy), **CopyAllProofs**, **S3Proofs**, **AzureProofs**, **ReadsProofs**,
  **EncRangeProofs** and **ListingProofs** hold the theorems.

## The runs

| Run | States | Shows |
|---|---|---|
| Fs | 627,000 | Puts, copies, reads, deletions and DeleteAll of two callers on two objects of one directory: objects are whole, temporaries accounted for, the goroutine is waited for, readers keep their version, and the contract is implemented. |
| Sftp | 73,000 | Two callers and a Close: the cache, the sockets and the liveness of every call. |
| CopyAll | 62,000 | Every subset of five names, four pairs of prefixes, two copies at a time: contents, totals, cause of an error, termination. |
| S3 | 1,177,000 | One caller and any number of other clients: versions, uploads, batches, and the walk over clean and unclean keys. |
| Azure | 209,000 | One caller and any number of other clients: pending, superseded, aborted and streamed copies, polls without a status, and deletions past a folder marker. |
| Ssh | 548,000 | A copy, a put and a deletion on one server: nothing is lost while it is replaced. |
| EncRange | 970,000 | Whole reads, all ranges and the sizes of all objects of up to three chunks, damaged and foreign ones too. |
| Guard | 339,000 | Every key of up to three segments, navigation of up to three levels, four kinds of backend, with and without backslash separators, unclean names in the bucket: containment, exactness of the gate, agreement of gate and backend, ListDir, the Prefix of a directory storage. |
| Listing | 3,196,000 | Five kinds of listing among writers and deletions: what stays is listed, once, in order, and nothing that was not there. |
| Reads | 393,000 | Every range of every object of up to three bytes on four backends, with replacements, directories and failures: the same bytes and the same errors everywhere but in the cases below. |
| CopyAllInverted | violated | see below |
| S3KeyErrors | violated | see below |

**Bounds.** The hazards are races of two calls, so two callers (three in Ssh,
where a deletion has to meet two writers; one in S3 and Azure, where the second
actor is the environment, which acts without bound). Two pieces per body and two
parts per upload are the least that can be mixed up. Two objects allow a copy,
an overwrite of its source and of its destination, and hard links. Three inodes
in Fs let two calls write at once beside one object, or one call beside two, and
leave a reader holding a file that is gone; two temporaries are what two callers
can hold. A killed call's leftovers then block further temporaries, which only
stops calls. The theorems hold without these bounds.
In Ssh every call is made once, so the run may stop (deadlock is not checked
there); five temporary names cover two per writer and one in the subdirectory. A
batch of two with three keys makes a second, partial batch. The keys in S3 are an
object beside a prefix of its name, one two levels below it, and a folder marker, a
`..` and an empty segment under the prefix. In Azure a folder marker lies beside its
blob one level below a prefix that has nothing directly in it; other clients copy
between the blobs that a call can address (`Copied`), and write and delete all of
them. Two copy ids are enough for a call's own and a later one. EncRange scales the
constants down (chunk 2, tag 1, header 2, whole objects up to 5 bytes, `MaxInt`
15, up to two bytes cut off) and keeps their order: header read size at most the whole-object size, so
that a chunk source's objects are longer than a header read.
Keys of three segments in Guard are the least that go down, up and out; a name
that begins with another (`a`, `ab`) is what tells a prefix of a string from a
prefix of a path. Among its objects are `a/../ab`, `a/a/../../ab`, `a//a` and `a/`:
one step up from a root, two steps up from a prefix in it, and two that stay.
Listing has four objects, one temporary in each of two directories of two levels,
and the folder marker; pages of one or two keys make up to four requests and may
end at the marker, and two writes in the course of one List are enough for a name
to vanish and come back. Names such
as `a/b` and `a.txt` sort differently in a walk and in a bucket (`WalkRank`,
`KeyRank`). Reads has offsets from -1 to past the end and the largest int64,
here 7, and three versions of an object.
`TypeOK` of FsBackend, S3Backend and SshBackend is listed by no run: it is the base of the
inductive invariants and is proved.
Symmetry is used in the runs without liveness properties only; the `View`s drop
what no later step can read.

**Fairness.** Sftp: a goroutine that can run runs (weak fairness of `Running`,
`Close`, `Fire`), and senders blocked on a channel are served in turn (strong
fairness of `Acquire`: the runtime queues them first in, first out). Nothing is
assumed of the host, of the callers' ctx or of the number of calls; the
properties hold because timers and ctx fire. CopyAll: goroutines run and every
copy ends, as its ctx bounds it. Azure: every request is answered or fails, and
the `select` sees a ctx that is done; nothing is assumed about how long a copy
stays pending.

### What the violated runs show

* **CopyAllInverted**: copying `a/b` to `a` copies `a/b/b/x` onto `a/b/x`; when
  `a/b/x` is read afterwards its copy has the wrong content and the original is
  gone. `nestedPrefix` handles the destination inside the source only.
* **S3KeyErrors**: `DeleteObjects` reports failures per key in a successful
  answer, which `deleteKnown` does not look at.

### Where the code does not keep its word

Each of these contradicts a line of the repository. The models contain the case, and
the property that it would break names it as its only exception, so that a run or a
theorem still says everything else.

* **DeleteAll of an empty directory** succeeds on the filesystem backends
  (`backend.go:517-529`: Stat finds a directory, RemoveAll removes it). `storager.go:76-77`
  says "An empty prefix is a *MissingObjectsError", and `storagetest.go:473` "Removing
  a prefix that holds nothing is an error". `ImplementsObjectStore` holds with the
  action `EndDeleteAllOfEmptyDir` and not without it.
* **DeleteAll joins unclean names** on s3 and azure. A folder marker `a/` is listed as
  `""` under `a/` (`s3/storage.go:293`, `azure/storage.go:267`) and joined back to `a`
  by `deleteKnown`: the object `a`, outside the prefix, is deleted and the marker
  stays; on azure the `BlobNotFound` of a missing `a` is passed over. `a/../x` is
  deleted as `x`, `a//x` as `a/a/x`, since Walk joins the Dirname of `a//`, which is
  `a`. Such keys are legal (`copy.go:267-268`, `docs/copy.md:72-74`) and CopyAll
  refuses them. `DeleteAllStaysUnderPrefix`, `DeletionsAreTold` and `Contained` say
  that nothing else is deleted or passed over.
* **ListDir leads out of the guard** on s3 and azure: with a stored key `p/../q`,
  ListDir under the root `p/` returns a storage at `p/../` (`s3/storage.go:287`,
  `azure/storage.go:273`), and every key joined onto that lies outside `p/`.
  `guard.go:39-40` says "navigating away from the root cannot navigate out of the
  guard". `Contained` holds until the caller takes such a prefix (`strayed`).
* **An azure copy without a status is not aborted**: a poll with the copy's id and no
  `CopyStatus` ends the call with an error (`azure/storage.go:514-517`), while
  `azure/storage.go:503` wants it "so a Copy that reports failure does not still change
  dst". `PollNoStatus` is that exit; `NoCopyLeftRunning` says that only it, a start
  without an answer and a failed abort leave a copy behind.
* **An azure range whose end overflows**: offset and length go to the SDK unguarded
  (`azure/storage.go:303-310`), where s3 has a guard (`s3/storage.go:394`).
  `storager.go:60` promises the clamped range. `WrapsOnAzure` is the exception of
  `ReadsTheRange` and `ErrorsAreTold`.
* **A directory counts as an object** in `Exists` and `Stat` of fs and ssh, and
  `GetObject` of one succeeds until it is read; `storager.go:89` says "Exists reports
  whether fileName is an object". `DirectoryAsObject` in `ErrorsAreTold`.
* **ssh takes every failed open for a missing object**, a dropped connection included
  (`ssh/storage.go:229-233`, `257-261`), against `errors.go:8-9`.
  `FailedOpenAsMissing` in `ErrorsAreTold`.
* **A range stream that begins behind a shortened object** is reported as
  `ErrInvalidRange`; `encrypted/range.go:70-71` says "an object shorter than its Stat
  said is ErrCorruptObject". `ShortAtStream` in `FailuresAreTold`.

Other observations:

* `List` of fs and ssh reports the temporaries of puts in flight as objects
  (`ListsWhatStays` asks for files, not for objects), so a concurrent `CopyAll`
  may copy one, or fail when it has been renamed away.
* An azure copy that is done at once has its size read from the destination
  without comparing the copy id; another client's write in between is then
  reported as this copy's size. `PolledSizeIsOwn` covers the polled path only.
* `SubStorage("data", false)` of s3 and azure keeps the prefix without a final
  slash, so `ListDir` reports siblings such as `database` and not the files of
  `data`; `List` adds the slash and is right. `ResolvesAsNamed` fails as soon as
  `Reroot` in KeyGuard lets such roots through.
* A directory that another client creates between `replaceFile`'s check and its
  rename is moved aside with its contents, and so is one that `PutObject` did not see
  because its Stat failed (SshBackend reaches the state).

## The proofs

All proofs are for arbitrary constants, from the assumptions the modules name:
sets that are disjoint, `None` and other marks that are not values, bounds that are
positive numbers, `DirOf` a function from names to directories that are at most as
deep as the model says, keys that are sequences of strings, a tree in which the
directories above a name are a chain, ranks that differ, the layout's sizes positive
and the header within the first read. They hold for any
number of callers, so also where a run has one caller (S3, Azure). Every inductive
invariant was checked with TLC on the instance of its run before it was proved.

**FsBackendProofs.** `Inv` adds to `TypeOK` what a call holds at each step
(`CallInv`), that the inode a call writes to is nobody else's, neither as an
object, a handle nor a temporary (`OwnerInv`), that it contains a prefix of the
body and all of it before the rename (`ContentInv`), and that temporaries belong
to one call (`TempInv`). `OwnerInv` is the heart: it is why a reader's file is
never written to and why a rename installs a whole body.

`Refinement`, in the same module, is `Spec => ImplementsObjectStore`. It needs two
more parts: what a deletion has still to do (`DeleteInv`) and that an entry's
directory exists (`DirInv`: RemoveAll only succeeds on an empty directory). One
lemma per action shows the step of ObjectStore it is: `Rename` is `Install`, the
last `Look` before it the `Capture`, writing pieces and making temporaries are
stutters, `CopySame` on one inode is an `Install` of the value already there.

**SshProofs.** `Inv` has ten parts. What a call holds at each request (`CallInv`);
names that calls hold are distinct (`OwnInv`); the shape of the tree, with a
temporary in one place only, also when the directory it was in has been renamed
(`TreeInv`, `PrevInv`); the temporary of a call is complete from the moment it is
closed (`TempInv`, from which `WholeObjects` follows); what was moved aside is the
destination's previous file (`AsideInv`). `ReplacedNotLost` is not inductive: a
second writer may be about to remove the file that keeps the object. `KeptInv`
says that an object is in its place or under a name that no call is about to drop.
That is the order of `replaceFile`: the file moved aside is dropped after the new
one is in place. One lemma per effect on the tree (a file made, filled, removed,
renamed, a directory moved away or back) shows that the parts survive it.

**SftpLazy in SshProofs.** None of the properties is inductive. `LazyInv` adds: the holder of
the lock is exactly the caller between `locked` and `unlock` (`LockInv`); what an
attempt owns at each of its steps, and that its error agrees with the cause of
its ctx (`AttemptInv`, `HealthInv`); for every connection which states of socket
and `AfterFunc` go together (`ConnInv`); what is cached was made by an attempt
whose `AfterFunc` was stopped (`CacheInv`). `CachedClientIsLive` needs all of it:
the only step that could close a cached connection is `AfterClose`, and `stop()`
has disarmed it before `Record`. `NoSocketLeaks` and `OneConnection` follow from
`ConnInv` and the lock.

**CopyAllProofs.** `ShareInv`: what was chosen is in the queue or has been begun,
never both, up to the return. With `ErrorInv` (the group has an error once a copy
failed, and its error is a cancellation only when the caller's ctx ended) and
`CountInv` this gives `CountsItsCopies` and `CauseIsReported`: `Wait` returns when
the queue is empty and nothing is in flight, and without an error nothing failed.
`CopiesTheListedContent` needs an assumption, that no source lies strictly inside
its destination, because without it the property is false (run CopyAllInverted).
The argument is `Apart`: a key that is still to be read is nobody's destination.
`nestedPrefix` is what makes it true when the destination lies inside the source.

**S3Proofs.** The parts that are done are pieces of the version whose ETag the call
pinned (`PartsInv`), and an upload is in the hands of one call from its creation
to its end (`UploadInv`); so no upload mixes versions, and parts only go to an open
upload. `UploadInv` found that the model once let the service give out an id that
another call still held for an upload that was gone; `Unused` excludes it.
`DeletesWhatItNamed` is proved for a service that fails no single key of a
successful request (`~KeyErrors`; otherwise it is false, run S3KeyErrors).
`DeleteAllStaysUnderPrefix` is proved for keys of any shape. Its invariant `WalkInv`
says that the directories a walk has still to list, and the keys it has found, lie
under the prefix; what is deleted is `Addressed` of one of those keys, which is the
key itself if it is clean.

**AzureProofs.** `PolledSizeIsOwn` rests on the copy id: a blob that still carries
the id a call polls for holds, or will hold, what that call copied (`OwnInv`),
because every write by others changes the id and ids are not given out twice.
`NoCopyLeftRunning` is inductive once every exit of `awaitCopy` is accounted for: the
step that ends a call either finds its copy ended or superseded, or leaves it in
`orphans`. `DeletionsAreTold` needs `DeleteInv`: nothing is deleted before everything was
checked, and what was found missing or is done with was gone at some time. A name
that was listed and is clean is the one that is sent (`CleanAddressed`).

**ReadsProofs.** The four backends compute the end of a range in four ways.
`SpanInv` says that they come to the same span, from the offset to the clamped end;
the lemmas `HeaderClamps`, `CountClamps` and `ServeS3Clamps` are that arithmetic
for the `Range` header, azure's count where it does not wrap around and the answer of s3, and `ClampIsWanted`
that the span holds exactly the positions which `ReadsTheRange` asks for. It is
assumed that an object is shorter than the largest int64.

**EncRangeProofs.** First the layout, for every chunk, tag and header size, from
quotients and products alone: how many chunks a plaintext has, that the stored size
determines it (`SizeOf`, `SizeBack`, which are `SizesInvert`), that stored sizes and
the places of chunks grow with their numbers, and which chunk holds a byte
(`ChunkAt`). Then `Inv`: what the call knew when it planned its regions (`RangeInv`),
what each request brought and from which object (`RequestInv`), how far the reader
age drives has come (`ReadInv`, `PlainInv`), and what Stat saw (`StatInv`). The
argument for `RangeIsExact` is that the planned stream and the final chunk hold every
chunk the range touches, that chunks are delivered one after the other from the first,
and that a chunk of another version decrypts under no header but its own. For
`FailuresAreTold` it is that all of this fails only if the object is not the one
whose size was read. Assumed: the mark of a missing object is no object.

**ListingProofs.** In a tree, `CoverInv`: every name that stays is collected or lies
under something that the walk has still to look at; it needs that files keep their
directories (`WorldInv`) and that what is left to look at never overlaps and never
contains what is collected (`ApartInv`), which is also why no name is listed twice.
All three tree steps (`Lstat`, `ReadDirNames`, `ReadDir`) replace one directory by its
children, so they share the lemma `WalkStep`. What vanished under the walk covers
nothing that stays, so skipping it is right; that is the comment at
`backend.go:263`. In a bucket, `PageInv`: the pages so far are in order and hold
all that stays up to the key they end at. `SortRow` shows that the final sort is an
arrangement in order; it becomes strict as no name is collected twice.

Only model-checked are:

* the liveness properties (`CallsReturn`, `CancelledCallsReturn`,
  `CloseReleasesAll`, `Terminates`, `CancelledCopyReturns`): fairness is out of the
  prover's reach;
* the properties of KeyGuard: `path.Clean` is a fold over the segments of a key,
  and what it computes for every key needs an induction over sequences, which the
  installed provers cannot do.

## Not modelled

Client construction, authentication, configuration defaults and validation and
logging: straight-line code that keeps no state, or that is the SDKs'. Creating a
directory storage's missing prefix (`ensurePrefix`), `Ping`, `Dirname` and
`GetCwd`. Storages built `WithUnsafe`, which promise nothing about keys. The
upload managers behind `PutObject` of s3 and azure, the SDKs, afero and age beyond
what the code relies on. `PutObject` of `encrypted`, which hands the body to age's
encrypting reader and that to the store. The conformance suite and the examples.

## Plan

1. S3 and SSH against ObjectStore, where they implement it: a lost answer makes a
   call fail that has taken effect, so the contract needs a weaker `Fail`.
2. CopyAll over Listing, in place of its atomic listing.
