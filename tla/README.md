# kubefs: verification development

kubefs mounts a Kubernetes cluster as a file system: namespaces, resource
types and objects are directories, an object's `yaml`, `json`, `describe`,
`logs` and `data/KEY` are files, and saving, creating and removing them calls
the API server. This directory holds TLA+ models of it, the TLC configurations
that check them on small instances, and proofs checked by TLAPS.

## The system

| Component | Source | State | Operations |
|---|---|---|---|
| Inode table | `internal/kubefs/inode.go` | `inodes`, `childIndex`, `nextID` under one RWMutex | Get, LookupChild, Children, AddChild, RemoveChild, RemoveChildren |
| FS, directories | `internal/kubefs/fs.go` | none of its own; the table and the client's cache | Lookup, Children, Remove, CreateAndOpen; each listing call repopulates the directory |
| FS, handles | `internal/kubefs/fs.go` | `nextHandle`, `openFiles` under `handleMu`; the fields of an `openFile` under no lock | OpenFile, ReadHandle, WriteHandle, Truncate, FlushHandle, ReleaseHandle |
| FS, content | `internal/kubefs/fs.go`, `content.go` | `contentCache` under `contentMu` | FetchContent, GetContent, ApplyContent, CreateContent |
| Client | `internal/k8s/client.go` | the TTL cache | lists, reads, CreateObject, ApplyObject, UpdateObjectDataKey, DeleteObject, InvalidateObject |
| TTL cache | `internal/k8s/cache.go` | `entries` under one RWMutex | Get (which takes the lock twice), Set, Delete |
| Verbs | `internal/kubefs/verbs.go` | constant after start | ParseVerbs, ReadOnly |
| FUSE adapter | `internal/fusemount/mount.go` | go-fuse's node tree | one method per FUSE request |
| NFS adapter | `internal/nfsmount` | `handles` | billy calls by path; mount, unmount |
| Command, daemon | `cmd/mount.go` | parent and child process, status pipe, signals | mount, daemonize, serve |

The adapters call FS from many goroutines at once. FS calls the inode table
and, through ContentProvider, the client; the client asks its cache and then
the API server. No lock is held over two of these calls: that is where the
difficulty is. A Lookup is a request to the API, a cache fill, one AddChild
per name, a RemoveChildren and a LookupChild, and any other call's steps come
in between. A save reads a buffer other goroutines write, sends it, and then
clears `dirty` and drops entries from two caches that reads may refill.

What makes each component correct:

* inode table: two maps, one forest; an ID keeps its meaning; a removal takes
  the subtree (`IndexConsistent`, `InodeIdentity`, `RemovalTakesSubtree`);
* directories: a call finds what it listed, what rmdir removed stays away,
  and where the code does not keep that, it takes another call to break it
  (`MissedOnlyIfOverlapped`, `RisenOnlyIfOverlapped`, `DeletedStaysDeleted`);
  no inode is left where no walk and no removal reaches it, but by a race
  (`OrphansAreRaced`); the table is used as its methods allow (`TableSteps`);
* handles: what was written is saved or its writer hears that it was not
  (`LostOnlyIfLate`, `NoSilentLoss`, `FlushCoversOwed`, `LastContentIsSaved`);
  unsaved writes are nobody else's (`UnsavedIsPrivate`); the checks of write
  and flush agree (`DirtyIsAllowed`); a created file can be written
  (`CreatedIsWritable`);
* content: a save is visible to the reads after it (`ReadYourQuietWrites`,
  `ReadYourWrites`, `SiblingsCatchUp`) and staleness is bounded
  (`BoundedStaleness`);
* client: saves are atomic, each on the state it was made from, whoever else
  writes the same object (`SavesAreAtomic`); a text is saved once
  (`TextSavedOnce`); the cache forgets what was saved (`CacheSeesQuietSaves`);
* NFS adapter: a request that is served alone finds what its walk found
  (`NilOnlyIfRaced`) and what a request before it created
  (`CreatedIsReached`); what WRITEs made is in the object (`WritesTakeHold`) or
  was reported (`NoSilentLoss`, `LeftBehindIsReported`), and a length that was
  set is in the object too (`LastContentIsSaved`);
* daemon: the parent's verdict is true and comes (`VerdictIsTrue`,
  `ParentReturns`); the server unmounts before it ends and ends when it is
  asked to (`EndsUnmounted`, `SignalStops`, `UmountStops`).

## Modules

| Module | Models | Role |
|---|---|---|
| `InodeTable` | `inode.go` | one action per method; its `TableNext` is what the steps of `Directory` implement |
| `Directory` | directory half of `fs.go`, lists of `client.go`, `cache.go` | extends `InodeTable`; one step per lock held |
| `OpenFiles` | handle half of `fs.go`, `content.go`, the FUSE handle methods | a flush is a sequence of steps |
| `ContentPath` | `FetchContent`, reads and updates of `client.go`, `cache.go` | two caches and a clock |
| `ObjectStore` | what `client.go` promises who saves | abstract: saves that take effect at one moment |
| `ClientWrites` | the writing half of `client.go`, the API's resourceVersions | implements `ObjectStore` |
| `BillyFS` | `nfsmount/billy.go` | extends `OpenFiles`: NFS requests over its handles |
| `Daemon` | `cmd/mount.go`, Mount, Unmount and Wait of `nfsmount/server.go` | processes, pipe, signals |
| `InodeTable_proofs` | | theorems about `InodeTable` |
| `Directory_proofs` | | theorems about `Directory`, on those of `InodeTable_proofs` |
| `OpenFiles_proofs` | | theorems about `OpenFiles` |
| `BillyFS_proofs` | | theorems about `BillyFS`, on the invariant of `OpenFiles_proofs` |
| `ContentPath_proofs` | | theorems about `ContentPath` |
| `QuietSaves_proofs` | | theorems about reads after saves, on the invariant of `ContentPath_proofs` |
| `ClientWrites_proofs` | | theorems about `ClientWrites`, the refinement of `ObjectStore` with them |
| `Daemon_proofs` | | theorems about `Daemon` |
| `MC...` | | instances for TLC |

### InodeTable

`inodes`, `childIndex`, `nextID` are the fields of the same names. `node` is
the heap: an `*Inode` lives on after its removal while a goroutine holds it,
and since an ID is allotted once, pointer and ID are the same. Each method is
one step, as `t.mu` is held for all of it. `AddChild` re-creates the entry map
of a parent that has been removed, as the code does. `RemoveSubtree` gives the
least set closed under the index, which is what the recursion of
`removeSubtree` visits; `RemoveChild` and `RemoveChildren` share
`RemoveNames`. `TableNext` lets a caller name any inode ever allotted as the
parent, removed or not, because that is what callers of the table hold, and
the types of child that `fs.go` adds below each type of directory.

### Directory

A thread's `call` has the step it is at. `Lookup` and `Children` go through
list (ask the cache), api (ask the server), fill (`cache.Set`), add (one
`AddChild` per step, in any order), `RemoveChildren`, read. `Remove` of a
directory goes through delete, the two invalidations of listings
(`InvalidateObject` deletes key by key; the keys of contents are in
`ContentPath`), and `RemoveChild` by name. `Remove` does not ask what kind of
child an unlink names: its callers do, some time before, and so an unlink takes
whatever has the name by then. Listings are sets of names; a
request may fail at any time; an entry may expire at any time (`Expire`),
which allows every timing the TTL allows and more. The API server's state is
`cluster`. A delete takes effect at once: finalizers and grace periods would
keep an object listed after rmdir for reasons outside this code.
`ClusterChange` is everybody else. History: `deleted` has what rmdir removed
and whether another call ran meanwhile, `raced` the directories removed while
a call worked in them, `hidden` whether an unlink took a name that the API
lists, `alone` and `dead` in a call how it ran and whether the object it looks
up was deleted before it began and has not come anew since, and `result` what
the step that ends a call has to say of these. A name belongs to the API and
to creates at once: an object may be called `x.yaml`, and then has the entry
of a created file for its own.
Which names are `.yaml` or `.json` files is the constant `FileNames`.

### OpenFiles

A file is a sequence of blocks; a block is where it came from: the cluster, an
error text, a hole, or the number of a write. `WriteHandle`, `Truncate`,
`OpenFile` are steps; `FlushHandle` is begin (take the slice), one step per
block read, the API's answer, and the end that clears `dirty`. There is no
lock between a flush and a write of the same handle: the data race is the
nondeterministic choice, block by block, of the bytes the flush reads. When a
write grows the buffer, the flush keeps the old array. What the kernel
guarantees is external and modelled from what the adapter relies on: WRITE,
SETATTR and FSYNC of one inode are one at a time, FLUSH is not, each close of
a descriptor sends FLUSH and RELEASE follows the last. `Dup` stands for dup(2)
and fork(2). The content cache is one step here; its steps are in
`ContentPath`. History: `applied` are the writes an update has carried to the
API, `late` those accepted while a flush of their handle was under way, `lost`
those that were in a buffer at its release and neither applied nor reported,
`refused` the writes refused and why, `unsaved` whether a handle that was not
dirty went with other content than it was opened with or saved last.

### ContentPath

One object with its files, each with one inode for the whole run (an object
removed and listed anew has new inodes, and `contentCache` nothing of theirs);
content is the version it was read at. A read is
FetchContent's check of `contentCache`, the client cache's `Get` (two locks),
the request, `Set`, and the store into `contentCache`; a save is the update
(with the fresh read of `UpdateObjectDataKey` first, for data files), the
deletes of `InvalidateObject` one by one, and the delete of the file's own
entry. `MaxLatency` bounds the time a call takes from its first cache miss;
the code has no such limit, so `BoundedStaleness` is relative to it. History:
`died` has when each version was replaced, `saved` the saves that returned
success and whether they were quiet (no fetch was under way at the update, and
none that missed `contentCache` began before the save returned), `must` in a
call the versions it has to see, `served` how the read that ends in a step
compares with these.

### ClientWrites and ObjectStore

`ClientWrites` has what a save carries: an object of the API is its
resourceVersion and a value per key, a text that is open in a handle is the
object it was read as (`base`), the keys that were changed (`edits`), and the
name in its metadata, which the writer may change. A call is begin, perhaps a
read (`UpdateObjectDataKey`), the request, and the return with its
`InvalidateObject`; between any two of them other handles and other clients
write, and the answer may be lost. The client's cache has the texts, filled
some time after the API answered. `DeleteObject` and `CreateObject` are calls
of the same kind; the listings they drop are in `Directory`.

`ObjectStore` is the promise: a save has an effect on the keys it names, at
one moment between its begin and its return, on the state of that moment, and
returns success only after it. `ClientWrites` implements it with `store` the
objects without their revisions and `save` the call without its requests
(`SaveOf`): an edit of some keys when the resourceVersion came along, a
replacement when the writer took it out, which is what the API is asked to do
then.

### BillyFS

Each NFS request walks its path anew and opens, uses and closes a file of its
own, through the actions of `OpenFiles`, whose descriptors are here the
requests. The walk is cut to its last name (`Directory` has whole walks):
list, which takes from the table what is not listed, look up, `GetInode`
again. `gone` are the objects removed from the cluster and the files not
created yet, `live` the inodes of the table. `Stat` fetches and stores the
content in two steps, so that a save may come between. A CREATE is
`CreateAndOpen` and a Close; the WRITE that follows is a request like any
other. `Close` returns a flush error before it releases the handle, and an
error of `Write` (EPERM) or `Truncate` (EROFS, ENOENT) is returned to go-nfs,
which then answers the request without any Close: the handle stays (`Leaves`).
History: `failed` has the handles whose request was answered with an error,
`posix` is the file as the answered requests should have made it,
`excused` the files of which it cannot be asked, because two requests to the
file overlapped, a length was set, a fetch failed before a WRITE (the error
text is the content then), or an update was made and its answer lost.

### Daemon

The parent of `mount` (`daemonize`), the child that mounts, the mount command
of the NFS transport, and the goroutine that takes signals, for `fuse`, `nfs`
and an unknown transport, in the background or with `-f`. `WriteEndOpen` has
who holds the write end of the status pipe: the child until it has reported,
and the mount command, which inherits it. A signal kills until
`signal.Notify`; then `sigCh` has room for one. From outside: death at any
moment, signals, an umount by hand.

## Runs

Passing runs:

| Run | Properties | Bounds |
|---|---|---|
| `directory` | `DirTypeOK`, `IndexConsistent`, `OrphansAreRaced`, `MissedOnlyIfOverlapped`, `RisenOnlyIfOverlapped`, `InodeIdentity`, `RemovalTakesSubtree`, `TableSteps` | 2 threads, 2 calls, 1 change, 10 inodes, which two calls never use up: each pair of calls in each interleaving, with a data directory, a file `x.yaml` that a create left, an object of that name that may leave, the listing cached or not |
| `open_files` | `TypeOK`, `DirtyIsAllowed`, `UnsavedIsPrivate`, `FlushCoversOwed`, `LostOnlyIfLate` | 2 descriptors on two handles or on one, 2 writes, 2 blocks: writes inside and past the slice under flush; a `yaml` file and a created one |
| `content_path` | `TypeOK`, `ReadYourQuietWrites`, `SiblingsCatchUp`, `BoundedStaleness` | 2 threads, 2 files, 2 updates, both times to live 1, clock to 2, requests that take no time: a save and a read after it and one more writer, entries that live and that expire. The latencies in `BoundedStaleness` are left to its theorem; `content_race` has a latency of 1 |
| `client_writes` | `TypeOK`, `TextSavedOnce`, `CacheSeesQuietSaves`, `SavesAreAtomic` | 2 handles, 2 objects, 2 keys, 2 values written, 3 changes: two saves of one object and a third change between or after them, a text that names the other object, an object removed and created anew |
| `billy_fs` | `BillyTypeOK`, `NilOnlyIfRaced`, `LeftBehindIsReported`, `WritesTakeHold`, `NoSilentLoss` | 2 requests at a time, 3 in all, 2 writes, 2 blocks, a data file and a created one, every verb or none (then SETATTRs and WRITEs are refused): a STAT or a WRITE that overlaps a WRITE, and a request after both |
| `daemon` | `TypeOK`, `VerdictIsTrue`, `EndsUnmounted`, `ParentReturns`, `SignalStops`, `UmountStops` | everything, with 3 signals: one handled, one in `sigCh`, one dropped |

The directory runs start after a walk to one resource type directory with one
object and a created file; a second object, of that file's name, is there and
may leave (`directory`) or is not and may come (`directory_risen`). The properties of the inode table itself
are checked there, through the calls the system makes, and proved for any
sequence of method calls. Each property of a passing run is broken by a
seeded fault of the module (the operators named `Seeded...`, used by no
specification).

Violation runs, each a disagreement between the code and something the
repository says (PROJECT.json quotes it):

| Run | Property | What happens |
|---|---|---|
| `directory_risen` | `DeletedStaysDeleted` | a listing asked for before a delete is cached after it |
| `open_files_loss` | `NoSilentLoss` | `dirty` is cleared over a write that came in during the flush |
| `billy_truncate` | `LastContentIsSaved` | a SETATTR of the length is answered with success and not saved |
| `billy_create` | `CreatedIsReached` | the walk of the WRITE takes the file that CREATE made from the table |
| `open_files_create` | `CreatedIsWritable` | a created file takes no write |
| `content_race` | `ReadYourWrites` | a read during a save restores the old content to both caches |

Three of them have a passing counterpart that says what it takes to break the
property: `RisenOnlyIfOverlapped` (another call ran during the rmdir),
`LostOnlyIfLate` (the write came during a flush of its handle) and
`ReadYourQuietWrites` (a fetch overlapped the save). `MissedOnlyIfOverlapped`
is of the same kind: a Lookup may say ENOENT of a name its own listing had,
but only when another call ran with it, and when the cluster changed or an
unlink took a name that the API lists. Over NFS
`NoSilentLoss` holds, since each request has a handle of its own.
`LastContentIsSaved` is violated there by one client alone: the SETATTR of a
length opens the file, cuts the buffer, closes it as unmodified and succeeds.
`WritesTakeHold` excuses files whose length was set for that reason, and the
other files of `excused` because the code really loses there: overlapping
WRITEs of one file undo each other, a WRITE after a STAT that overlapped a save
may start from the old content, and a WRITE into the error text of a failed
fetch saves that text. `CreatedIsReached` and `CreatedIsWritable` are two
separate reasons why create, write and save do not make an object: over NFS the
WRITE does not reach the file, and over FUSE, where the handle of the create is
still open, it is refused.

What the properties except, they say nothing of. The hazards that are left
without a property are listed with their reason in PROJECT.json: a flush that
sends a mix of two states of the file, overlapping WRITEs and STATs, a data key
saved twice after a lost answer, a signal before `signal.Notify`, an umount
that hangs.

Runs that set `CHECK_DEADLOCK FALSE` stop because the bounds on calls,
changes, writes or the clock are used up. Symmetry is over threads or
descriptors, and never used with a liveness property.

**Fairness.** Only `Daemon` assumes any: weak fairness of the steps of the
parent, of the child's main goroutine and of its signal goroutine (processes
run), and of the end of the mount command; an umount may hang, and nobody has
to signal, kill or unmount. The other specifications state safety only.

## Proofs

`InodeTable_proofs` proves for every set of names and every bound `MaxID`:

* `TableTypeCorrect`: `TableSpec => []TableTypeOK`;
* `IndexStaysConsistent`: `TableSpec => []IndexConsistent`;
* `InodesKeepIdentity`: `TableSpec => InodeIdentity`;
* `RemovalsTakeSubtrees`: `TableSpec => RemovalTakesSubtree`.

The only assumption is `MaxIDAssumption`. The inductive invariant is
`TableInv == TableTypeOK /\ IndexConsistent`; TLC checks both conjuncts in
`directory`. `IndexConsistent` is stronger than what a caller sees for two
reasons. Its clause that an entry leads to an ID greater than the directory's
keeps the root out of every removed subtree (without it the index could have a
cycle through the root). Its clause that each live inode is listed by its
parent makes removal complete: if a directory is in the set that
`removeSubtree` visits, so is every live inode that has it as its parent.
`RemoveSubtreeFacts` derives from the least-set definition that the visited
set is closed, leaves the root alone, and holds nothing but the named children
and inodes whose parent it holds; `RemoveNamesFacts` and `AllotsFacts` restate
the two kinds of step as facts about single entries, and the preservation
lemmas use only those.

`Directory_proofs` proves for any threads, names, verbs, resource types,
cluster and number of calls:

* `DirTypeCorrect`: `DirSpec => []DirTypeOK`;
* `DirectoryUsesTable`: `DirSpec => TableSteps`, so `Directory` implements the
  table, and with it `DirectoryKeepsIndex`: `DirSpec => []IndexConsistent`,
  `DirectoryKeepsIdentity`: `DirSpec => InodeIdentity`, and
  `DirectoryTakesSubtrees`: `DirSpec => RemovalTakesSubtree`;
* `OrphansOnlyByRace`: `DirSpec => []OrphansAreRaced`;
* `DeletedAloneStaysDeleted`: `DirSpec => []RisenOnlyIfOverlapped`;
* `NamesMissedOnlyByOverlap`: `DirSpec => []MissedOnlyIfOverlapped`;
* `CallsMoveOn`: `DirSpec => [][MovesOn]_vars`: each step of a call takes it to
  a later place or past one more name of a listing it has fixed by then, and
  nobody else's step sets it back. No call waits for another one, so that this
  is all there is to the end of a call but for a scheduler that runs it.

The assumptions are `DirectoryAssumption` and `MaxIDAssumption`. The invariant
`DirInv` is that of the table with what a call holds while others run
(`CallsOK`): a call works in an inode once allotted, removed since or not, and
its type is still the one the call saw, since Inodes do not change; so each
child it adds has a type that belongs there, which is what `TableNext` asks.
Each action is first shown to be a table step that keeps `CallsOK` against the
heap before the step (`StepOK`), and `HeapGrows` carries that over to the heap
after it. For the orphans the invariant gains `RacesNoted`: a call that may
still add works in a live directory or in one whose removal noted the race.
That no orphan comes from a removal alone is `TakesSubtree`, proved for the
table.

The last two compare what one call sees at its end with what others did, and
the property says nothing of the way there. `WorkInv` places the calls: each
is at a step of its own operation, in a directory that step is for, and a call
that counts as alone is the only one. `RisenInv` is about an object whose
rmdir ran alone: it is in no listing, not the API's, not the cache's, and not
the one any call has asked for and not yet used (`Unlisted`). Nothing weaker is
inductive, because a listing in any one of the three places gets into the
others; it holds at the end of the rmdir because nobody listed during it and
the listing was dropped before the entry (`Dropped`). A lookup of such an
object keeps that until somebody makes it anew, and once it has pruned the
directory the entry is gone (`DeadOK`). `MissedInv` has the two reasons a call
finds all its names. If it is alone, what it has added is still there
(`Added`). If nothing has changed and no listed name was unlinked (`Settled`),
cache, calls and cluster have one and the same listing of each directory, so
that no prune takes a listed name, and every directory or object in an entry
map is listed below its parent, so that none goes with its parent either
(`CacheAgrees`, `CallAgrees`, `DirsAgree`). The proof is in two halves: `Flow`
says of a step where each listing, entry, deletion and answer after it came
from, and is shown action by action (`NextFlow`); that the invariants are kept
follows from `Flow`, with no look at the actions but `Prune`, `Unindex` and
`Read`.

`ContentPath_proofs` proves for any threads, files, keys, times to live,
latency and clock:

* `ContentTypeCorrect`: `Spec => []TypeOK`;
* `StalenessIsBounded`: `Spec => []BoundedStaleness`.

The assumption is `ContentPathAssumption`. The inductive invariant
`ContentInv` follows a version along the way it takes: what a request
returned was current when its call began; what the client's cache holds was
current `CacheTTL + MaxLatency` before the entry expires; what a call is about
to store was current `CacheTTL + MaxLatency` before that call began; what
`contentCache` holds was current `CacheTTL + 2 * MaxLatency` before it was
stored. `CurrentAt(v, x)` says that `v` was the current version at `x` or
later, and an update, whenever it comes, keeps it for every `x` up to now.

`QuietSaves_proofs` goes on, with the same assumption, to

* `QuietWritesAreRead`: `Spec => []ReadYourQuietWrites`;
* `SiblingsSeeQuietWrites`: `Spec => []SiblingsCatchUp`.

Neither property is inductive: each speaks of one read at its end. The
invariant `QuietInv` follows the save. While a quiet saver is at work no thread
fetches, so each key it has deleted stays deleted, and at its return
`Client.cache` is empty of the object (`Undisturbed`). From then on no version
older than the save enters the client's cache (`ClientSees`) or a call
(`CallSees`), and what `contentCache` has of an older one belongs to another
file and was stored no later than the save returned (`EntrySees`): that is why
a sibling catches up after `ContentTTL` and not before. That the newest of a
set of versions is one of them (`NewestOf`) follows from the library's theorem
on well-founded relations.

`OpenFiles_proofs` proves for any descriptors, files, kinds, verbs and bounds,
from `OpenFilesAssumption`:

* `OpenFilesTypeCorrect`: `Spec => []TypeOK`;
* `WritesAreAllowed`: `Spec => []DirtyIsAllowed`;
* `UnsavedStaysPrivate`: `Spec => []UnsavedIsPrivate`;
* `FlushSavesWhatItOwes`: `Spec => []FlushCoversOwed`;
* `OnlyLateWritesAreLost`: `Spec => []LostOnlyIfLate`.

The inductive invariant follows a written block from the buffer to the API. A
flush that is reading finds each block it owes either in what it has read or
at the same place in the slice it has yet to read, whether the buffer shares
that slice or has grown away from it, and a cut only takes blocks from the
buffer (`Covers`, `FlushInv`). A block of a buffer that is neither saved,
reported nor late (`AtRisk`) is marked by `dirty`, owed by each flush of its
handle under way, and there is a descriptor left whose close will flush it
(`LateInv`). `PrivateInv` keeps unsaved blocks out of the cluster, the content
cache and what handles take for saved.

`BillyFS_proofs` proves for any files, kinds, verbs, requests, writes and
bounds, from `BillyFSAssumption` and `OpenFilesAssumption`:

* `BillyTypeCorrect`: `BillySpec => []BillyTypeOK`;
* `NilTakesTwo`: `BillySpec => []NilOnlyIfRaced`;
* `WhatIsLeftIsReported`: `BillySpec => []LeftBehindIsReported`;
* `NothingIsLostSilently`: `BillySpec => []NoSilentLoss`;
* `AnsweredWritesTakeHold`: `BillySpec => []WritesTakeHold`.

Its invariant adds to that of `OpenFiles` who holds which handle (`LinkInv`):
a request that uses or closes a file has the only descriptor of a handle of
its own, which is dirty only between its WRITE and its Close, so that no write
comes during a flush and `late` stays empty. `AloneInv` has what a request
served alone may rely on after each step of its walk. `PosixInv` is about a
file no two requests share and nothing excuses: the object, the file as it
should be and what is cached agree (`CalmOK`) but for the time between an
update and its answer, and the buffer of a WRITE is the file with that one
block written, from the buffer through the slice and what the flush has read
to the object (`FarOK`). A step of a request is reduced to what it does to
that request, its handle and its node (`RequestStep`, and for the requests that
hold a file `HeldStep`), since all else is left alone.

`ClientWrites_proofs` proves for any handles, objects, keys and bounds, from
`ClientWritesAssumption`:

* `ClientWritesTypeCorrect`: `Spec => []TypeOK`;
* `TextsAreSavedOnce`: `Spec => []TextSavedOnce`;
* `CacheIsFresh`: `Spec => []CacheSeesQuietSaves`;
* `SavesImplementStore`: `Spec => SavesAreAtomic`, that is `Store!Spec`.

The inductive invariant is about copies (`CopiesInv`): a copy of an object,
open or cached, that has the resourceVersion of an object of the API is that
object, under that name. So what the API accepts with a resourceVersion is a
change of the state it was made from (`AcceptedFacts`), which is the effect of
an edit in `ObjectStore` (`EffectIsSent`); and a text that was accepted has a
resourceVersion that no object has any more (`MadeInv`), so that it is refused
from then on. `FreshInv` says that an answer on its way to the cache is newer
than every quiet save that returned or is about to. For the refinement each
action is shown to be the begin, the effect or the return of a save, a change
made elsewhere, or nothing the store sees.

`Daemon_proofs` proves for any number of signals, from `DaemonAssumption`:
`DaemonTypeCorrect` (`TypeOK`), `ParentVerdictIsTrue` (`VerdictIsTrue`) and
`ServerEndsUnmounted` (`EndsUnmounted`). The invariant says where the parties
are relative to each other (`PlacesInv`), what a text in the pipe means and
what a reader who finds it empty may conclude (`PipeInv`), and where a mount
can be (`MountInv`).

Only model-checked: liveness (`ParentReturns`, `SignalStops`, `UmountStops`),
fairness and ENABLED being outside the prover. Every other property of a
passing run has a theorem.

## Not modelled

* The TTL cache alone: its operations are steps of `Directory`, `ContentPath`
  and `ClientWrites`, the two locks of `Get` included, and what it promises is
  part of `BoundedStaleness` and `CacheSeesQuietSaves`. `DeletePrefix` has no
  caller.
* ParseVerbs and String: a list of words to and from a set, without state.
* The node tree of go-fuse and the kernel's entry cache: library code that
  decides when `Lookup` is called. `Directory` allows a call at any time.
* Rendering of content (`formatDescription`, YAML, JSON), attributes and
  times, logging, flags, the log file, the version command.
* The demo's mock API server, a stand-in for the external one.
* The NFS wire protocol (go-nfs) and the kernel, which are external and
  modelled from how the adapters are called.
* ReadHandle and GetAttr change no state. The created file of a handle is
  never flushed dirty (`open_files_create`), so that CreateContent is reached
  by no save of `OpenFiles`; `ClientWrites` has CreateObject, which it calls.
