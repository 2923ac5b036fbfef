# Autodrive, verified

TLA+ models, model-checking runs and machine-checked proofs for Autodrive, a
multi-writer file system built on Autobase, Hyperbee and Hyperblobs
(`src/src/index.ts`, `messages.ts`, `constants.ts`, `pool.ts`). Line numbers
below and in the modules are those of `src/src/index.ts` unless another file is
named.

## 1. Inventory

### How the parts fit together

A drive owns an Autobase. Every writer has a log (a Hypercore); a write call
checks its arguments against the file database it reads, stores its data in
the writer's blobs core and appends an *operation* to the writer's log. Every
replica linearises the logs it knows into one order and folds that order, by
`_baseApply`, into the file database: a Hyperbee with three sub-databases, the
entries, a history per path and the conflicts per path. When other nodes
arrive, Autobase may choose another order, undo the database to the last point
the two orders share, and apply the rest again. Reads use the database and the
blobs cores of the sources named in the entries; when a blob is not there, all
connected peers are asked to wake up its core. `batch()` and `checkout()` make
sessions, further `Autodrive` objects that share the base, the pool and the
RPC set of their root.

| component | state | operations | interacts by | hard about it | correct when |
|---|---|---|---|---|---|
| reducer, 282-402 | the Hyperbee: entries, history, conflicts; the writers | one handler per operation type | called by Autobase for each batch of nodes; emits `conflict`, `error` | runs again after every undo, on other orders; keys are version numbers read while writing; what it decides depends on `heads()` | entries and history agree; every listed version can be read; conflicts stand beside a record and freeze their path; namespaces are kept; equal orders give equal databases |
| write API, 480-496, 634-783, 865-1008 | calls in flight | `put` `del` `resolve` `createWriteStream` `symlink` `addWriter` `removeWriter` | reads the database, `blobs.put`, `base.append` | checks are made long before the append, on a view that may be undone; several calls at once; losing the right to write meanwhile | whatever was stale, the reducer's promises hold; a deletion takes its file away, or is put beside it as a conflict |
| batch sessions, 563-581 | `_queue`, the Hyperbee batch and its root, the blobs session | `batch`, the write API, `flush` | pushes to `_queue`, `flush` appends it | operations pushed while `flush` waits; a session without its `namespace` option | all of a batch is seen or nothing of it; nothing collected is lost |
| replicas (Autobase, external) | logs, linearised order, views, published length | `append`, replication, `apply`, undo, restart | calls the reducer | any causal order of delivery; undo; restart in between | replicas converge; all writes arrive |
| read API, 418-441, 587-632, 785-863, 1010-1013, 1111-1114 | none | `entry` `get` `exists` `compare` `createReadStream` | database, blobs, wakeup | links changing between rounds, missing blobs | a conflict is never read past; following links ends |
| blobs and pool, 110-127, 253-266, 447-478, `pool.ts` | `_blobs` of the drive and of every batch, lingering sessions with timeouts | `getBlobs`, `_getCore`, `linger`, `clear` | `writable` event, timers, close | creation by two paths at once, a timeout against a use, close during creation, sessions of one core shared and closed by several owners | a drive that can write has its blobs, and keeps them until it is closed |
| wakeup, 404-416, 503-522 | the set of RPC channels | `replicate`, `_wakeup`, the responder | requests to all peers, close and error events | one peer that fails or never answers; a core that times out while it is awaited | a block some peer has is delivered, and a call with a timeout ends, if every peer that stays answers |
| listings, 1015-1135, 1384-1434 | stream positions | `entries`, `list`, `readdir`, `history`, `diff`, `conflicts`, `watch` | range reads of the database | asynchronous handlers, skipping over directories, a database that changes meanwhile | every name once; every version, in order; an end |
| truncation, 524-553, 1475-1487 | cores of the view and the blobs | `getBlobsLength`, `truncate` | truncates two cores | failing between the two; blobs of other versions | what the view names stays readable |
| clearing, 1199-1340 | cores on disk | `clear`, `clearAll`, `purge` | `blobs.clear`, `core.purge` | versions are found by number in a database that changes; one of many failing | what is cleared is what was asked for, as far as its block is held |
| checkouts, 443-445, 559-561 | a snapshot | reads, and the write API | shares base and pool | writes checked on an old view | as the write API |
| encodings, errors, types | none | | | none | not modelled |

`PROJECT.json` lists the same components with their status, and every hazard
with its line and the properties aimed at it, or why there is none yet.

## 2. Modules

| module | models |
|---|---|
| `FileView` | one database (a *view*) and the four handlers of the reducer as a function of view, node, operation and "seen" |
| `Autodrive` | several drives: write API, batch sessions, logs, delivery, reordering with undo, `apply`, publication, restart |
| `SharedFiles` | the abstract specification: what a drive promises to those who share it |
| `AutodriveRefines` | the mapping under which `Autodrive` implements `SharedFiles` |
| `Readdir` | the skipping stream of `readdir()` and `list({ recursive: false })` over a database that changes |
| `HistoryWalk` | `history()`, `clear(path, { history })` and `del(path, { clear })` over a database that changes and is undone |
| `Cores` | the sessions of the blobs cores: creation, pool, timers, batches, close |
| `Fetch` | `get()` with wakeups between a drive and its peers, over `Cores` |
| `MCAutodrive`, `MCReaddir`, `MCHistoryWalk` | constants for TLC |
| `FileViewProofs` | what the reducer preserves |
| `AutodriveProofs` | the inductive invariant and the theorems about each replica |
| `ReplicaProofs` | theorems about what replicas have in common: convergence, frozen conflicts, batches |
| `DeletionProofs` | that deletions take effect |
| `RefinementProofs` | that `Autodrive` implements `SharedFiles` |
| `HistoryWalkProofs` | the safety of `HistoryWalk` |
| `ReaddirProofs` | the safety of `Readdir` |
| `CoresProofs` | the safety of `Cores`, and the types of `Fetch` |

### FileView

A view is a record. `blocks` is the core under the Hyperbee, one element per
block, so that version numbers are what they are in the code: `Version(v)` is
`db.version`, a record is filed under `Version(v) - 1` after its entry was put
(343, 370, 397-401), a conflict under `Version(v)` (339, 365). Deleting a key
that does not exist appends no block. `files`, `history` and `conflicts` are the
sub-databases, `members` the writers that `base.addWriter` and `removeWriter`
have left. A file's blob, executable bit, link name and metadata are abstracted
to the node that wrote it, so two writes never look the same by accident.

`AdditionOp`, `DeletionOp`, `ResolutionOp` and `WriterOp` are the handlers, with
their early returns in the `...Outcome` operators. Kept on purpose: `del`
of a path with a tombstone is "not found" before the namespace is looked at
(351-359); a deletion without a record does nothing (368); the resolution
handler peeks at the *oldest* record (377) and is the only one that does not
look at conflicts; `!same(heads, this.heads())` (336, 362) is a parameter,
`seen`, which the composition supplies.

### Autodrive

| code | model |
|---|---|
| nodes of a writer's core | `log[w]`, each with its operation, the nodes its links reach (`past`) and the ends of its batch |
| the linearised order of a replica | `order[r]` |
| `this.base.view` as `apply` builds it | `db[r]`, the view after every prefix, so that an undo is a truncation |
| what readers of the view see | `published[r]`: it moves at `db.flush()` (309), once per batch |
| a call between its checks and its append | `queue[r][c]` for a call `c` in `Calls` |
| a checkout a call is made of | any view in `Checkouts(r)` (`Readings`) |
| `_queue` of a batch session | `queue[r][b]` for `b` in `Batches` |
| `flush()` before, during and after its `await` | `phase[r][b]` |
| the root a Hyperbee batch has loaded | `root[r][b]`, empty until the first read of a tree that is not empty |

`Put`, `Del`, `Resolve`, `WriteStream`, `Symlink` and `Admit` check what the code
checks, against what the session reads, and leave an operation waiting. A call
is made of the main session, which reads the current view, or of a checkout,
which reads any view readers have seen and does not have the `namespace` option.
A checkout whose view is undone while it is open needs no state of its own: its
call leaves what a call leaves that was checked before the undo and appended
after it.
`createWriteStream` and `symlink` check neither `writable` nor the namespace, and
`createWriteStream` looks up conflicts under the path as it was given.
`AppendCall` and `Flush` append; `RejectCall` is the `append()` of a drive that
is no longer a writer. `FlushEmpty` is the other branch of `flush()` (577).
`FlushDone` is what follows the `await`: the session loses its blobs core and
everything in `_queue`.

`Deliver` receives one batch and linearises it anywhere causality allows,
`Reorder` undoes the view to the last state shared by the old and the new
order, `ApplyNext` is one turn of the loop of `_baseApply`. `Restart` closes a
drive, or lets it die, and opens it again: logs and order are on disk, sessions
and calls are gone, and part of the view is computed anew.

### SharedFiles and AutodriveRefines

`SharedFiles` has no databases, block numbers, heads, sessions or batches. There
is a growing set of written requests, and every replica has a line of file
systems, each obtained from the one before by taking up one request. What may
become of a request depends on its path alone: its versions so far, the rivals
in dispute, and who asks. A path is a *file*, *versions* and *rivals*. It is
this module to read first when asking what the drive does: everything it leaves
open (whether a write by another author is accepted or disputed) is what a user
cannot rely on.

The mapping reads a view the way its users do: the file is what `entry()`
returns, the versions are what `history()` lists, each looked up by its number
with `getBySeq`, the rivals are what `conflicts()` lists. The line of a replica is
all its views, and each is labelled with the node it came from. `ApplyNext`
maps to `Take`, an undo or a restart to `Return`, `append()` to `Write`, everything
else to a stutter. What makes this more than a renaming: versions are
positions in a sequence above and block numbers below, so a record filed under
a wrong number, or found in a wrong place, is a step the abstract
specification does not have. `DeletionsTakeEffect` and `WritesArrive` are not
part of it.

### Readdir

A key is the sequence of its character codes behind the folder's own path, so
`/d/x` in the folder is `<<47, d, 47, x>>`, and a neighbour of the folder does
not begin with 47. `Read` is one turn of `read()`: `PrefixRange(prev)` is
the range of `prefixRange(folder, prev)`, `Peek` the first key in it, `Name`
what 1417-1419 cut out, `Advance` the new `prev`. The turn of a name seen before
calls `_read` again (1424-1427), which is a `Read` of its own. `Update` puts or
deletes a file between any two reads: `db.peek` looks at the database as it is
then (the stream keeps no snapshot). `always` and `ever` only record what was
there. Paths are normal (`std()`, 1345-1351), so no key in the folder has an empty
name (`NamesAssumption`). `Keys` is fixed and finite, so it does not cover a writer that
keeps adding names ahead of the stream: one that does keeps the listing going for
as long, since `peek` looks at the live database (1407). The model therefore says
only that every read moves on (`ReadsMoveOn`, proved for every set of keys), and that
the listing ends once the changes do (`ListingEnds`).

### HistoryWalk

`line` is the views the database went through, as in `Autodrive`; `Write` applies an
operation by the handlers of `FileView`, `Undo` goes back. One call runs:
`History`, `Clear` or `Del` begins it, `Walk` opens the stream of records on the
database of that moment (`base`), `Ask` comes to a record of a file and
looks it up, `Answer` and `Fail` are the two ends of the lookup, `Tombstone`
comes to a deletion, `End` is the end of the stream. A replica need not hold every
block of its database, and `clear()` and `del()` look versions up with
`{ wait: false }` (697, 712, 1222) and swallow the failure: `lacking` is any set of the
versions on record, and for those `Fail` may take the place of `Answer`.
`history()` waits for such a block, so there it is an answer that comes late. A
number whose block is gone or is not an entry makes its lookup throw; nobody catches
that in `history()` (1093), and the process may end of it (`Crash`). `clear()` and `del()` wait
for each lookup (`for await`), `history()` does not: its handler is asynchronous
(1088), so lookups are under way at once, return in any order, and may
return after `push(null)`, which the stream then refuses. `GetBySeq` is given a number and no
path, as in `_entry` (423-430) and 1093. `del()` looks at the conflicts between its
first read and the walk (`Walk`, `Reject`).

### Cores

Each session is named by what opened it. `blobs[o]` is `_blobs` of the main
drive or of a batch; `open` are the sessions that are open; `pool` has at most one
session per writer. `BecomeWritable` is the event, which runs the listeners of
*all* objects, closed ones included (`_close` does not take the listener off);
it and `GetBlobs` open a session of the drive's own core, and `Created` is what
follows `await core.ready()`, in any order, `NotCreated` that it throws, the drive having
been closed. `GetCore` is `_getCore` up to its `await`, `GotCore` what follows it
(a session may linger after `close()` has cleared the pool), `LostCore` that it throws.
`TimeOut` is the timer, which may fire at any time after it was set; `Open`, `Flush` and
`CloseBatch` are a batch session. `Close` is the drive: it closes the base (244), and
with it the corestore and every session of every core, those of batches and those
outside the pool too, and clears the pool.
Losing the right to write and a purge are not modelled.

### Fetch

`Get` and `Opened` open the core (`GetCore` and `GotCore` of `Cores`; `NotOpened`
is `LostCore`), `Find` and `Ask` are the first,
immediate `blobs.get` with its two outcomes, `Wait` and `Unavailable` what
`_wakeup` returns, `Receive`, `Broken` and `Expire` the ends of the second one.
`Respond` is the responder at a peer, which opens a session of the core in a
pool of its own: the first lingers and times out (`PeerTimeOut`), another one is ignored
by `linger()` and stays (`kept`). `Disconnect` rejects what is pending at a
peer, which makes the whole `Promise.all` fail; `Forget` takes it out of `_rpc`
some time later. A responder says yes when it could *open* the core, which does not
mean it has the block (`Holders`). A request is sent without the timeout option of
`protomux-rpc` (405), and all requests are awaited (408), so a peer that stays
connected without answering is waited for: `Silent` are the peers that may do that.
`PoolTimeOut` is a timer of the pool and `Shutdown` the end of the drive with
`rpc.end()` for every peer (245).


### What is assumed of the dependencies

Autobase and Hyperbee are not in the repository. The model relies on this, and
marks it external in `PROJECT.json`:

- `append()` writes its operations as one chained batch, when the replica has
  applied what it knows, linked to everything it has linearised; it throws when
  the drive is not a writer. Appends of concurrent calls are separate batches.
- A replica linearises whole batches, side by side, after what they link to.
  Autobase picks *one* such order by its own rules; the model allows every one,
  at every delivery, which is more than Autobase does. For the same reason the
  nodes of a removed writer are not filtered out.
- Undo goes back to the longest prefix that old and new order share.
- `base.heads()` within `apply` may or may not count the batch being applied.
  This decides whether `same()` can hold at all for a node that has seen
  everything. The `Conflicts` test (`src/test/autodrive.js` 74-131) counts its
  conflicts as under `CountsBatch = TRUE`, so `calls`, `arrival` and the runs that
  show a violation use that; `sessions` uses `FALSE` to show that its properties do
  not depend on it, and the theorems hold for both.
- Whichever it is, `heads()` within `apply` depends on the nodes before the one being
  applied and its batch, not on how far the replica has got or what it undid before. If
  it did, replicas could come to different views of one order. `Convergence` rests
  on this and does not check it.
- `same()` compares the keys of two lists of heads; the lists are taken to be in
  one order, so it compares the two sets of writers.
- A Hyperbee batch keeps the root of its first read; flushed empty, it drops it.
  One `flush()` per session is in progress at a time.
- A Hyperbee read stream lists the database as it was when it was opened;
  `peek`, `get` and `getBySeq` read it as it is. `getBySeq` returns the entry of
  a block whatever its key, null for a deleted key, and throws where there is no block
  or the block does not decode as an entry.
- A streamx stream refuses what is pushed after `push(null)`.
- `protomux-rpc` rejects the pending requests of a channel that closes, and
  requests over a closed one. After `rpc.end()` a channel closes at once, or when what
  is asked over it has been answered; either is allowed.
- `base.close()` closes the corestore with all its sessions, "and all internal
  hypercores used by it" (`src/README.md` 66-68, `src/test/hyperdrive.js` 1003-1005).
- Corestore gives every `get()` and `session()` a session of its own; closing
  one closes no other; `core.ready()` returns. A closed session cannot be read,
  and what waits on it fails.

## 3. Properties and runs

| property | says | broken by |
|---|---|---|
| `HistoryIsTrue` | after every node, `entry()` returns what `history()` lists first, and every listed version leads back by its seq to an entry of that path and source | a history key off by one |
| `ConflictsAreWithSomething` | no conflict stands alone | treating "no record" as somebody else's record |
| `ConflictsAreFrozen` | only a resolution changes a path in conflict, and then no conflict is left | not looking at conflicts before writing |
| `NamespacesAreKept` | all who have an entry, a version or a conflict at a path share a namespace | dropping the check in `apply` |
| `DeletionsTakeEffect` | on every replica in every order, a deletion that `del()` accepted meets a record, and behind it the file is gone unless the path is in conflict or of another namespace | the handler not deleting the entry |
| `Convergence` | the same prefix of nodes gives the same view, whatever was undone in between | not undoing before applying again |
| `BatchesAreAtomic` | readers never see part of a batch | flushing the database after every node |
| `WritesArrive` | eventually every replica always shows everything that was appended | refusing a batch whose links are not exactly what is known |
| `ImplementsSharedFiles` | every step of every replica is one `SharedFiles` allows | the reducer looking at the oldest record for the latest |
| `NothingPassedOver` | what is in the folder for the whole listing is listed, except under the name of a directory and a 0 | a bound as for a directory behind every name |
| `NamesListedOnce` | no name twice, unless it was a file and a directory | a bound as for a file behind every name |
| `ReadsMoveOn` | every read goes on behind the last one, whatever changes in between | a bound as for a file behind every name |
| `ListingEnds` | a listing ends once the folder stops changing | not going on behind a name seen before |
| `VersionsAreOfThePath` | what is yielded or cleared for a version is that version of that path, if its number was not undone | reading the path instead of the number |
| `EveryVersionIsCleared` | `clear` and `del` with `history` reach every version whose block is held, those before a deletion too | stopping at a deletion |
| `EveryVersionIsYielded` | `history()` yields every version once, if nothing is late or undone | a history key off by one |
| `MainBlobsStayOpen` | the main drive's blobs core stays open until the drive is closed | letting the pool time out what it must keep |
| `BatchKeepsItsBlobs` | a batch keeps the blobs core it has, taken over or its own, until its own flush or the end of the drive | sharing the root's session |
| `WritableDriveGetsBlobs` | a drive that becomes writable gets its blobs | giving up where the pool has a session |
| `LimitedGetsEnd` | a `get()` with a timeout ends, unless a connected peer never answers | not handing the timeout to the second read |
| `GetsAreServed` | a `get()` returns its data if a peer that has it was asked and stays, unless a request was rejected, a core timed out, the given time was over or a peer never answers | a responder that does not open the core |

| run | drives and bounds | checks |
|---|---|---|
| `calls` | two founders in one namespace, one path, one call each at a time, 4 operations | `TypeOK` and six safety properties above |
| `sessions` | a founder and a guest of different namespaces, calls and batch sessions, admission and removal, 3 operations, a restart | history, namespaces, convergence, batches, deletions |
| `arrival` | two founders, 3 operations, a restart, fairness | `WritesArrive`, the refinement |
| `readdir` | every subset of seven keys, changing without bound | `TypeOK` and four properties of listings |
| `walk` | two writers, the path walked and another, three operations before or during the walk, one undo, any of the versions not held | `TypeOK` and three properties of walks |
| `cores` | a drive, two batches, one `get()` at a time | the types and three properties of sessions |
| `fetch` | two calls, one with a timeout; two peers, one with the block, one that may refuse and may never answer | types and two liveness properties |
| `overwrites`, `flush`, `siblings`, `backwards`, `silent` | as above | five claims of documentation and tests that fail, section 5 |

Bounds: `MaxNodes` bounds the operations appended or waiting, over all drives;
`MaxRestarts` the restarts. Paths are independent of each other in every handler
and every check except for block numbers, so one path carries the conflicts;
two drives are enough for every race between an author and somebody else.
Four operations are needed for a conflict (two), its resolution and a write that
knows of neither; three for an admission and two concurrent writes, or a batch
of two and a write. `CHECK_DEADLOCK FALSE`: with the operations used up and
everything delivered the bounded system stops.

The seven keys of `readdir` are a file and a directory of one name, two files in
the directory, the characters just below and above the slash behind that name,
another file and a key just behind the folder: every way in which a bound can
be too wide or too narrow. `walk` needs an addition, a deletion and an addition
for a history with a gap, the other path for a number that means something else,
and one undo to move numbers. One call runs: walks do not change anything that
another reads. `cores` needs two batches, so that one may be flushed while the other
writes, and one `get()`, which may be called again, for a second session of a writer.
`fetch` needs two calls for a second session in a peer's pool, and two peers for an answer that
decides against another: one peer has the block, the other may refuse, keep silent,
leave or answer, in every order. `silent` needs one call and the same two peers. In
both the way the drive's own core comes about is left out (of `Cores`, `Fetch`
takes only `PoolTimeOut` and `Shutdown`), since a `get()` never uses that session.
Four operations are needed in `overwrites` as well: two concurrent writes that
conflict, a resolution, and a write that has not seen it.

The refinement was also checked with the constants of `calls` (four
operations) and with two paths and three operations, in runs too long to keep.

Fairness: `FairSpec` of `Autodrive` assumes weak fairness of `Sync(r)`, that a replica goes on
applying what it has and that peers that stay connected go on replicating;
nothing of the API is assumed to happen. `WritesArrive` says that then no two
replicas wait for each other and undoing and applying ends. In `Readdir`, a
stream that is consumed goes on reading; in `Cores`, `core.ready()` returns; in
`Fetch`, promises that are settled are acted upon, timeouts given by the
caller expire, and the peers that stay connected answer, *except* those in
`Silent`: nothing in this code makes a peer answer, or limits the wait for it. The
properties of `fetch` therefore name that end (`Stuck`), and `silent` shows that
without it they fail. `ListingEnds` presupposes that changes stop. Nothing is
assumed of peers that leave, of the timers of the pools or of the user. A `get()` *without*
a timeout may wait for ever: the peer that said yes may not have the block.

## 4. Proofs

`FileViewProofs` proves `ApplyInv`: for every view with `ViewInv`, every node,
operation and value of `seen`, `Apply` returns a view with `ViewInv`. The
promises `FilesMatchHistory`, `HistoryResolves`, `ConflictsHaveRecord` and
`OneNamespace` are not inductive alone. The strengthening is `HistoryBelow`
(every record is filed below the last block, so a new record is always the
latest: this is what makes `db.version - 1` a sound key), with each history
having a first and a last record and finitely many conflicts. A resolution may
look at the oldest record, though the others look at the latest, because of
`OneNamespace` itself (`NamespaceOfPath`).

`AutodriveProofs` proves `Inv`, the conjunction of the types (`TypeInv`), that
the nodes of a batch are in their log (`LogShape`), that there is a view per
applied prefix (`PrefixInv`) and `ViewInv` of every view (`ViewsInv`), for any
drives, paths, namespaces, calls, sessions and bounds: `Spec => []Inv`, one
lemma per action. `TypeCorrect`, `HistoryStaysTrue`, `ConflictsStayFounded` and
`NamespacesStayKept` follow. The assumptions used are the named ones of the two
modules: `Founders` and `Guests` are drives; the rest are types of constants.

`ReplicaProofs` proves three properties that relate views to orders, or
replicas to each other.

- `FoldInv` says that every view of a replica is the one before it with the node
  of its place applied. `StepShape` reduces the steps of the specification to
  two: a replica *keeps* some of its views together with the nodes they were
  folded from (append, delivery, restart), or *extends* them by one. What
  `same()` is told depends on the order up to the node, and on the past of
  nodes, which never changes (`SeenOfPrefix`, `SeenStays`); so both keep the
  fold.
- `ReplicasConverge`: `Convergence` is inductive together with `FoldInv`. The
  case that matters is a replica that applies a node another has applied
  before it (`ExtensionAgrees`). The order Autobase chooses plays no part, so
  the theorem does not depend on how it chooses.
- `ConflictsStayFrozen` follows from the fold and `ConflictFreezes` of
  `FileViewProofs`, which says what a handler does to a path in conflict; it
  needs `ConflictsHaveRecord`, without which a deletion could be dropped before
  the conflict is looked at.
- `BatchesStayAtomic`: the strengthening `BatchInv` adds that every order keeps
  batches side by side. An undo then cannot stop inside a batch, since inside
  one the old and the new order have the same node next (`DeliverBatches`).

`CoresProofs` proves `MainBlobsStayOpen`, `BatchKeepsItsBlobs` and `CoresTypeOK`
from `CoresInv`, with the one assumption that a batch is not the main drive. As long as
the drive is open, no creator loses the session it awaits, and what is under the
`_blobs` of an object that has not been flushed is open; when it is closed every
session is, and only what is awaited then (`GotCore`, `Created`, or `LostCore` and
`NotCreated` where it throws) still changes anything.
Each part says where a session may be found: `_blobs` of an object was opened
for that object (`BlobsAreOwn`), so no flush reaches another's; the pool times
out only what `get()` opened (`PoolTimes`) and has nothing that is still being
created (`PoolIsCreated`). The last needs that neither way of creation comes
twice (`AskedOnce`, `HandledOnce`): a second session of the same name could be
closed while its creator still awaits it.

`DeletionProofs` proves `DeletionsTakeEffect` (`DeletionsTake`). That the handler
leaves no file where it finds a record, unless in conflict or for a stranger, is a
fact about one view. That it finds one is not: a view alone does not tell what
deletions are still to come. The strengthening `FoundInv` follows the deletion from the
call to the reducer:

- `RecordsInv`: a path has a record in a view exactly if an addition to it is
  among the nodes the view was folded from. `ApplyRecords` is the step: an
  addition leaves its path with a record though it is denied or put aside, and
  nothing else gives a path its first one.
- `RootsInv`, `WaitingInv`: so what a session reads, a checkout and the root of a
  batch included, has records only at paths added to in the order of its
  replica; and a deletion that waits is of such a path. Orders lose no nodes
  (`OrdersGrow`), though they are rearranged.
- `LinkedInv`: a deletion in a log links to such an addition, since `append()` links
  to all that is linearised.
- `CausalInv`: what a node links to comes before it in every order. For a batch
  that is delivered this needs that its nodes link to what the first one links
  to and to one another (`BatchPast`), as only the links of the first are checked.

`RefinementProofs` proves `DrivesAreShared`: `Spec => ImplementsSharedFiles`.

- The versions `SharedFiles` sees are the records of a path, ranked by their
  numbers (`VersionsAre`). A record filed under a number above all others takes
  the last rank and moves no other (`NewKeyIsLast`, `VersionsGrow`), and a version
  once there keeps its file, since the block its number stands for is never
  written again (`VersionStays`). This is where `HistoryBelow` and
  `HistoryResolves` are needed.
- `ApplySucceeds`: for any operation, writer and heads, `Apply` leads from the file
  system a view stands for to one of the `Successors` of it. There is one lemma per
  handler (`AdditionSucceeds`, `DeletionSucceeds`, `ResolutionSucceeds`,
  `WriterSucceeds`), over what the handlers have in common: an entry accepted, a
  tombstone accepted, a rival added, all rivals cleared (`FileAccepted`,
  `TombstoneAccepted`, `RivalAdded`, `RivalsCleared`). A handler
  touches one path; the others stay as they are (`OnlyThere`).
- The steps need `LineInv` beside `Inv` and `FoundInv`. `BelowInv`: conflicts are
  numbered below the blocks, or a new conflict could take the place of an old
  one and the rivals would not grow. `DistinctInv`: no order holds a node twice, or a
  `Take` would take up a request a second time; for a delivered batch this is
  counted (`DeliverDistinct`). `ChainInv`: the nodes of a batch link to its first,
  so that a batch whose first node is new is new as a whole.
- `Keeps` of `ReplicaProofs` becomes a line that is a first part of the old one
  (`KeptLine`, `SameLine`), an extension one that is longer by one (`LongerLine`);
  `WriteStep`, `TakeStep`, `ReturnStep` and `HiddenStep` map the actions, and `StepMaps`
  puts them together.

`HistoryWalkProofs` proves the safety of walks from `WalkInv`, for any database a
walk may meet, any number of records and any interleaving of writes, undos and
lookups.

- About the database, `BlockInv` adds to `ViewInv` that the block of an entry holds
  the entry's node, that no deletion is filed under the block of an entry, and that
  no operation ends with one: so a number at which a record says "file" is never
  mistaken for anything else. `LineInv` of this module says that blocks are only
  appended: whatever is at or below `sunk` is as it was when the walk began (`Kept`).
- About the walk, `SweptInv` (`clear`, `del`) and `YieldedInv` (`history`) say that
  every record is in the rest of the stream (`todo`), in a lookup under way
  (`reading`), done, or not held (`lacking`); for `history()` also `late`, and each in one place only, which
  gives "exactly once". `GotInv` says what was obtained, from which
  `VersionsStayOfThePath` follows.
- The order of `Ascending` and `Reversed` plays no part; that they list every record
  once is proved from their definitions (`AscendingIs`, `ReversedIs`).

`ReaddirProofs` proves the safety of listings from `ReaddirInv`: the stream stands at a
bound (`StreamInv`); a file that was always there has its name listed, or is
still ahead (`PassedInv`); the stream is past the bound of every name it has listed
(`ListedInv`). The substance is in the lemmas on keys. The order of a Hyperbee is
total (`BelowIsTotal`), and among finitely many keys there is a first one
(`PeekIsFirst`). The bound a read moves to is never before the key it found
(`BoundIsPast`), and whatever is skipped on the way to the bound behind a directory
has the directory's name (`GapIsEmpty`). The bound itself is skipped too, and
may be the key of a file: this exception is `HiddenBy`, and `siblings` shows that it
happens. `ReadsGoOn` (`ReadsMoveOn`) is `BoundIsPast` with the fact that the key found is
behind the bound it was looked for from; that a listing which only moves on also
ends is left to TLC.

`CoresProofs` ends with `Fetch`: `FetchInvariance` carries `CoresInv` through the
larger specification, whose steps take a step of `Cores` or leave the sessions alone,
together with `GetInv` on calls and peers; `FetchTypeCorrect` follows.

So every safety property the passing runs check, and the refinement, is a theorem
for all values of the constants. Every theorem rests on the named assumptions of its
modules, which TLC evaluates in the runs, and on nothing else.

Only model-checked: the liveness properties `WritesArrive`, `ListingEnds`,
`WritableDriveGetsBlobs`, `LimitedGetsEnd` and `GetsAreServed`, since liveness
under fairness is out of the prover's reach. The five claims of section 5 are refuted
by their runs.

## 5. Where code and documentation part

- `overwrites`: `same()` (1366-1378) tests `ah.length !== ah.length`, so a node
  counts as having seen everything once it links to the same *writers*, however old
  its links are. With `heads()` as the `Conflicts` test requires it
  (`src/test/autodrive.js` 74-131, `CountsBatch = TRUE`), four operations do: *a* and *b* put a
  path unseen by one another, a conflict; *b* resolves it having seen both; *a*, which
  has seen both puts and not the resolution, puts again. Where that put comes last it
  links to the writers {a, b}, which are all the writers there are, and so
  overwrites *b*'s entry. Of two writes of one file unseen by one another the test
  expects a conflict (88-111), and there is none.
- `flush`: an operation pushed to a batch while its `flush()` awaits `append()` is
  erased by `_queue = []` (580; `src/README.md` 173). So is one pushed while the `flush()` of
  an empty queue awaits the batch (577).
- `siblings`: behind a directory `d` the listing goes on behind `/d0` (1421), which
  leaves out the file `d0`: `readdir()` and `list({ recursive: false })` do not
  list it, where `src/README.md` 234 has "List filenames of entries at given folder".
- `backwards`: `history()` pushes a deletion at once and a file after a lookup
  (1088-1097), so they may come out of order, as do two files whose lookups are
  answered in the other order; `src/README.md` 245 has "Starts at the
  current version and goes backwards".
- `silent`: `_wakeup()` (404-416) gives its requests no timeout, though `rpc.request()`
  takes one (`src/types/protomux-rpc/index.d.ts` 73), and awaits them all (408). One
  connected peer that never answers keeps a `get()` with a timeout from ending,
  also where another peer has said yes; `src/README.md` 185 and 190 have "`timeout`
  specifies how long to wait for the entry data to download".

Met while modelling, without a run of their own:

- `{ resolve: true }` appends a resolution whether or not there is a conflict; at a
  path without a record `_resolutionOp` drops it (379-382) though the call succeeded.
  `src/README.md` 218 gives the option a meaning in case of a conflict only.
- `resolve()` with an entry of another author (770-776, 393) files that author's blob
  under the resolver's source, and `get()` then looks for it in the wrong core. In
  the model a resolution brings the data of the resolver, whatever it was made from.
- Versions are walked by number. If the database is undone between the record
  and the lookup, the number may be another file's; `del({ clear })` then clears that file's
  blob in the local cache. `VersionsAreOfThePath` states what holds, and
  excepts the numbers above `sunk`; without the exception TLC finds this.
- `history()` loses the versions whose lookup returns after the stream of
  records has ended (`late`); `EveryVersionIsYielded` excepts them.
- A batch taken before its root has blobs never gets any by itself: `_open`
  sets `_blobs` once, and the listener of `writable` may have run before. Its `put()`
  throws, though `writable` is true.
- One peer that leaves during a wakeup makes `_wakeup` return false, though
  another said yes (404-416); `get()` then fails. `GetsAreServed` excepts it.
- A responder says yes without having the block (516).
- The second session of a writer is never closed: `linger()` ignores it, and
  nobody else closes it (17; `kept` in `Fetch`).
- `compare()` returns 1 if its first argument is the newer one (1111-1114);
  `src/README.md` 249 has it the other way.
- `createReadStream` accepts `wakeup` and does not wake up anybody (785-863).

## 6. Not modelled, and the plan

Blob contents and lengths, the encodings, events and error wording, `mirror()`
and downloads are left out. `HasBlobs` lets a batch session write during a second
`flush()`, although its blobs core has been closed since the first (579): that is more
than the code does. The checks and the push of a call of a *batch* session
are one step, since its root does not change between them; for a call of the main
session they are two.

Further:

- Truncation: `truncate()` cuts the core under the view, which belongs to Autobase;
  the repository's tests say that Autobase does not support it
  (`src/test/hyperdrive.js` 1576). What would follow from it is decided there.
- `entries()`, `list()`, `conflicts()`, `diff()` and `watch()` hand on what a
  Hyperbee yields; `exists()` and `compare()` are expressions; `entry({ follow })` is up to
  16 reads that nothing relates.
- `createReadStream()`: a `get()` without wakeup whose waiting is in Hyperblobs.
- `clearAll()`, `purge()`: loops over the cores on disk that catch every error;
  which cores there are is Corestore's state.
- `download()` and its variants read ahead and keep nothing.
- A batch of a checkout, and checkouts of versions that do not exist yet.

The plan: the safety properties of all modules and the refinement are proved. What
is left are the parts named above, whose state is kept by the dependencies or which keep
none, and lemmas that would shorten the proofs that are there: those
on sequences in `DeletionProofs` and `RefinementProofs`, and those on the ends of names
in `ReaddirProofs`.
