----------------------------- MODULE Autodrive -----------------------------
(***************************************************************************)
(* Several replicas of one Autodrive: the write operations of the API      *)
(* (src/src/index.ts), the per-writer logs they end in, the linearised     *)
(* order each replica makes of those logs, and the reducer that turns that *)
(* order into the file database.                                           *)
(*                                                                         *)
(* An operation is checked against the database the session reads, then    *)
(* waits (for its blob, for base.append) and is appended to the local log  *)
(* some time later; the database may change in between.  A batch() session *)
(* collects operations in _queue and appends them as one atomic batch.     *)
(*                                                                         *)
(* Autobase is not part of the repository.  It is modelled from what       *)
(* index.ts asks of it: append() writes a batch of nodes that link to      *)
(* everything the replica has linearised; a replica that receives nodes    *)
(* may reorder what is not causally related, undoes its view to the last   *)
(* state before the change, and calls apply() once for every batch.        *)
(***************************************************************************)
EXTENDS FileView

CONSTANTS
    Founders,     \* the drives that are writers from the start
    Guests,       \* the drives addWriter() and removeWriter() are called for
    Calls,        \* concurrent write calls of a drive's main session and checkouts
    Batches,      \* the batch() sessions of a drive
    CountsBatch,  \* whether heads() in apply() counts the batch being applied
    MaxNodes,     \* bound: operations appended or waiting, over all drives
    MaxRestarts   \* bound: restarts, over all drives

ASSUME MembersAssumption == Founders \subseteq Drives /\ Guests \subseteq Drives
ASSUME SessionsAssumption == Calls \cap Batches = {}
ASSUME CountsBatchAssumption == CountsBatch \in BOOLEAN
ASSUME BoundsAssumption == MaxNodes \in Nat /\ MaxRestarts \in Nat

Sessions == Calls \cup Batches

VARIABLES
    log,         \* log[w]: the nodes of w's local core
    order,       \* order[r]: the nodes replica r has linearised, in order
    db,          \* db[r][k + 1]: the view of r after the first k of them
    published,   \* published[r]: how many of them its readers see
    queue,       \* queue[r][s]: the operations session s has waiting
    phase,       \* phase[r][b]: how far a batch session is with its flush()
    root,        \* root[r][b]: the view a batch session is tied to, if any
    restarts     \* how many restarts there have been

vars == <<log, order, db, published, queue, phase, root, restarts>>

-----------------------------------------------------------------------------
(***************************************************************************)
(* The logs.                                                               *)
(***************************************************************************)
LogIds == UNION {{w} \X (1 .. Len(log[w])) : w \in Drives}

Node(n) == log[n[1]][n[2]]
Op(n) == Node(n).op
Past(n) == Node(n).past

\* The nodes that were appended together with n.
BatchOf(n) == {n[1]} \X (Node(n).first .. Node(n).last)
EndsBatch(n) == n[2] = Node(n).last

Elements(o) == {o[i] : i \in DOMAIN o}
Before(o, k) == {o[i] : i \in 1 .. k - 1}

\* What base.append(ops) writes on top of what is known: a chain of nodes.
NewNodes(w, ops, known) ==
    LET last == Len(log[w]) + Len(ops)
    IN  [i \in 1 .. Len(ops) |->
            [op    |-> ops[i],
             past  |-> known \cup {w} \X (Len(log[w]) + 1 .. Len(log[w]) + i - 1),
             first |-> Len(log[w]) + 1,
             last  |-> last]]

\* An order respects causality and keeps the nodes of a batch side by side.
Linearization(o) ==
    /\ \A i, j \in DOMAIN o : o[i] \in Past(o[j]) => i < j
    /\ \A i \in DOMAIN o :
          ~EndsBatch(o[i]) => /\ i + 1 \in DOMAIN o
                              /\ o[i + 1] = <<o[i][1], o[i][2] + 1>>

\* heads(), reduced to the writers same() compares: its test of the lengths
\* (1374) compares a length with itself.
HeadWriters(S) == {n[1] : n \in {m \in S : \A x \in S : m \notin Past(x)}}

\* heads() while the k-th node of an order is applied.
HeadsInApply(o, k) ==
    IF CountsBatch THEN HeadWriters(Before(o, k) \cup BatchOf(o[k]))
    ELSE HeadWriters(Before(o, k) \ BatchOf(o[k]))

\* same(heads, this.heads()): the heads the node links to, against those.
Seen(o, k) == HeadWriters(Past(o[k])) = HeadsInApply(o, k)

-----------------------------------------------------------------------------
(***************************************************************************)
(* The replicas.                                                           *)
(***************************************************************************)
Applied(r) == Len(db[r]) - 1
LastView(r) == db[r][Len(db[r])]
Idle(r) == Applied(r) = Len(order[r])

\* What the main session of r reads: this.base.view.
Current(r) == db[r][published[r] + 1]
Writable(r) == r \in Current(r).members

\* checkout(version), for any view readers of r have seen and still could.
Checkouts(r) ==
    {db[r][k + 1] : k \in {j \in 0 .. published[r] : j > 0 => EndsBatch(order[r][j])}}

\* What a call may read, by the session it is made of: a Hyperbee batch keeps
\* the root it loaded first; other calls are made of the main session or of a
\* checkout.  batch() and checkout() do not hand the namespace() option on
\* (443-445, 563-570), and the default puts every source in one namespace.
Readings(r, s) ==
    IF s \in Batches
    THEN {[view |-> IF root[r][s] # << >> THEN root[r][s][1] ELSE Current(r),
           namespaced |-> FALSE]}
    ELSE {[view |-> Current(r), namespaced |-> TRUE]}
            \cup [view : Checkouts(r), namespaced : {FALSE}]

\* The namespace check of a call.
Permitted(r, reading, source) == reading.namespaced => Namespace[r] = Namespace[source]

\* The root of an empty tree is looked up again each time.
Load(r, s) ==
    IF s \in Batches /\ root[r][s] = << >> /\ Current(r).blocks # << >>
    THEN root' = [root EXCEPT ![r][s] = <<Current(r)>>]
    ELSE UNCHANGED root

-----------------------------------------------------------------------------
(***************************************************************************)
(* The API: what a call checks before it leaves its operation waiting, to  *)
(* be appended (a call of the main session) or flushed (a batch session).  *)
(***************************************************************************)
NodeCount == Cardinality(LogIds)
WaitingCount == Cardinality(UNION {{<<r, s>>} \X DOMAIN queue[r][s] :
                                      r \in Drives, s \in Sessions})

\* Session s can take another operation.
Free(r, s) ==
    /\ NodeCount + WaitingCount < MaxNodes
    /\ s \in Calls => queue[r][s] = << >>

Enqueue(r, s, op) ==
    /\ queue' = [queue EXCEPT ![r][s] = Append(@, op)]
    /\ UNCHANGED <<log, order, db, published, phase, restarts>>

\* flush() closes the blobs core of the batch session (579).  A flush() after
\* that counts as one with a core again, which only allows more.
HasBlobs(r, s) == s \in Batches => phase[r][s] # "flushed"

\* put(path, data)
Put(r, s, p) ==
    /\ Free(r, s) /\ Writable(r) /\ HasBlobs(r, s)
    /\ \E reading \in Readings(r, s) :
          LET v == reading.view
          IN  /\ ~InConflict(v, p)
              /\ Recorded(v, p) => Permitted(r, reading, Latest(v, p).source)
    /\ Load(r, s)
    /\ Enqueue(r, s, Addition(p))

\* del(path) without looking whether there is a file.
DelUnchecked(r, s, p) ==
    /\ Free(r, s) /\ Writable(r)
    /\ \E reading \in Readings(r, s) : ~InConflict(reading.view, p)
    /\ Load(r, s)
    /\ Enqueue(r, s, Deletion(p))

\* del(path)
Del(r, s, p) ==
    /\ Free(r, s) /\ Writable(r)
    /\ \E reading \in Readings(r, s) :
          LET v == reading.view
          IN  /\ Recorded(v, p) /\ Latest(v, p).type # "tombstone"
              /\ Permitted(r, reading, Latest(v, p).source)
              /\ ~InConflict(v, p)
    /\ Load(r, s)
    /\ Enqueue(r, s, Deletion(p))

\* resolve(path, dataOrEntry), with or without a file.  An Entry is taken as it
\* is (770-776): nothing is put into the blobs.
Resolve(r, s, p, file) ==
    /\ Free(r, s) /\ Writable(r)
    /\ \E reading \in Readings(r, s) :
          /\ InConflict(reading.view, p)
          /\ Permitted(r, reading, Source(FirstConflict(reading.view, p)))
    /\ Load(r, s)
    /\ Enqueue(r, s, Resolution(p, file))

\* createWriteStream(path, { resolve }), from open() to the end of the data.
\* Conflicts are looked up under the path as given, so only a path given in
\* its normal form is found to be in conflict.
WriteStream(r, s, p, resolve) ==
    /\ Free(r, s) /\ HasBlobs(r, s)
    /\ \E normal \in BOOLEAN :
          normal /\ ~resolve =>
              \E reading \in Readings(r, s) : ~InConflict(reading.view, p)
    /\ Load(r, s)
    /\ Enqueue(r, s, IF resolve THEN Resolution(p, TRUE) ELSE Addition(p))

\* symlink(path, dest, { resolve }) reads nothing.
Symlink(r, s, p, resolve) ==
    /\ Free(r, s)
    /\ Enqueue(r, s, IF resolve THEN Resolution(p, TRUE) ELSE Addition(p))
    /\ UNCHANGED root

\* addWriter(key) and removeWriter(key) go to the base from any session.
Admit(r, c, key, removed) ==
    /\ c \in Calls
    /\ Free(r, c)
    /\ Enqueue(r, c, Membership(key, removed))
    /\ UNCHANGED root

-----------------------------------------------------------------------------
(***************************************************************************)
(* base.append().                                                          *)
(***************************************************************************)
AppendQueue(r, s) ==
    LET ops == queue[r][s]
        new == NewNodes(r, ops, Elements(order[r]))
    IN  /\ Idle(r) /\ Writable(r)
        /\ log' = [log EXCEPT ![r] = @ \o new]
        /\ order' = [order EXCEPT ![r] =
                        @ \o [i \in 1 .. Len(ops) |-> <<r, Len(log[r]) + i>>]]
        /\ UNCHANGED <<db, published, root, restarts>>

\* A call of the main session or a checkout is appended, and is over.
AppendCall(r, c) ==
    /\ c \in Calls /\ queue[r][c] # << >>
    /\ AppendQueue(r, c)
    /\ queue' = [queue EXCEPT ![r][c] = << >>]
    /\ UNCHANGED phase

\* append() throws, the drive not being writable: the call is rejected.
RejectCall(r, c) ==
    /\ c \in Calls /\ queue[r][c] # << >>
    /\ ~Writable(r)
    /\ queue' = [queue EXCEPT ![r][c] = << >>]
    /\ UNCHANGED <<log, order, db, published, phase, root, restarts>>

\* flush() hands _queue to append() (573-575) ...
Flush(r, b) ==
    /\ b \in Batches /\ phase[r][b] # "flushing"
    /\ queue[r][b] # << >>
    /\ AppendQueue(r, b)
    /\ phase' = [phase EXCEPT ![r][b] = "flushing"]
    /\ UNCHANGED queue

\* ... or, with nothing in it, flushes the Hyperbee batch, which has nothing
\* to write and forgets its root (577) ...
FlushEmpty(r, b) ==
    /\ b \in Batches /\ phase[r][b] # "flushing"
    /\ queue[r][b] = << >>
    /\ phase' = [phase EXCEPT ![r][b] = "flushing"]
    /\ root' = [root EXCEPT ![r][b] = << >>]
    /\ UNCHANGED <<log, order, db, published, queue, restarts>>

\* ... and, append() having returned, empties _queue.
FlushDone(r, b) ==
    /\ b \in Batches /\ phase[r][b] = "flushing"
    /\ phase' = [phase EXCEPT ![r][b] = "flushed"]
    /\ queue' = [queue EXCEPT ![r][b] = << >>]
    /\ UNCHANGED <<log, order, db, published, root, restarts>>

-----------------------------------------------------------------------------
(***************************************************************************)
(* Replication, apply() and restarts.                                      *)
(***************************************************************************)
\* A reordering that undoes nothing.
ReorderInPlace(r, o) ==
    /\ order' = [order EXCEPT ![r] = o]
    /\ UNCHANGED <<db, published>>

\* Replica r goes on from what its old order and the new one share.
Reorder(r, o) ==
    \E k \in 0 .. Applied(r) :
        /\ k <= Len(o)
        /\ \A i \in 1 .. k : o[i] = order[r][i]
        /\ k < Len(o) /\ k < Applied(r) => o[k + 1] # order[r][k + 1]
        /\ order' = [order EXCEPT ![r] = o]
        /\ db' = [db EXCEPT ![r] = SubSeq(@, 1, k + 1)]
        /\ published' = [published EXCEPT ![r] = k]

\* The links of node n are there.
LinksAreExactly(n, known) == Past(n) = known
LinksAreKnown(n, known) == Past(n) \subseteq known

\* Replica r receives the next batch of writer w and linearises it.
Deliver(r, w) ==
    LET known == Elements(order[r])
    IN  \E n \in LogIds :
            /\ n[1] = w /\ n[2] = Node(n).first
            /\ n \notin known
            /\ LinksAreKnown(n, known)
            /\ Idle(r)
            /\ \E o \in [1 .. Len(order[r]) + Cardinality(BatchOf(n)) -> known \cup BatchOf(n)] :
                  /\ Elements(o) = known \cup BatchOf(n)
                  /\ Linearization(o)
                  /\ Reorder(r, o)
            /\ UNCHANGED <<log, queue, phase, root, restarts>>

\* db.flush() after every node.
ShownAfterEach(r, k) == k

\* What readers see after k nodes: db.flush() comes at the end of a batch.
Shown(r, k) == IF EndsBatch(order[r][k]) THEN k ELSE published[r]

\* The next turn of the loop of _baseApply; the last node of a batch ends
\* with db.flush(), which is when readers see the batch.
ApplyNext(r) ==
    /\ ~Idle(r)
    /\ LET k == Applied(r) + 1
           n == order[r][k]
       IN  /\ db' = [db EXCEPT ![r] = Append(@, Apply(LastView(r), n, Op(n), Seen(order[r], k)))]
           /\ published' = [published EXCEPT ![r] = Shown(r, k)]
    /\ UNCHANGED <<log, order, queue, phase, root, restarts>>

\* A drive is closed, or dies, and is opened again: the logs are on disk,
\* the sessions are gone, and part of the view is computed anew.
Restart(r) ==
    /\ restarts < MaxRestarts
    /\ restarts' = restarts + 1
    /\ \E k \in 0 .. published[r] :
          /\ k > 0 => EndsBatch(order[r][k])
          /\ db' = [db EXCEPT ![r] = SubSeq(@, 1, k + 1)]
          /\ published' = [published EXCEPT ![r] = k]
    /\ queue' = [queue EXCEPT ![r] = [s \in Sessions |-> << >>]]
    /\ phase' = [phase EXCEPT ![r] = [b \in Batches |-> "open"]]
    /\ root' = [root EXCEPT ![r] = [b \in Batches |-> << >>]]
    /\ UNCHANGED <<log, order>>

-----------------------------------------------------------------------------
Init ==
    /\ log = [w \in Drives |-> << >>]
    /\ order = [r \in Drives |-> << >>]
    /\ db = [r \in Drives |-> <<EmptyView(Founders)>>]
    /\ published = [r \in Drives |-> 0]
    /\ queue = [r \in Drives |-> [s \in Sessions |-> << >>]]
    /\ phase = [r \in Drives |-> [b \in Batches |-> "open"]]
    /\ root = [r \in Drives |-> [b \in Batches |-> << >>]]
    /\ restarts = 0

Request(r, s) ==
    \/ \E p \in Paths : Put(r, s, p) \/ Del(r, s, p)
    \/ \E p \in Paths, f \in BOOLEAN :
          Resolve(r, s, p, f) \/ WriteStream(r, s, p, f) \/ Symlink(r, s, p, f)
    \/ \E d \in Guests, removed \in BOOLEAN : Admit(r, s, d, removed)

Submit(r, s) ==
    \/ AppendCall(r, s) \/ RejectCall(r, s)
    \/ Flush(r, s) \/ FlushEmpty(r, s) \/ FlushDone(r, s)

Sync(r) == ApplyNext(r) \/ \E w \in Drives : Deliver(r, w)

Next ==
    \E r \in Drives :
        \/ \E s \in Sessions : Request(r, s) \/ Submit(r, s)
        \/ Sync(r)
        \/ Restart(r)

Spec == Init /\ [][Next]_vars

\* Autobase goes on applying what it has, and peers go on replicating.
FairSpec == Spec /\ \A r \in Drives : WF_vars(Sync(r))

-----------------------------------------------------------------------------
(***************************************************************************)
(* Properties.                                                             *)
(***************************************************************************)
NodeRecords == [op : Ops, past : SUBSET LogIds, first : Nat \ {0}, last : Nat \ {0}]

\* The variables have their types; an order only names nodes that exist, and
\* there is one view for every applied prefix of it.
TypeOK ==
    /\ log \in [Drives -> Seq(NodeRecords)]
    /\ order \in [Drives -> Seq(LogIds)]
    /\ DOMAIN db = Drives
    /\ \A r \in Drives :
          /\ DOMAIN db[r] = 1 .. Len(db[r])
          /\ Len(db[r]) \in 1 .. Len(order[r]) + 1
          /\ \A k \in DOMAIN db[r] : ViewType(db[r][k])
          /\ published[r] \in 0 .. Applied(r)
    /\ DOMAIN published = Drives
    /\ queue \in [Drives -> [Sessions -> Seq(Ops)]]
    /\ DOMAIN root = Drives
    /\ \A r \in Drives :
          /\ DOMAIN root[r] = Batches
          /\ \A b \in Batches : \A i \in DOMAIN root[r][b] : ViewType(root[r][b][i])
    /\ phase \in [Drives -> [Batches -> {"open", "flushing", "flushed"}]]
    /\ restarts \in Nat

\* On every replica, after every node, files and history tell the same story:
\* what entry() returns is what history() lists first, and every version
\* history() lists can be read back by its seq.
HistoryIsTrue ==
    \A r \in Drives : \A k \in DOMAIN db[r] :
        FilesMatchHistory(db[r][k]) /\ HistoryResolves(db[r][k])

\* A conflict never stands alone: whoever finds one finds what it is with.
ConflictsAreWithSomething ==
    \A r \in Drives : \A k \in DOMAIN db[r] : ConflictsHaveRecord(db[r][k])

\* Whatever order a replica chose, nobody from another namespace ever gets an
\* entry into a path, not even as a conflict: what namespace() is for.
NamespacesAreKept ==
    \A r \in Drives : \A k \in DOMAIN db[r] : OneNamespace(db[r][k])

\* Replicas that applied the same nodes in the same order have the same files,
\* however often they had to undo and whatever they had seen in between.
Convergence ==
    \A r, s \in Drives : \A k \in DOMAIN db[r] \cap DOMAIN db[s] :
        (\A i \in 1 .. k - 1 : order[r][i] = order[s][i]) => db[r][k] = db[s][k]

\* A path in conflict stays as it is until it is resolved: only a resolution
\* changes its entry or its history, and then no conflict is left.
ConflictsAreFrozen ==
    \A r \in Drives : \A k \in 1 .. Applied(r) : \A p \in Paths :
        LET v == db[r][k]
            w == db[r][k + 1]
            op == Op(order[r][k])
        IN  InConflict(v, p) /\ v.history[p] # w.history[p] =>
                op.type = "resolution" /\ op.path = p /\ ~InConflict(w, p)

\* A deletion that del() accepted is never lost: whenever a replica applies it,
\* in whatever order, the path has a record (368 ignores it otherwise), and
\* afterwards the file is gone, by this deletion or by one that came first
\* (351-354), unless the path is in conflict or the author of another namespace.
DeletionsTakeEffect ==
    \A r \in Drives : \A k \in 1 .. Applied(r) :
        LET n == order[r][k]
            p == Op(n).path
            v == db[r][k]
            w == db[r][k + 1]
        IN  Op(n).type = "deletion" =>
                /\ Recorded(v, p)
                /\ p \in DOMAIN w.files => InConflict(w, p) \/ ~Owned(v, p, Source(n))

\* Readers see all of a batch or nothing of it (README "Atomically make changes").
BatchesAreAtomic ==
    \A r \in Drives :
        published[r] > 0 => EndsBatch(order[r][published[r]])

CaughtUp(r) == Elements(order[r]) = LogIds /\ published[r] = Len(order[r])

\* Writing ends, here with MaxNodes.  Every replica then ends up showing
\* everything that was appended: no two replicas wait for one another, and
\* no undoing and applying again goes on for ever.
WritesArrive == <>[](\A r \in Drives : CaughtUp(r))

-----------------------------------------------------------------------------
(***************************************************************************)
(* Claims of the documentation and the tests that the code does not keep.  *)
(***************************************************************************)
\* An entry written by another source is only replaced by someone who had seen
\* it; otherwise apply() finds a conflict, as the "Conflicts" test has it
\* (src/test/autodrive.js 88-111) and as same() is meant to tell (1374).
OverwritesAreSeen ==
    \A r \in Drives : \A k \in 1 .. Applied(r) :
        LET n == order[r][k]
            v == db[r][k]
        IN  /\ Op(n).type \in {"addition", "deletion"}
            /\ Op(n).path \in DOMAIN v.files
            /\ db[r][k + 1].history[Op(n).path] # v.history[Op(n).path]
            => \/ v.files[Op(n).path].node \in Past(n)
               \/ Source(v.files[Op(n).path].node) = Source(n)

\* What a batch session collected is in the log before flush() forgets it
\* (README 173).
FlushedQueueIsLogged ==
    \A r \in Drives, b \in Batches :
        phase[r][b] = "flushing" =>
            \E i \in 0 .. Len(log[r]) :
                /\ i + Len(queue[r][b]) <= Len(log[r])
                /\ \A j \in DOMAIN queue[r][b] : log[r][i + j].op = queue[r][b][j]
=============================================================================
