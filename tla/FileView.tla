------------------------------ MODULE FileView ------------------------------
(***************************************************************************)
(* The file database of a drive, and the reducer that maintains it: the    *)
(* handlers of Autodrive._baseApply in src/src/index.ts (323-402).         *)
(*                                                                         *)
(* A view is a Hyperbee with three sub-databases.  For a path p            *)
(*   files[p]      is the current entry          (Files,  constants.ts 13) *)
(*   history[p]    maps a version to what happened then (History, 14)      *)
(*   conflicts[p]  maps a version to a conflicting entry (Conflict, 15)    *)
(* and blocks is the append-only core underneath: the k-th write is the    *)
(* block with sequence number k, sequence number 0 being the header.       *)
(*                                                                         *)
(* An entry is named by the log node that wrote it: a node <<w, i>> is the *)
(* i-th block of writer w's core, so w is also the "source" of the entry   *)
(* (from.manifest.signers[0].publicKey).                                   *)
(***************************************************************************)
EXTENDS Naturals, Sequences, FiniteSets

CONSTANTS
    Drives,     \* the drives, each named by the public key of its local writer
    Paths,      \* normalised path names
    Namespace   \* the namespace() option: Namespace[w] is the namespace of source w

ASSUME NamespaceAssumption == DOMAIN Namespace = Drives

Nodes == Drives \X (Nat \ {0})
Source(n) == n[1]

(***************************************************************************)
(* Operations as they are stored in a writer's core.                       *)
(***************************************************************************)
FileOps ==
    [type : {"addition", "deletion"}, path : Paths]
        \cup [type : {"resolution"}, path : Paths, file : BOOLEAN]
WriterOps == [type : {"writer"}, key : Drives, removed : BOOLEAN]
Ops == FileOps \cup WriterOps

Addition(p) == [type |-> "addition", path |-> p]
Deletion(p) == [type |-> "deletion", path |-> p]
Resolution(p, f) == [type |-> "resolution", path |-> p, file |-> f]
Membership(d, r) == [type |-> "writer", key |-> d, removed |-> r]

-----------------------------------------------------------------------------
(***************************************************************************)
(* The Hyperbee underneath.  Every put appends one block; a del appends    *)
(* one when the key exists.                                                *)
(***************************************************************************)
NoKeys == [k \in {} |-> k]
With(f, k, e) == [x \in DOMAIN f \cup {k} |-> IF x = k THEN e ELSE f[x]]
Without(f, k) == [x \in DOMAIN f \ {k} |-> f[x]]

EmptyView(members) ==
    [blocks    |-> << >>,
     files     |-> NoKeys,
     history   |-> [p \in Paths |-> NoKeys],
     conflicts |-> [p \in Paths |-> NoKeys],
     members   |-> members]

\* The header block forgotten.
BlockCount(v) == Len(v.blocks)

\* db.version: the length of the core, the header block included.
Version(v) == Len(v.blocks) + 1

Block(s, p, n) == [sub |-> s, path |-> p, node |-> n]

\* db.put(path, { ...file, source }, Files)
PutFile(v, p, n) ==
    [v EXCEPT !.blocks = Append(@, Block("file", p, n)),
              !.files  = With(@, p, [seq |-> Version(v), node |-> n])]

\* The entry is left where it is.
KeepFile(v, p, n) == v

\* db.del(path, Files)
DelFile(v, p, n) ==
    IF p \in DOMAIN v.files
    THEN [v EXCEPT !.blocks = Append(@, Block("del", p, n)),
                   !.files  = Without(@, p)]
    ELSE v

\* A record filed one version too late: it names its own block.
PutHistoryAtVersion(v, p, t, n) ==
    [v EXCEPT !.blocks = Append(@, Block("history", p, n)),
              !.history[p] = With(@, Version(v), [type |-> t, source |-> Source(n)])]

\* db.put(db.version - 1, { type, source }, history(path)): the record is
\* filed under the sequence number of the block just written.
PutHistory(v, p, t, n) ==
    [v EXCEPT !.blocks = Append(@, Block("history", p, n)),
              !.history[p] = With(@, Version(v) - 1, [type |-> t, source |-> Source(n)])]

\* db.put(db.version, { ...file, source }, conflicts(path))
PutConflict(v, p, n) ==
    [v EXCEPT !.blocks = Append(@, Block("conflict", p, n)),
              !.conflicts[p] = With(@, Version(v), n)]

\* The loop that deletes every conflict at a path, one block each.
ClearConflicts(v, p, n) ==
    [v EXCEPT !.blocks = @ \o [i \in 1 .. Cardinality(DOMAIN v.conflicts[p]) |->
                                  Block("del", p, n)],
              !.conflicts[p] = NoKeys]

-----------------------------------------------------------------------------
(***************************************************************************)
(* Reads the handlers share: db.peek over history(path) and                *)
(* conflicts(path).                                                        *)
(***************************************************************************)
Recorded(v, p) == DOMAIN v.history[p] # {}
InConflict(v, p) == DOMAIN v.conflicts[p] # {}

OldestKey(h) == CHOOSE k \in DOMAIN h : \A j \in DOMAIN h : k <= j
LatestKey(h) == CHOOSE k \in DOMAIN h : \A j \in DOMAIN h : j <= k

Latest(v, p) == v.history[p][LatestKey(v.history[p])]
Oldest(v, p) == v.history[p][OldestKey(v.history[p])]
FirstConflict(v, p) == v.conflicts[p][OldestKey(v.conflicts[p])]

Owned(v, p, w) == Namespace[w] = Namespace[Latest(v, p).source]

\* Null-safe in the wrong way: a missing record counts as somebody else's.
ConflictingWithNothing(v, p, w, seen) ==
    \/ InConflict(v, p)
    \/ ~seen /\ (Recorded(v, p) => Latest(v, p).source # w)

\* hasConflict; "seen" is same(heads, this.heads()).
Conflicting(v, p, w, seen) ==
    \/ InConflict(v, p)
    \/ Recorded(v, p) /\ Latest(v, p).source # w /\ ~seen

-----------------------------------------------------------------------------
(***************************************************************************)
(* What a handler decides.  "denied" and "not_found" emit "error",         *)
(* "conflict" emits "conflict", "ignored" emits nothing.                   *)
(***************************************************************************)
AdditionOutcomeUnchecked(v, p, w, seen) ==
    IF Conflicting(v, p, w, seen) THEN "conflict" ELSE "applied"

AdditionOutcomeForgetsConflict(v, p, w, seen) ==
    IF Recorded(v, p) /\ ~Owned(v, p, w) THEN "denied"
    ELSE IF Recorded(v, p) /\ Latest(v, p).source # w /\ ~seen THEN "conflict"
    ELSE "applied"

AdditionOutcome(v, p, w, seen) ==
    IF Recorded(v, p) /\ ~Owned(v, p, w) THEN "denied"
    ELSE IF Conflicting(v, p, w, seen) THEN "conflict"
    ELSE "applied"

DeletionOutcome(v, p, w, seen) ==
    IF Recorded(v, p) /\ Latest(v, p).type = "tombstone" THEN "not_found"
    ELSE IF Recorded(v, p) /\ ~Owned(v, p, w) THEN "denied"
    ELSE IF Conflicting(v, p, w, seen) THEN "conflict"
    ELSE IF Recorded(v, p) THEN "applied"
    ELSE "ignored"

\* The only handler that peeks at the oldest record, not the latest.
ResolutionOutcome(v, p, w) ==
    IF ~Recorded(v, p) THEN "ignored"
    ELSE IF Namespace[w] # Namespace[Oldest(v, p).source] THEN "denied"
    ELSE "applied"

-----------------------------------------------------------------------------
(***************************************************************************)
(* The handlers.                                                           *)
(***************************************************************************)
AdditionOp(v, n, p, seen) ==
    LET outcome == AdditionOutcome(v, p, Source(n), seen)
    IN  IF outcome = "conflict" THEN PutConflict(v, p, n)
        ELSE IF outcome = "applied" THEN PutHistory(PutFile(v, p, n), p, "file", n)
        ELSE v

DeletionOp(v, n, p, seen) ==
    LET outcome == DeletionOutcome(v, p, Source(n), seen)
    IN  IF outcome = "conflict" THEN PutConflict(v, p, n)
        ELSE IF outcome = "applied" THEN PutHistory(DelFile(v, p, n), p, "tombstone", n)
        ELSE v

ResolutionOp(v, n, p, file) ==
    LET cleared == ClearConflicts(v, p, n)
    IN  IF ResolutionOutcome(v, p, Source(n)) # "applied" THEN v
        ELSE IF file THEN PutHistory(PutFile(cleared, p, n), p, "file", n)
        ELSE PutHistory(DelFile(cleared, p, n), p, "tombstone", n)

\* base.addWriter and base.removeWriter
WriterOp(v, key, removed) ==
    [v EXCEPT !.members = IF removed THEN @ \ {key} ELSE @ \cup {key}]

\* One turn of the loop of _baseApply.
Apply(v, n, op, seen) ==
    CASE op.type = "addition" -> AdditionOp(v, n, op.path, seen)
      [] op.type = "deletion" -> DeletionOp(v, n, op.path, seen)
      [] op.type = "resolution" -> ResolutionOp(v, n, op.path, op.file)
      [] OTHER -> WriterOp(v, op.key, op.removed)

-----------------------------------------------------------------------------
(***************************************************************************)
(* What a view promises.                                                   *)
(***************************************************************************)
Blocks == [sub : {"file", "del", "history", "conflict"}, path : Paths, node : Nodes]
Entries == [seq : Nat \ {0}, node : Nodes]
Records == [type : {"file", "tombstone"}, source : Drives]
Versions == Nat \ {0}

\* A partial map from sequence numbers to S.
KeyedBy(f, S) == DOMAIN f \subseteq Versions /\ \A k \in DOMAIN f : f[k] \in S

\* The type of a view, in a form TLC can evaluate.
ViewType(v) ==
    /\ DOMAIN v = {"blocks", "files", "history", "conflicts", "members"}
    /\ v.blocks \in Seq(Blocks)
    /\ DOMAIN v.files \subseteq Paths
    /\ \A p \in DOMAIN v.files : v.files[p] \in Entries
    /\ DOMAIN v.history = Paths /\ DOMAIN v.conflicts = Paths
    /\ \A p \in Paths : KeyedBy(v.history[p], Records) /\ KeyedBy(v.conflicts[p], Nodes)
    /\ v.members \subseteq Drives

\* A file exists exactly when the latest record of its path says "file",
\* and that record is filed under the version of the current entry.
FilesMatchHistory(v) ==
    \A p \in Paths :
        /\ p \in DOMAIN v.files <=> Recorded(v, p) /\ Latest(v, p).type = "file"
        /\ p \in DOMAIN v.files =>
              /\ v.files[p].seq = LatestKey(v.history[p])
              /\ Source(v.files[p].node) = Latest(v, p).source

\* Every "file" record leads back, through getBySeq, to an entry of that
\* path written by the recorded source.
HistoryResolves(v) ==
    \A p \in Paths : \A k \in DOMAIN v.history[p] :
        v.history[p][k].type = "file" =>
            /\ k <= Len(v.blocks)
            /\ v.blocks[k].sub = "file" /\ v.blocks[k].path = p
            /\ Source(v.blocks[k].node) = v.history[p][k].source

\* Conflicts only ever stand beside a record.
ConflictsHaveRecord(v) ==
    \A p \in Paths : InConflict(v, p) => Recorded(v, p)

\* All who ever wrote at a path, accepted or in conflict, share a namespace.
OneNamespace(v) ==
    \A p \in Paths :
        \A k \in DOMAIN v.history[p] :
            /\ \A j \in DOMAIN v.history[p] :
                  Namespace[v.history[p][j].source] = Namespace[v.history[p][k].source]
            /\ \A c \in DOMAIN v.conflicts[p] :
                  Namespace[Source(v.conflicts[p][c])] = Namespace[v.history[p][k].source]
=============================================================================
