-------------------------- MODULE HistoryWalkProofs --------------------------
(***************************************************************************)
(* What the walks of HistoryWalk yield and clear is what was on record.    *)
(*                                                                         *)
(* The argument: a number stands for the same block as long as the         *)
(* database is not undone below it, since blocks are only ever appended;   *)
(* a record of type "file" is filed under the block of its entry, and a    *)
(* block that is not an entry's is never mistaken for one.                 *)
(***************************************************************************)
EXTENDS HistoryWalk, FileViewProofs

(***************************************************************************)
(* The blocks of a view.                                                   *)
(***************************************************************************)
\* The block of an entry holds the node of the entry.
EntriesAreBlocks(v) ==
    \A p \in DOMAIN v.files :
        /\ v.files[p].seq \in 1 .. Len(v.blocks)
        /\ v.blocks[v.files[p].seq].sub = "file"
        /\ v.blocks[v.files[p].seq].node = v.files[p].node

\* No deletion is filed under the block of an entry.
TombstonesAreNoEntries(v) ==
    \A p \in Paths : \A k \in DOMAIN v.history[p] :
        v.history[p][k].type = "tombstone" => v.blocks[k].sub # "file"

\* No operation ends with the block of an entry: the record comes after it.
EndsInNoEntry(v) == Len(v.blocks) > 0 => v.blocks[Len(v.blocks)].sub # "file"

BlockInv(v) ==
    /\ ViewInv(v)
    /\ EntriesAreBlocks(v)
    /\ TombstonesAreNoEntries(v)
    /\ EndsInNoEntry(v)

\* The empty database has no blocks.
LEMMA EmptyBlockInv == BlockInv(EmptyView(Drives))
  <1> DEFINE v == EmptyView(Drives)
  <1>1. ViewInv(v)
    BY EmptyViewInv
  <1>2. /\ DOMAIN v.files = {} /\ Len(v.blocks) = 0
        /\ \A p \in Paths : DOMAIN v.history[p] = {}
    BY DEF EmptyView, NoKeys
  <1> HIDE DEF v
  <1>3. EntriesAreBlocks(v) /\ TombstonesAreNoEntries(v) /\ EndsInNoEntry(v)
    BY <1>2 DEF EntriesAreBlocks, TombstonesAreNoEntries, EndsInNoEntry
  <1> QED BY <1>1, <1>3 DEF BlockInv, v

\* Where entries and records are the same and blocks other than an entry's are
\* added, everything stays as it is.
LEMMA SameRecords ==
    ASSUME NEW v, BlockInv(v), NEW w, ViewInv(w), Grows(v, w), EndsInNoEntry(w),
           w.files = v.files, w.history = v.history
    PROVE  BlockInv(w)
  <1>1. Len(v.blocks) \in Nat /\ Len(w.blocks) \in Nat
    BY ViewParts DEF BlockInv
  <1>2. EntriesAreBlocks(w)
    BY <1>1 DEF BlockInv, EntriesAreBlocks, Grows
  <1>3. TombstonesAreNoEntries(w)
    <2> SUFFICES ASSUME NEW p \in Paths, NEW k \in DOMAIN v.history[p],
                        v.history[p][k].type = "tombstone"
                 PROVE  w.blocks[k].sub # "file"
      BY DEF TombstonesAreNoEntries
    <2>1. k \in 1 .. Len(v.blocks)
      BY ViewParts DEF BlockInv
    <2> QED BY <2>1 DEF BlockInv, TombstonesAreNoEntries, Grows
  <1> QED BY <1>2, <1>3 DEF BlockInv

\* An operation put aside as a conflict.
LEMMA ConflictBlocks ==
    ASSUME NEW v, BlockInv(v), NEW p \in Paths, NEW n \in Nodes,
           ViewInv(PutConflict(v, p, n))
    PROVE  BlockInv(PutConflict(v, p, n)) /\ Grows(v, PutConflict(v, p, n))
  <1> DEFINE w == PutConflict(v, p, n)
             c == Block("conflict", p, n)
  <1>1. v \in Views /\ v.blocks \in Seq(Blocks) /\ Len(v.blocks) \in Nat
    BY ViewParts DEF BlockInv
  <1>2. w.blocks = Append(v.blocks, c) /\ w.files = v.files /\ w.history = v.history
    BY <1>1, PutConflictIs, ZenonT(60)
  <1>3. c \in Blocks /\ c.sub = "conflict"
    BY BlockTypes DEF Block
  <1> HIDE DEF w, c
  <1>4. Len(w.blocks) = Len(v.blocks) + 1 /\ w.blocks[Len(v.blocks) + 1] = c
    BY <1>1, <1>2, <1>3
  <1>5. Grows(v, w)
    BY <1>1, <1>2, <1>3, <1>4 DEF Grows
  <1>6. EndsInNoEntry(w)
    BY <1>3, <1>4 DEF EndsInNoEntry
  <1> QED BY <1>2, <1>5, <1>6, SameRecords DEF w

\* The blocks that clear the conflicts of a path.
LEMMA ClearedBlocks ==
    ASSUME NEW v, BlockInv(v), NEW p \in Paths, NEW n \in Nodes
    PROVE  BlockInv(ClearConflicts(v, p, n)) /\ Grows(v, ClearConflicts(v, p, n))
  <1> DEFINE w == ClearConflicts(v, p, n)
             c == Cardinality(DOMAIN v.conflicts[p])
             d == Block("del", p, n)
             dels == [i \in 1 .. c |-> d]
  <1>1. v \in Views /\ v.blocks \in Seq(Blocks) /\ Len(v.blocks) \in Nat /\ ViewInv(v)
    BY ViewParts DEF BlockInv
  <1>2. IsFiniteSet(DOMAIN v.conflicts[p])
    BY <1>1 DEF ViewInv
  <1>3. c \in Nat
    BY <1>2, FS_CardinalityType
  <1>4. w.files = v.files /\ w.history = v.history
    BY <1>1, <1>2, ClearConflictsIs
  <1>5. w.blocks = v.blocks \o dels
    BY <1>1 DEF ClearConflicts, Views
  <1>6. ViewInv(w)
    BY <1>1, ClearedInv
  <1>7. d \in Blocks /\ d.sub = "del"
    BY BlockTypes DEF Block
  <1> HIDE DEF w, c, d
  <1>8. dels \in Seq(Blocks) /\ Len(dels) = c /\ \A i \in 1 .. c : dels[i] = d
    BY <1>3, <1>7
  <1> HIDE DEF dels
  <1>9. /\ Len(w.blocks) = Len(v.blocks) + c
        /\ \A i \in 1 .. Len(v.blocks) : w.blocks[i] = v.blocks[i]
        /\ c > 0 => w.blocks[Len(v.blocks) + c] = d
    <2>1. /\ Len(v.blocks \o dels) = Len(v.blocks) + c
          /\ \A i \in 1 .. Len(v.blocks) : (v.blocks \o dels)[i] = v.blocks[i]
      BY <1>1, <1>3, <1>8
    <2>2. ASSUME c > 0 PROVE (v.blocks \o dels)[Len(v.blocks) + c] = d
      <3>1. (v.blocks \o dels)[Len(v.blocks) + c] = dels[Len(v.blocks) + c - Len(v.blocks)]
        BY <1>1, <1>3, <1>8, <2>2, ConcatProperties
      <3>2. Len(v.blocks) + c - Len(v.blocks) = c /\ c \in 1 .. c
        BY <1>1, <1>3, <2>2
      <3> QED BY <3>1, <3>2, <1>8
    <2> QED BY <2>1, <2>2, <1>5
  <1>10. Grows(v, w)
    BY <1>1, <1>3, <1>9 DEF Grows
  <1>11. EndsInNoEntry(w)
    <2>1. CASE c = 0
      BY <2>1, <1>1, <1>9 DEF BlockInv, EndsInNoEntry
    <2>2. CASE c > 0
      BY <2>2, <1>7, <1>9 DEF EndsInNoEntry
    <2> QED BY <2>1, <2>2, <1>3
  <1> QED BY <1>4, <1>6, <1>10, <1>11, SameRecords DEF w

\* A file that is accepted: its block is the one before the record of it.
LEMMA FileBlocks ==
    ASSUME NEW v, BlockInv(v), NEW p \in Paths, NEW n \in Nodes,
           ViewInv(PutHistory(PutFile(v, p, n), p, "file", n))
    PROVE  /\ BlockInv(PutHistory(PutFile(v, p, n), p, "file", n))
           /\ Grows(v, PutHistory(PutFile(v, p, n), p, "file", n))
  <1> DEFINE w == PutHistory(PutFile(v, p, n), p, "file", n)
             L == Len(v.blocks) + 1
             entry == [seq |-> L, node |-> n]
             e == [type |-> "file", source |-> Source(n)]
  <1>1. v \in Views /\ Len(v.blocks) \in Nat /\ ViewInv(v)
    BY ViewParts DEF BlockInv
  <1>2. /\ Grows(v, w) /\ Len(w.blocks) = L + 1
        /\ w.blocks[L] = Block("file", p, n) /\ w.blocks[L + 1] = Block("history", p, n)
        /\ w.files = With(v.files, p, entry)
        /\ w.history = [v.history EXCEPT ![p] = With(v.history[p], L, e)]
    BY <1>1, FileFiled
  <1>3. /\ w.blocks[L].sub = "file" /\ w.blocks[L].node = n
        /\ w.blocks[L + 1].sub = "history"
        /\ entry.seq = L /\ entry.node = n /\ e.type = "file"
    BY <1>2 DEF Block
  <1> HIDE DEF w, entry, e
  <1>4. EntriesAreBlocks(w)
    <2> SUFFICES ASSUME NEW q \in DOMAIN w.files
                 PROVE  /\ w.files[q].seq \in 1 .. Len(w.blocks)
                        /\ w.blocks[w.files[q].seq].sub = "file"
                        /\ w.blocks[w.files[q].seq].node = w.files[q].node
      BY DEF EntriesAreBlocks
    <2>1. CASE q = p
      <3>1. w.files[q] = entry
        BY <2>1, <1>2 DEF With
      <3> QED BY <3>1, <1>1, <1>2, <1>3
    <2>2. CASE q # p
      <3>1. q \in DOMAIN v.files /\ w.files[q] = v.files[q]
        BY <2>2, <1>2 DEF With
      <3>2. /\ v.files[q].seq \in 1 .. Len(v.blocks)
            /\ v.blocks[v.files[q].seq].sub = "file"
            /\ v.blocks[v.files[q].seq].node = v.files[q].node
        BY <3>1 DEF BlockInv, EntriesAreBlocks
      <3> QED BY <3>1, <3>2, <1>1, <1>2 DEF Grows
    <2> QED BY <2>1, <2>2
  <1>5. TombstonesAreNoEntries(w)
    <2> SUFFICES ASSUME NEW q \in Paths, NEW k \in DOMAIN w.history[q],
                        w.history[q][k].type = "tombstone"
                 PROVE  w.blocks[k].sub # "file"
      BY DEF TombstonesAreNoEntries
    <2>1. v.history \in [Paths -> PartialMaps(Versions, Records)]
      BY <1>1 DEF Views
    <2>2. CASE q = p /\ k = L
      <3>1. w.history[q] = With(v.history[p], L, e)
        BY <2>1, <2>2, <1>2
      <3>2. w.history[q][k] = e
        BY <2>2, <3>1 DEF With
      <3> QED BY <3>2, <1>3
    <2>3. CASE ~(q = p /\ k = L)
      <3>1. k \in DOMAIN v.history[q] /\ w.history[q][k] = v.history[q][k]
        <4>1. CASE q = p
          <5>1. w.history[q] = With(v.history[p], L, e)
            BY <2>1, <4>1, <1>2
          <5> QED BY <2>3, <4>1, <5>1 DEF With
        <4>2. CASE q # p
          BY <2>1, <4>2, <1>2
        <4> QED BY <4>1, <4>2
      <3>2. k \in 1 .. Len(v.blocks)
        BY <3>1, <1>1, ViewParts
      <3> QED BY <3>1, <3>2, <1>2 DEF BlockInv, TombstonesAreNoEntries, Grows
    <2> QED BY <2>2, <2>3
  <1>6. EndsInNoEntry(w)
    BY <1>1, <1>2, <1>3 DEF EndsInNoEntry
  <1> QED BY <1>2, <1>4, <1>5, <1>6 DEF BlockInv, w

\* A deletion that is accepted is filed under a block that is not an entry's.
LEMMA TombstoneBlocks ==
    ASSUME NEW v, BlockInv(v), NEW p \in Paths, NEW n \in Nodes, Recorded(v, p),
           ViewInv(PutHistory(DelFile(v, p, n), p, "tombstone", n))
    PROVE  /\ BlockInv(PutHistory(DelFile(v, p, n), p, "tombstone", n))
           /\ Grows(v, PutHistory(DelFile(v, p, n), p, "tombstone", n))
  <1> DEFINE w == PutHistory(DelFile(v, p, n), p, "tombstone", n)
             L == IF p \in DOMAIN v.files THEN Len(v.blocks) + 1 ELSE Len(v.blocks)
             e == [type |-> "tombstone", source |-> Source(n)]
  <1>1. v \in Views /\ Len(v.blocks) \in Nat /\ ViewInv(v)
    BY ViewParts DEF BlockInv
  <1>2. Len(v.blocks) > 0
    BY <1>1, ViewParts DEF Recorded
  <1>3. /\ Grows(v, w) /\ Len(w.blocks) = L + 1
        /\ p \in DOMAIN v.files => w.blocks[L] = Block("del", p, n)
        /\ w.blocks[L + 1] = Block("history", p, n)
        /\ DOMAIN w.files = DOMAIN v.files \ {p}
        /\ \A q \in DOMAIN w.files : w.files[q] = v.files[q]
        /\ w.history = [v.history EXCEPT ![p] = With(v.history[p], L, e)]
    BY <1>1, <1>2, TombstoneFiled
  <1>4. w.blocks[L + 1].sub = "history"
    BY <1>3 DEF Block
  <1>5. w.blocks[L].sub # "file"
    <2>1. CASE p \in DOMAIN v.files
      BY <2>1, <1>3 DEF Block
    <2>2. CASE p \notin DOMAIN v.files
      BY <2>2, <1>1, <1>2, <1>3 DEF BlockInv, EndsInNoEntry, Grows
    <2> QED BY <2>1, <2>2
  <1>6. L \in Nat
    BY <1>1
  <1> HIDE DEF w, L, e
  <1>7. EntriesAreBlocks(w)
    <2> SUFFICES ASSUME NEW q \in DOMAIN w.files
                 PROVE  /\ w.files[q].seq \in 1 .. Len(w.blocks)
                        /\ w.blocks[w.files[q].seq].sub = "file"
                        /\ w.blocks[w.files[q].seq].node = w.files[q].node
      BY DEF EntriesAreBlocks
    <2>1. q \in DOMAIN v.files /\ w.files[q] = v.files[q]
      BY <1>3
    <2>2. /\ v.files[q].seq \in 1 .. Len(v.blocks)
          /\ v.blocks[v.files[q].seq].sub = "file"
          /\ v.blocks[v.files[q].seq].node = v.files[q].node
      BY <2>1 DEF BlockInv, EntriesAreBlocks
    <2> QED BY <2>1, <2>2, <1>1, <1>3, <1>6 DEF Grows
  <1>8. TombstonesAreNoEntries(w)
    <2> SUFFICES ASSUME NEW q \in Paths, NEW k \in DOMAIN w.history[q],
                        w.history[q][k].type = "tombstone", k # L
                 PROVE  w.blocks[k].sub # "file"
      BY <1>5 DEF TombstonesAreNoEntries
    <2>1. v.history \in [Paths -> PartialMaps(Versions, Records)]
      BY <1>1 DEF Views
    <2>2. k \in DOMAIN v.history[q] /\ w.history[q][k] = v.history[q][k]
      <3>1. CASE q = p
        <4>1. w.history[q] = With(v.history[p], L, e)
          BY <2>1, <3>1, <1>3
        <4> QED BY <3>1, <4>1 DEF With
      <3>2. CASE q # p
        BY <2>1, <3>2, <1>3
      <3> QED BY <3>1, <3>2
    <2>3. k \in 1 .. Len(v.blocks)
      BY <2>2, <1>1, ViewParts
    <2> QED BY <2>2, <2>3, <1>3 DEF BlockInv, TombstonesAreNoEntries, Grows
  <1>9. EndsInNoEntry(w)
    BY <1>3, <1>4, <1>6 DEF EndsInNoEntry
  <1> QED BY <1>3, <1>7, <1>8, <1>9 DEF BlockInv, w

\* Every operation appends blocks only, and keeps what the numbers of entries
\* and of deletions stand for.
LEMMA ApplyBlocks ==
    ASSUME NEW v, BlockInv(v), NEW n \in Nodes, NEW op \in FileOps, NEW seen
    PROVE  BlockInv(Apply(v, n, op, seen)) /\ Grows(v, Apply(v, n, op, seen))
  <1> DEFINE w == Apply(v, n, op, seen)
             p == op.path
             u == ClearConflicts(v, p, n)
  <1> SUFFICES BlockInv(w) /\ Grows(v, w)
    OBVIOUS
  <1>1. ViewInv(v) /\ v \in Views
    BY DEF BlockInv, ViewInv
  <1>2. op \in Ops /\ p \in Paths /\ op.type \in {"addition", "deletion", "resolution"}
    BY DEF Ops, FileOps
  <1>3. ViewInv(w)
    BY <1>1, <1>2, ApplyInv
  <1>4. Grows(v, v)
    BY <1>1, ViewParts DEF Grows
  <1>5. CASE op.type = "addition"
    <2>1. w = AdditionOp(v, n, p, seen)
      BY <1>5 DEF Apply
    <2>2. w \in {PutConflict(v, p, n), PutHistory(PutFile(v, p, n), p, "file", n), v}
      BY <2>1 DEF AdditionOp
    <2> HIDE DEF w
    <2> QED BY <1>2, <1>3, <1>4, <2>2, ConflictBlocks, FileBlocks
  <1>6. CASE op.type = "deletion"
    <2>1. w = DeletionOp(v, n, p, seen)
      BY <1>6 DEF Apply
    <2>2. \/ w = PutConflict(v, p, n)
          \/ w = PutHistory(DelFile(v, p, n), p, "tombstone", n) /\ Recorded(v, p)
          \/ w = v
      BY <2>1 DEF DeletionOp, DeletionOutcome
    <2> HIDE DEF w
    <2> QED BY <1>2, <1>3, <1>4, <2>2, ConflictBlocks, TombstoneBlocks
  <1>7. CASE op.type = "resolution"
    <2>1. w = ResolutionOp(v, n, p, op.file)
      BY <1>7 DEF Apply
    <2>2. \/ w = PutHistory(PutFile(u, p, n), p, "file", n)
          \/ w = PutHistory(DelFile(u, p, n), p, "tombstone", n) /\ Recorded(v, p)
          \/ w = v
      BY <2>1 DEF ResolutionOp, ResolutionOutcome
    <2>3. BlockInv(u) /\ Grows(v, u)
      BY <1>2, ClearedBlocks
    <2>4. u \in Views /\ (Recorded(v, p) => Recorded(u, p))
      BY <1>1, <1>2, ClearedInv DEF Recorded, ViewInv
    <2> HIDE DEF w, u
    <2>5. w = v \/ (BlockInv(w) /\ Grows(u, w))
      BY <1>2, <1>3, <2>2, <2>3, <2>4, FileBlocks, TombstoneBlocks
    <2>6. w \in Views
      BY <1>3 DEF ViewInv
    <2> QED BY <1>1, <1>4, <2>3, <2>4, <2>5, <2>6, GrowsTwice
  <1> QED BY <1>2, <1>5, <1>6, <1>7

-----------------------------------------------------------------------------
(***************************************************************************)
(* The order in which a history is walked.                                 *)
(***************************************************************************)
Numbers(s) == {s[i] : i \in DOMAIN s}
Unrepeated(s) == \A i, j \in DOMAIN s : s[i] = s[j] => i = j

\* A finite history can be put in order, and its order has every number once.
LEMMA AscendingIs ==
    ASSUME NEW h, IsFiniteSet(DOMAIN h), DOMAIN h \subseteq Versions
    PROVE  /\ Ascending(h) \in Seq(Versions)
           /\ Unrepeated(Ascending(h))
           /\ Numbers(Ascending(h)) = DOMAIN h
  <1> DEFINE S == DOMAIN h
             N == Cardinality(S)
             I == 1 .. N
             InOrder(s) == \A i, j \in DOMAIN s : i < j => s[i] < s[j]
             rank(k) == Cardinality(NumbersBelow(S, k))
             f == [i \in I |-> CHOOSE k \in S : rank(k) = i - 1]
  <1>1. S \in SUBSET Nat
    BY DEF Versions
  <1>2. /\ N \in Nat
        /\ \A k \in S : rank(k) \in 0 .. N - 1
        /\ \A j, k \in S : j < k => rank(j) < rank(k)
        /\ \A i \in 0 .. N - 1 : \E k \in S : rank(k) = i
    BY <1>1, Ranks
  <1>3. \A i \in I : f[i] \in S /\ rank(f[i]) = i - 1
    <2> SUFFICES ASSUME NEW i \in I PROVE f[i] \in S /\ rank(f[i]) = i - 1
      OBVIOUS
    <2>1. i - 1 \in 0 .. N - 1
      BY <1>2
    <2>2. \E k \in S : rank(k) = i - 1
      BY <1>2, <2>1
    <2> HIDE DEF rank
    <2> QED BY <2>2
  <1> HIDE DEF rank
  <1>4. f \in [I -> S] /\ InOrder(f)
    <2>1. f \in [I -> S]
      BY <1>3
    <2>2. ASSUME NEW i \in I, NEW j \in I, i < j PROVE f[i] < f[j]
      <3>1. f[i] \in Nat /\ f[j] \in Nat /\ i \in Int /\ j \in Int
        BY <1>1, <1>2, <1>3
      <3>2. rank(f[i]) < rank(f[j])
        BY <1>3, <2>2, <3>1
      <3>3. ~(f[j] < f[i]) /\ f[i] # f[j]
        BY <1>2, <1>3, <3>1, <3>2
      <3> QED BY <3>1, <3>3
    <2> HIDE DEF f
    <2> QED BY <2>1, <2>2
  <1> HIDE DEF f
  <1> DEFINE s == Ascending(h)
  <1>5. s \in [I -> S] /\ InOrder(s)
    BY <1>4 DEF Ascending
  <1> HIDE DEF s
  <1>6. \A i, j \in I : s[i] = s[j] => i = j
    <2> SUFFICES ASSUME NEW i \in I, NEW j \in I, s[i] = s[j] PROVE i = j
      OBVIOUS
    <2>1. s[i] \in Nat /\ i \in Int /\ j \in Int
      BY <1>1, <1>2, <1>5
    <2>2. ~(i < j) /\ ~(j < i)
      BY <1>5, <2>1
    <2> QED BY <2>1, <2>2
  <1>7. s \in Surjection(I, S)
    <2>1. s \in Injection(I, S)
      BY <1>5, <1>6 DEF Injection, IsInjective
    <2>2. IsFiniteSet(I) /\ Cardinality(I) = N
      <3>1. 1 \in Int /\ N \in Int
        BY <1>2
      <3>2. IsFiniteSet(I) /\ Cardinality(I) = IF 1 > N THEN 0 ELSE N - 1 + 1
        BY <3>1, FS_Interval
      <3> QED BY <1>2, <3>2
    <2> QED BY <2>1, <2>2, FS_Injection
  <1>8. {s[i] : i \in I} = S
    BY <1>5, <1>7 DEF Surjection
  <1>9. DOMAIN s = I /\ s \in Seq(Versions)
    BY <1>2, <1>5
  <1> QED BY <1>6, <1>8, <1>9 DEF s, Numbers, Unrepeated

\* The other way round the numbers are the same.
LEMMA ReversedIs ==
    ASSUME NEW s \in Seq(Versions), Unrepeated(s)
    PROVE  /\ Reversed(s) \in Seq(Versions)
           /\ Unrepeated(Reversed(s)) /\ Numbers(Reversed(s)) = Numbers(s)
  <1> DEFINE r == Reversed(s)
             other(i) == Len(s) + 1 - i
  <1>1. /\ Len(s) \in Nat /\ DOMAIN s = 1 .. Len(s)
        /\ DOMAIN r = DOMAIN s /\ \A i \in DOMAIN s : r[i] = s[other(i)]
    BY DEF Reversed
  <1>2. \A i \in DOMAIN s : other(i) \in DOMAIN s /\ other(other(i)) = i
    BY <1>1
  <1>3. r \in Seq(Versions)
    BY <1>1, <1>2 DEF Reversed
  <1>4. \A i, j \in DOMAIN s : r[i] = r[j] => i = j
    <2> SUFFICES ASSUME NEW i \in DOMAIN s, NEW j \in DOMAIN s, r[i] = r[j] PROVE i = j
      OBVIOUS
    <2>1. other(i) = other(j)
      BY <1>1, <1>2 DEF Unrepeated
    <2> QED BY <2>1, <1>1
  <1> HIDE DEF r, other
  <1>5. Numbers(r) = Numbers(s)
    BY <1>1, <1>2 DEF Numbers
  <1>6. Unrepeated(r)
    BY <1>1, <1>4 DEF Unrepeated
  <1> QED BY <1>3, <1>5, <1>6 DEF r

-----------------------------------------------------------------------------
(***************************************************************************)
(* The invariant of a walk.                                                *)
(***************************************************************************)
\* The database: every view extends those before it, and the lowest number of
\* blocks since the call began is that of none beyond the current one.
LineInv ==
    /\ line \in Seq(Views) /\ Len(line) >= 1 /\ undos \in Nat
    /\ \A i \in DOMAIN line : BlockInv(line[i])
    /\ \A i, j \in DOMAIN line : i <= j => Grows(line[i], line[j])
    /\ sunk \in 0 .. Size /\ lacking \subseteq Versions

\* A number that was not undone stands for an entry.
IsEntry(k) == k <= sunk => Current.blocks[k].sub = "file"

\* A number that was not undone stands for what it stood for when the stream
\* was opened.
Kept ==
    \/ base = EmptyView(Drives)
    \/ \A k \in 1 .. sunk : k <= Len(base.blocks) /\ Current.blocks[k] = base.blocks[k]

\* The call: what it looks at was there, del() has found a file, and history()
\* lacks nothing, because it waits for what is not held.
CallInv ==
    /\ call \in {"none", "history", "clear", "del"}
    /\ call = "history" => lacking = {}
    /\ step \in {"idle", "checking", "walking", "ended", "crashed"}
    /\ options \in [reverse : BOOLEAN, history : BOOLEAN]
    /\ BlockInv(base) /\ Kept
    /\ step \in {"idle", "checking"} => base = EmptyView(Drives) /\ reading = {}
    /\ step = "idle" => got = << >>
    /\ step = "checking" => call \in {"clear", "del"}
    /\ step # "walking" => todo = << >>
    /\ call = "clear" => options.history
    /\ call = "del" => record \in Versions /\ IsEntry(record)

Coming == Numbers(todo)
OnRecord == DOMAIN base.history[Path]
Sole == call = "del" /\ ~options.history

\* What is still to come is on record, and what is asked for is an entry.
ReadInv ==
    /\ todo \in Seq(Versions)
    /\ \A k \in Coming : IF Sole THEN k = record ELSE k \in OnRecord
    /\ reading \subseteq Versions /\ \A k \in reading : IsEntry(k)
    /\ late \subseteq Versions /\ (step = "crashed" => reading = {})
    /\ IF step = "ended" THEN reading \subseteq late ELSE late = {}

Obtained == [seq : Versions, file : Nodes \cup {Nothing}]

\* What was obtained is the entry of its number, or a deletion on record.
GotInv ==
    /\ got \in Seq(Obtained)
    /\ \A i \in DOMAIN got : got[i].seq <= sunk =>
          \/ /\ Current.blocks[got[i].seq].sub = "file"
             /\ Current.blocks[got[i].seq].node = got[i].file
          \/ /\ ~Sole /\ got[i].seq \in OnRecord
             /\ base.history[Path][got[i].seq].type = "tombstone"
             /\ got[i].file = Nothing

\* clear() and del() have obtained every file on record that is held, or will.
SweptInv ==
    call # "history" =>
        /\ step = "ended" => reading = {}
        /\ step \in {"walking", "ended"} /\ options.history =>
              \A k \in Files :
                 k <= sunk /\ k \notin lacking => k \in Coming \cup reading \/ Yields(k) # {}

\* history() has yielded each version once, or will, unless its process is gone.
YieldedInv ==
    call = "history" =>
        /\ Unrepeated(todo)
        /\ Coming \cap reading = {}
        /\ \A i \in DOMAIN got : got[i].seq \notin Coming \cup reading
        /\ \A i, j \in DOMAIN got : got[i].seq = got[j].seq => i = j
        /\ step # "crashed" =>
              \A k \in OnRecord :
                 k <= sunk => k \in Coming \cup reading \cup late \/ Yields(k) # {}

WalkInv == LineInv /\ CallInv /\ ReadInv /\ GotInv /\ SweptInv /\ YieldedInv

-----------------------------------------------------------------------------
(***************************************************************************)
(* The database.                                                           *)
(***************************************************************************)
\* The current view, and what is known of it.
LEMMA CurrentIs ==
    ASSUME LineInv
    PROVE  /\ Len(line) \in Nat \ {0} /\ DOMAIN line = 1 .. Len(line)
           /\ Current \in Views /\ BlockInv(Current) /\ ViewInv(Current)
           /\ Current.blocks \in Seq(Blocks) /\ Size \in Nat /\ sunk \in 0 .. Size
  <1>1. Len(line) \in Nat \ {0} /\ DOMAIN line = 1 .. Len(line)
    BY DEF LineInv
  <1>2. BlockInv(Current) /\ ViewInv(Current)
    BY <1>1 DEF LineInv, Current, BlockInv
  <1> QED BY <1>1, <1>2, ViewParts DEF Size, LineInv

\* No number that is not sunk comes to stand for another block, and what is
\* not held is as it was.
BlocksStay ==
    /\ sunk' <= sunk
    /\ lacking' \subseteq lacking /\ \A k \in lacking : k <= sunk' => k \in lacking'
    /\ \A k \in 1 .. sunk' : Current'.blocks[k] = Current.blocks[k]

\* An operation extends the current view.
LEMMA WriteStep ==
    ASSUME LineInv, Write
    PROVE  LineInv' /\ BlocksStay /\ UNCHANGED walk
  <1> DEFINE N == Len(line)
  <1>1. PICK d \in Drives, op \in WrittenOps, seen \in BOOLEAN :
           line' = Append(line, Apply(Current, <<d, Len(line) + undos>>, op, seen))
    BY DEF Write
  <1> DEFINE n == <<d, Len(line) + undos>>
             w == Apply(Current, n, op, seen)
  <1>2. /\ N \in Nat \ {0} /\ DOMAIN line = 1 .. N
        /\ Current \in Views /\ BlockInv(Current) /\ Size \in Nat /\ sunk \in 0 .. Size
    BY CurrentIs
  <1>3. n \in Nodes /\ op \in FileOps
    BY <1>2, WrittenAssumption DEF Nodes, LineInv
  <1>4. BlockInv(w) /\ Grows(Current, w)
    BY <1>2, <1>3, ApplyBlocks
  <1>5. w \in Views /\ Len(w.blocks) \in Nat
    BY <1>4, ViewParts DEF BlockInv
  <1> HIDE DEF w
  <1>6. /\ line' = Append(line, w) /\ line \in Seq(Views)
        /\ UNCHANGED <<undos, sunk, lacking, walk>>
    BY <1>1 DEF w, Write, LineInv
  <1>7. /\ line' \in Seq(Views) /\ Len(line') = N + 1 /\ DOMAIN line' = 1 .. N + 1
        /\ line'[N + 1] = w /\ \A i \in 1 .. N : line'[i] = line[i]
    BY <1>2, <1>5, <1>6
  <1>8. \A i \in DOMAIN line' : BlockInv(line'[i])
    BY <1>2, <1>4, <1>7 DEF LineInv
  <1>9. \A i, j \in DOMAIN line' : i <= j => Grows(line'[i], line'[j])
    <2> SUFFICES ASSUME NEW i \in 1 .. N + 1, NEW j \in 1 .. N + 1, i <= j
                 PROVE  Grows(line'[i], line'[j])
      BY <1>7
    <2>1. CASE j \in 1 .. N
      <3>1. i \in 1 .. N
        BY <1>2, <2>1
      <3>2. Grows(line[i], line[j])
        BY <1>2, <2>1, <3>1 DEF LineInv
      <3> QED BY <1>7, <2>1, <3>1, <3>2
    <2>2. CASE j = N + 1 /\ i \in 1 .. N
      <3>1. Grows(line[i], Current) /\ line[i] \in Views
        BY <1>2, <2>2 DEF LineInv, Current
      <3>2. Grows(line[i], w)
        BY <1>2, <1>4, <1>5, <3>1, GrowsTwice
      <3> QED BY <1>7, <2>2, <3>2
    <2>3. CASE j = N + 1 /\ i = N + 1
      BY <1>5, <1>7, <2>3 DEF Grows
    <2> QED BY <1>2, <2>1, <2>2, <2>3
  <1>10. Current' = w /\ Size' = Len(w.blocks)
    BY <1>7 DEF Current, Size
  <1>11. sunk' \in 0 .. Size'
    BY <1>2, <1>4, <1>5, <1>6, <1>10 DEF Grows, Size
  <1>12. LineInv'
    BY <1>2, <1>6, <1>7, <1>8, <1>9, <1>11 DEF LineInv
  <1>13. BlocksStay
    BY <1>2, <1>4, <1>6, <1>10 DEF BlocksStay, Grows, Size
  <1> QED BY <1>6, <1>12, <1>13

\* The view it is undone to is one of those the current view extends.
LEMMA UndoStep ==
    ASSUME LineInv, Undo
    PROVE  LineInv' /\ BlocksStay /\ UNCHANGED walk
  <1> DEFINE N == Len(line)
  <1>1. PICK k \in 1 .. N - 1 :
           /\ line' = SubSeq(line, 1, k)
           /\ sunk' = IF Len(line[k].blocks) < sunk THEN Len(line[k].blocks) ELSE sunk
    BY DEF Undo
  <1>0. lacking' = {j \in lacking : j <= sunk'}
    BY DEF Undo
  <1>2. /\ N \in Nat \ {0} /\ DOMAIN line = 1 .. N
        /\ Size \in Nat /\ sunk \in 0 .. Size
    BY CurrentIs
  <1>3. line \in Seq(Views) /\ undos' = undos + 1 /\ undos' \in Nat /\ UNCHANGED walk
    BY DEF Undo, LineInv
  <1>4. /\ line' \in Seq(Views) /\ Len(line') = k /\ DOMAIN line' = 1 .. k
        /\ \A i \in 1 .. k : line'[i] = line[i] /\ i \in 1 .. N
    BY <1>1, <1>2, <1>3
  <1>5. /\ BlockInv(line[k]) /\ Grows(line[k], Current) /\ Len(line[k].blocks) \in Nat
    BY <1>1, <1>2, ViewParts DEF LineInv, Current, BlockInv
  <1>6. Current' = line[k] /\ Size' = Len(line[k].blocks)
    BY <1>1, <1>4 DEF Current, Size
  <1>7. sunk' \in 0 .. Size' /\ sunk' <= sunk
    BY <1>1, <1>2, <1>5, <1>6
  <1>8. LineInv'
    BY <1>0, <1>1, <1>2, <1>3, <1>4, <1>7 DEF LineInv
  <1>9. BlocksStay
    BY <1>0, <1>2, <1>5, <1>6, <1>7 DEF BlocksStay, Grows
  <1> QED BY <1>3, <1>8, <1>9

\* What is known of the walk only speaks of numbers that are not sunk.
LEMMA DatabaseInv ==
    ASSUME WalkInv, LineInv', BlocksStay, UNCHANGED walk
    PROVE  WalkInv'
  <1>1. /\ call' = call /\ options' = options /\ step' = step /\ record' = record
        /\ base' = base /\ todo' = todo /\ reading' = reading /\ late' = late /\ got' = got
    BY DEF walk
  <1>2. sunk \in Nat /\ sunk' \in Nat /\ sunk' <= sunk
    BY DEF WalkInv, LineInv, BlocksStay
  <1>3. \A k \in Versions : k <= sunk' =>
           k <= sunk /\ Current'.blocks[k] = Current.blocks[k]
    BY <1>2 DEF BlocksStay, Versions
  <1>4. \A k \in Versions : IsEntry(k) => IsEntry(k)'
    BY <1>2, <1>3 DEF IsEntry
  <1>5. CallInv'
    <2>1. Kept'
      BY <1>1, <1>2, <1>3 DEF WalkInv, CallInv, Kept, Versions
    <2>2. record \in Versions /\ IsEntry(record) => IsEntry(record)'
      BY <1>1, <1>4 DEF IsEntry
    <2>3. lacking = {} => lacking' = {}
      BY DEF BlocksStay
    <2> QED BY <1>1, <2>1, <2>2, <2>3 DEF WalkInv, CallInv
  <1>6. ReadInv'
    BY <1>1, <1>4 DEF WalkInv, ReadInv, Coming, OnRecord, Sole
  <1>7. GotInv'
    <2>1. /\ got \in Seq(Obtained)
          /\ got' \in Seq(Obtained)
      BY <1>1 DEF WalkInv, GotInv
    <2>2. ASSUME NEW i \in DOMAIN got, got[i].seq <= sunk'
          PROVE  \/ /\ Current'.blocks[got[i].seq].sub = "file"
                    /\ Current'.blocks[got[i].seq].node = got[i].file
                 \/ /\ ~Sole /\ got[i].seq \in OnRecord
                    /\ base.history[Path][got[i].seq].type = "tombstone"
                    /\ got[i].file = Nothing
      <3>1. got[i].seq \in Versions
        <4>1. got[i] \in Obtained
          BY <2>1
        <4> QED BY <4>1 DEF Obtained
      <3>2. got[i].seq <= sunk /\ Current'.blocks[got[i].seq] = Current.blocks[got[i].seq]
        BY <1>3, <2>2, <3>1
      <3> QED BY <3>2 DEF WalkInv, GotInv
    <2> QED BY <1>1, <2>1, <2>2 DEF GotInv, Sole, OnRecord
  <1>8. SweptInv'
    <2>1. \A k \in Files : k <= sunk' => k \in Versions /\ k <= sunk
      <3>1. \A k \in Files : k \in Versions
        BY PathAssumption, ViewParts DEF WalkInv, CallInv, BlockInv, Files
      <3> QED BY <3>1, <1>3
    <2>2. Files' = Files /\ Coming' = Coming /\ \A k : Yields(k)' = Yields(k)
      BY <1>1 DEF Files, RecordType, Coming, Yields
    <2>3. \A k \in Files : k <= sunk' /\ k \notin lacking' => k \notin lacking
      BY DEF BlocksStay
    <2> QED BY <1>1, <2>1, <2>2, <2>3 DEF WalkInv, SweptInv
  <1>9. YieldedInv'
    <2>1. \A k \in OnRecord : k <= sunk' => k \in Versions /\ k <= sunk
      <3>1. \A k \in OnRecord : k \in Versions
        BY PathAssumption, ViewParts DEF WalkInv, CallInv, BlockInv, OnRecord
      <3> QED BY <3>1, <1>3
    <2>2. OnRecord' = OnRecord /\ Coming' = Coming /\ \A k : Yields(k)' = Yields(k)
      BY <1>1 DEF OnRecord, Coming, Yields
    <2> QED BY <1>1, <2>1, <2>2 DEF WalkInv, YieldedInv
  <1> QED BY <1>5, <1>6, <1>7, <1>8, <1>9 DEF WalkInv

-----------------------------------------------------------------------------
(***************************************************************************)
(* How a call begins.                                                      *)
(***************************************************************************)
\* The call leaves the database as it is.
LEMMA WalkStays ==
    ASSUME WalkInv, UNCHANGED <<database, sunk, lacking>>
    PROVE  /\ LineInv' /\ Current' = Current /\ sunk' = sunk /\ sunk \in 0 .. Size
           /\ lacking' = lacking
           /\ BlockInv(Current) /\ Current \in Views
           /\ \A k : IsEntry(k)' <=> IsEntry(k)
  <1>1. line' = line /\ undos' = undos /\ sunk' = sunk /\ lacking' = lacking
    BY DEF database
  <1>2. Current' = Current /\ Size' = Size
    BY <1>1 DEF Current, Size
  <1>3. LineInv'
    BY <1>1, <1>2 DEF WalkInv, LineInv
  <1>4. \A k : IsEntry(k)' <=> IsEntry(k)
    BY <1>1, <1>2 DEF IsEntry
  <1> QED BY <1>1, <1>2, <1>3, <1>4, CurrentIs DEF WalkInv

\* When a call begins, no number is sunk.
LEMMA BeginStep ==
    ASSUME WalkInv, NEW c, NEW o, Begin(c, o)
    PROVE  /\ LineInv' /\ Current' = Current /\ sunk' = Size /\ Size \in Nat
           /\ call' = c /\ options' = o /\ reading' = {} /\ late' = {}
           /\ base = EmptyView(Drives) /\ todo = << >> /\ got = << >>
           /\ c = "history" => lacking' = {}
  <1>1. /\ line' = line /\ undos' = undos /\ sunk' = Size
        /\ call' = c /\ options' = o /\ reading' = {} /\ late' = {} /\ step = "idle"
        /\ lacking' \in IF c = "history" THEN {{}} ELSE SUBSET FilesOf(Current.history[Path])
    BY DEF Begin, database
  <1>2. Current' = Current /\ Size' = Size
    BY <1>1 DEF Current, Size
  <1>3. Size \in Nat
    BY CurrentIs DEF WalkInv
  <1>4. lacking' \subseteq Versions
    <2>1. FilesOf(Current.history[Path]) \subseteq Versions
      BY CurrentIs, PathAssumption, ViewParts DEF WalkInv, FilesOf
    <2> QED BY <1>1, <2>1
  <1>5. LineInv'
    BY <1>1, <1>2, <1>3, <1>4 DEF WalkInv, LineInv
  <1> QED BY <1>1, <1>2, <1>3, <1>5 DEF WalkInv, CallInv

\* The history of the path can be put in order, either way.
LEMMA NumbersAre ==
    ASSUME NEW v, BlockInv(v), NEW s,
           s = Ascending(v.history[Path]) \/ s = Reversed(Ascending(v.history[Path]))
    PROVE  /\ s \in Seq(Versions)
           /\ Unrepeated(s) /\ Numbers(s) = DOMAIN v.history[Path]
  <1> DEFINE h == v.history[Path]
             a == Ascending(h)
  <1>1. IsFiniteSet(DOMAIN h) /\ DOMAIN h \subseteq Versions
    BY PathAssumption, HistoryFinite, ViewParts DEF BlockInv
  <1> HIDE DEF h
  <1>2. /\ a \in Seq(Versions)
        /\ Unrepeated(a) /\ Numbers(a) = DOMAIN h
    BY <1>1, AscendingIs
  <1> HIDE DEF a
  <1>3. s = a \/ s = Reversed(a)
    BY DEF a, h
  <1>4. CASE s = a
    BY <1>2, <1>4 DEF h
  <1>5. CASE s = Reversed(a)
    <2> DEFINE r == Reversed(a)
    <2>1. /\ r \in Seq(Versions)
          /\ Unrepeated(r) /\ Numbers(r) = Numbers(a)
      BY <1>2, ReversedIs
    <2> HIDE DEF r
    <2>2. s = r
      BY <1>5 DEF r
    <2> QED BY <2>1, <2>2, <1>2 DEF h
  <1> QED BY <1>3, <1>4, <1>5

\* history() opens its stream at once.
LEMMA HistoryInv ==
    ASSUME WalkInv, NEW reverse \in BOOLEAN, History(reverse)
    PROVE  WalkInv'
  <1> DEFINE o == [reverse |-> reverse, history |-> FALSE]
             s == IF reverse THEN Ascending(Current.history[Path])
                  ELSE Reversed(Ascending(Current.history[Path]))
  <1>1. Begin("history", o) /\ OpenStream(s) /\ got' = << >>
    BY DEF History
  <1>2. o \in [reverse : BOOLEAN, history : BOOLEAN]
    OBVIOUS
  <1>3. BlockInv(Current) /\ Current \in Views
    BY CurrentIs DEF WalkInv
  <1>4. s = Ascending(Current.history[Path]) \/ s = Reversed(Ascending(Current.history[Path]))
    OBVIOUS
  <1> HIDE DEF o, s
  <1>5. /\ s \in Seq(Versions)
        /\ Unrepeated(s) /\ Numbers(s) = DOMAIN Current.history[Path]
    BY <1>3, <1>4, NumbersAre
  <1>6. /\ LineInv' /\ Current' = Current /\ sunk' = Size /\ Size \in Nat
        /\ call' = "history" /\ options' = o /\ reading' = {} /\ late' = {}
        /\ lacking' = {}
    BY <1>1, BeginStep
  <1>7. base' = Current /\ todo' = s /\ step' = "walking" /\ got' = << >>
    BY <1>1 DEF OpenStream
  <1>8. Coming' = OnRecord'
    BY <1>5, <1>7 DEF Coming, OnRecord
  <1>9. CallInv'
    BY <1>2, <1>3, <1>6, <1>7 DEF CallInv, Kept, Size
  <1>10. ReadInv'
    BY <1>5, <1>6, <1>7, <1>8 DEF ReadInv, Sole
  <1>11. GotInv'
    BY <1>7 DEF GotInv
  <1>12. SweptInv'
    BY <1>6 DEF SweptInv
  <1>13. YieldedInv'
    BY <1>5, <1>6, <1>7, <1>8 DEF YieldedInv
  <1> QED BY <1>6, <1>9, <1>10, <1>11, <1>12, <1>13 DEF WalkInv

\* clear() takes up the entry, which is what its number stands for.
LEMMA ClearInv ==
    ASSUME WalkInv, Clear
    PROVE  WalkInv'
  <1> DEFINE o == [reverse |-> FALSE, history |-> TRUE]
             f == Current.files[Path]
             e == [seq |-> f.seq, file |-> f.node]
  <1>1. Begin("clear", o) /\ step' = "checking" /\ UNCHANGED <<record, base, todo>>
    BY DEF Clear
  <1>2. got' = << >> \/ (Path \in DOMAIN Current.files /\ got' = <<e>>)
    BY DEF Clear
  <1>3. o \in [reverse : BOOLEAN, history : BOOLEAN] /\ o.history
    OBVIOUS
  <1>4. BlockInv(Current) /\ Current \in Views
    BY CurrentIs DEF WalkInv
  <1>5. ASSUME Path \in DOMAIN Current.files
        PROVE  /\ e \in Obtained
               /\ Current.blocks[e.seq].sub = "file" /\ Current.blocks[e.seq].node = e.file
    <2>1. f \in Entries
      BY <1>4, <1>5, PartialMapsAre DEF Views
    <2>2. e \in Obtained
      BY <2>1 DEF Entries, Obtained, Versions
    <2>3. Current.blocks[f.seq].sub = "file" /\ Current.blocks[f.seq].node = f.node
      BY <1>4, <1>5 DEF BlockInv, EntriesAreBlocks
    <2> QED BY <2>2, <2>3
  <1> HIDE DEF o, e
  <1>6. /\ LineInv' /\ Current' = Current /\ sunk' = Size /\ Size \in Nat
        /\ call' = "clear" /\ options' = o /\ reading' = {} /\ late' = {}
        /\ base = EmptyView(Drives) /\ todo = << >>
    BY <1>1, BeginStep
  <1>7. step' = "checking" /\ base' = base /\ todo' = << >>
    BY <1>1, <1>6
  <1>8. CallInv'
    BY <1>3, <1>6, <1>7, EmptyBlockInv DEF CallInv, Kept
  <1>9. ReadInv'
    BY <1>6, <1>7 DEF ReadInv, Coming, Numbers
  <1>10. GotInv'
    <2>1. CASE got' = << >>
      BY <2>1 DEF GotInv
    <2>2. CASE Path \in DOMAIN Current.files /\ got' = <<e>>
      BY <1>5, <1>6, <2>2 DEF GotInv
    <2> QED BY <1>2, <2>1, <2>2
  <1>11. SweptInv' /\ YieldedInv'
    BY <1>6, <1>7 DEF SweptInv, YieldedInv
  <1> QED BY <1>6, <1>8, <1>9, <1>10, <1>11 DEF WalkInv

\* del() finds the record of a file, so its number stands for an entry.
LEMMA DelInv ==
    ASSUME WalkInv, NEW history \in BOOLEAN, Del(history)
    PROVE  WalkInv'
  <1> DEFINE o == [reverse |-> FALSE, history |-> history]
             h == Current.history[Path]
             k == LatestKey(h)
  <1>1. /\ Begin("del", o) /\ step' = "checking" /\ UNCHANGED <<base, todo>>
        /\ got' = << >> /\ record' = k
        /\ Recorded(Current, Path) /\ Latest(Current, Path).type # "tombstone"
    BY DEF Del
  <1>2. o \in [reverse : BOOLEAN, history : BOOLEAN]
    OBVIOUS
  <1>3. BlockInv(Current) /\ Current \in Views /\ ViewInv(Current)
    BY CurrentIs DEF WalkInv
  <1>4. k \in DOMAIN h
    BY <1>1, <1>3, PathAssumption, LatestKeyIs DEF ViewInv, Recorded
  <1>5. k \in Versions /\ h[k] \in Records
    BY <1>3, <1>4, PathAssumption, ViewParts
  <1>6. h[k].type = "file"
    BY <1>1, <1>5 DEF Latest, Records
  <1>7. Current.blocks[k].sub = "file"
    BY <1>3, <1>4, <1>6, PathAssumption DEF ViewInv, HistoryResolves
  <1> HIDE DEF o, h, k
  <1>8. /\ LineInv' /\ Current' = Current /\ sunk' = Size /\ Size \in Nat
        /\ call' = "del" /\ options' = o /\ reading' = {} /\ late' = {}
        /\ base = EmptyView(Drives) /\ todo = << >>
    BY <1>1, BeginStep
  <1>9. step' = "checking" /\ base' = base /\ todo' = << >> /\ record' = k
    BY <1>1, <1>8
  <1>10. CallInv'
    BY <1>1, <1>2, <1>5, <1>7, <1>8, <1>9, EmptyBlockInv DEF CallInv, Kept, IsEntry
  <1>11. ReadInv'
    BY <1>8, <1>9 DEF ReadInv, Coming, Numbers
  <1>12. GotInv'
    BY <1>1 DEF GotInv
  <1>13. SweptInv' /\ YieldedInv'
    BY <1>8, <1>9 DEF SweptInv, YieldedInv
  <1> QED BY <1>8, <1>10, <1>11, <1>12, <1>13 DEF WalkInv

\* The stream of clear() and del() is opened when the checks are passed.
LEMMA OpenedInv ==
    ASSUME WalkInv, Walk
    PROVE  WalkInv'
  <1> DEFINE s == IF options.history THEN Ascending(Current.history[Path]) ELSE <<record>>
  <1>1. /\ step = "checking" /\ OpenStream(s)
        /\ UNCHANGED <<database, sunk, lacking, call, options, record, reading, late, got>>
    BY DEF Walk
  <1>2. /\ call \in {"clear", "del"} /\ call # "history" /\ (call = "clear" => options.history)
        /\ options \in [reverse : BOOLEAN, history : BOOLEAN]
        /\ base = EmptyView(Drives) /\ reading = {} /\ late = {}
        /\ (call = "del" => record \in Versions /\ IsEntry(record))
    BY <1>1 DEF WalkInv, CallInv, ReadInv
  <1>3. /\ LineInv' /\ Current' = Current /\ sunk' = sunk /\ sunk \in 0 .. Size
        /\ BlockInv(Current) /\ Current \in Views
        /\ \A k : IsEntry(k)' <=> IsEntry(k)
    BY <1>1, WalkStays
  <1>4. /\ s \in Seq(Versions)
        /\ options.history => Numbers(s) = DOMAIN Current.history[Path]
        /\ ~options.history => Numbers(s) = {record}
    <2>1. CASE options.history
      <3>1. s = Ascending(Current.history[Path])
        BY <2>1
      <3> HIDE DEF s
      <3> QED BY <2>1, <3>1, <1>3, NumbersAre
    <2>2. CASE ~options.history
      <3>1. s = <<record>> /\ record \in Versions
        BY <1>2, <2>2
      <3> QED BY <2>2, <3>1 DEF Numbers
    <2> QED BY <2>1, <2>2
  <1> HIDE DEF s
  <1>5. /\ base' = Current /\ todo' = s /\ step' = "walking"
        /\ call' = call /\ options' = options /\ record' = record
        /\ reading' = {} /\ late' = {} /\ got' = got
    BY <1>1, <1>2 DEF OpenStream
  <1>6. OnRecord = {} /\ OnRecord' = DOMAIN Current.history[Path]
    BY <1>2, <1>5, PathAssumption DEF OnRecord, EmptyView, NoKeys
  <1>7. CallInv'
    <2>1. Kept'
      BY <1>3, <1>5 DEF Kept, Size, WalkInv, LineInv
    <2>2. call = "del" => IsEntry(record)'
      BY <1>2, <1>3, <1>5 DEF IsEntry
    <2> QED BY <1>2, <1>3, <1>5, <2>1, <2>2 DEF CallInv
  <1>8. ReadInv'
    BY <1>2, <1>4, <1>5, <1>6 DEF ReadInv, Coming, Sole
  <1>9. GotInv'
    BY <1>3, <1>5, <1>6 DEF WalkInv, GotInv
  <1>10. SweptInv'
    <2>1. options.history => Files' \subseteq Coming'
      BY <1>4, <1>5, <1>6 DEF Files, Coming, OnRecord
    <2> QED BY <1>5, <2>1 DEF SweptInv
  <1>11. YieldedInv'
    BY <1>2, <1>5 DEF YieldedInv
  <1> QED BY <1>3, <1>7, <1>8, <1>9, <1>10, <1>11 DEF WalkInv

\* A del() that throws has found no stream to walk.
LEMMA RejectInv ==
    ASSUME WalkInv, Reject
    PROVE  WalkInv'
  <1>1. /\ step = "checking" /\ step' = "ended"
        /\ UNCHANGED <<database, sunk, lacking>>
        /\ call' = call /\ options' = options /\ record' = record
        /\ base' = base /\ todo' = todo /\ reading' = reading /\ late' = late /\ got' = got
    BY DEF Reject
  <1>2. /\ LineInv' /\ Current' = Current /\ sunk' = sunk /\ lacking' = lacking
        /\ \A k : IsEntry(k)' <=> IsEntry(k)
    BY <1>1, WalkStays
  <1>3. call # "history" /\ base = EmptyView(Drives) /\ reading = {} /\ todo = << >> /\ late = {}
    BY <1>1 DEF WalkInv, CallInv, ReadInv
  <1>4. OnRecord = {} /\ Files' = {}
    BY <1>1, <1>3, PathAssumption DEF OnRecord, Files, EmptyView, NoKeys
  <1>5. CallInv'
    <2>1. Kept' /\ (IsEntry(record)' <=> IsEntry(record))
      BY <1>1, <1>2, <1>3 DEF Kept, IsEntry
    <2> QED BY <1>1, <1>3, <2>1 DEF WalkInv, CallInv
  <1>6. ReadInv'
    <2>1. Coming' = {} /\ \A k \in reading : FALSE
      BY <1>1, <1>3 DEF Coming, Numbers
    <2> QED BY <1>1, <1>3, <2>1 DEF WalkInv, ReadInv
  <1>7. GotInv'
    BY <1>1, <1>2, <1>4 DEF WalkInv, GotInv
  <1>8. SweptInv' /\ YieldedInv'
    BY <1>1, <1>3, <1>4 DEF SweptInv, YieldedInv
  <1> QED BY <1>2, <1>5, <1>6, <1>7, <1>8 DEF WalkInv

-----------------------------------------------------------------------------
(***************************************************************************)
(* The steps of a walk.                                                    *)
(***************************************************************************)
\* What is left when the first of the numbers is taken.
LEMMA TailIs ==
    ASSUME NEW s \in Seq(Versions), s # << >>, NEW k, NEW t, k = Head(s), t = Tail(s)
    PROVE  /\ k \in Versions /\ t \in Seq(Versions)
           /\ \A i \in DOMAIN t : i + 1 \in DOMAIN s /\ t[i] = s[i + 1]
           /\ Numbers(s) = {k} \cup Numbers(t)
           /\ Unrepeated(s) => Unrepeated(t) /\ k \notin Numbers(t)
  <1> DEFINE N == Len(s)
  <1>1. N \in Nat \ {0} /\ DOMAIN s = 1 .. N /\ k = s[1] /\ s[1] \in Versions
    OBVIOUS
  <1>2. t \in Seq(Versions) /\ DOMAIN t = 1 .. N - 1 /\ \A i \in 1 .. N - 1 : t[i] = s[i + 1]
    OBVIOUS
  <1> HIDE DEF N
  <1>3. \A i \in DOMAIN t : i + 1 \in DOMAIN s /\ t[i] = s[i + 1]
    BY <1>1, <1>2
  <1>4. Numbers(s) = {k} \cup Numbers(t)
    <2>1. ASSUME NEW i \in DOMAIN s PROVE s[i] \in {k} \cup Numbers(t)
      <3>1. CASE i = 1
        BY <1>1, <3>1
      <3>2. CASE i # 1
        <4>1. i - 1 \in DOMAIN t /\ t[i - 1] = s[i]
          BY <1>1, <1>2, <3>2
        <4> QED BY <4>1 DEF Numbers
      <3> QED BY <3>1, <3>2
    <2>2. 1 \in DOMAIN s
      BY <1>1
    <2> QED BY <2>1, <2>2, <1>1, <1>3 DEF Numbers
  <1>5. ASSUME Unrepeated(s)
        PROVE  Unrepeated(t) /\ k \notin Numbers(t)
    <2>1. ASSUME NEW i \in DOMAIN t, NEW j \in DOMAIN t, t[i] = t[j] PROVE i = j
      <3>1. i + 1 = j + 1
        BY <1>3, <1>5, <2>1 DEF Unrepeated
      <3> QED BY <3>1, <1>1, <1>2
    <2>2. ASSUME NEW i \in DOMAIN t PROVE t[i] # k
      <3>1. 1 \in DOMAIN s /\ i + 1 \in DOMAIN s /\ i + 1 # 1
        BY <1>1, <1>2
      <3> QED BY <3>1, <1>1, <1>3, <1>5 DEF Unrepeated
    <2> QED BY <2>1, <2>2 DEF Numbers, Unrepeated
  <1> QED BY <1>1, <1>2, <1>3, <1>4, <1>5 DEF Numbers, Unrepeated

\* What is obtained in addition.
LEMMA AppendIs ==
    ASSUME NEW g \in Seq(Obtained), NEW e \in Obtained
    PROVE  LET a == Append(g, e)
           IN  /\ a \in Seq(Obtained) /\ DOMAIN g \subseteq DOMAIN a
               /\ \A i \in DOMAIN g : a[i] = g[i]
               /\ \E i \in DOMAIN a : a[i] = e /\ DOMAIN a = DOMAIN g \cup {i} /\ i \notin DOMAIN g
  <1> DEFINE N == Len(g)
             a == Append(g, e)
  <1>1. /\ N \in Nat /\ DOMAIN g = 1 .. N /\ a \in Seq(Obtained)
        /\ DOMAIN a = 1 .. N + 1 /\ a[N + 1] = e /\ \A i \in 1 .. N : a[i] = g[i]
    OBVIOUS
  <1> HIDE DEF a, N
  <1>2. N + 1 \in DOMAIN a /\ DOMAIN a = DOMAIN g \cup {N + 1} /\ N + 1 \notin DOMAIN g
    BY <1>1
  <1> QED BY <1>1, <1>2 DEF a

\* A step of the walk that leaves alone what was to be walked.
WalkStep ==
    UNCHANGED <<database, sunk, lacking, call, options, record, base>>

\* Such a step does not change what is on record, nor the truth about it.
LEMMA StepStays ==
    ASSUME WalkInv, WalkStep
    PROVE  /\ LineInv' /\ Current' = Current /\ sunk' = sunk /\ sunk \in 0 .. Size
           /\ lacking' = lacking
           /\ BlockInv(base) /\ BlockInv(Current) /\ Current \in Views
           /\ call' = call /\ options' = options /\ record' = record /\ base' = base
           /\ OnRecord' = OnRecord /\ Files' = Files /\ (Sole' <=> Sole)
           /\ OnRecord \subseteq Versions
           /\ \A k : IsEntry(k)' <=> IsEntry(k)
           /\ Kept' /\ (call = "del" => record' \in Versions /\ IsEntry(record)')
           /\ step \in {"walking", "ended"} /\ step' \in {"walking", "ended", "crashed"}
                 /\ (step' # "walking" => todo' = << >>) => CallInv'
  <1>1. /\ UNCHANGED <<database, sunk, lacking>>
        /\ call' = call /\ options' = options /\ record' = record /\ base' = base
    BY DEF WalkStep
  <1>2. /\ LineInv' /\ Current' = Current /\ sunk' = sunk /\ sunk \in 0 .. Size
        /\ lacking' = lacking
        /\ BlockInv(Current) /\ Current \in Views
        /\ \A k : IsEntry(k)' <=> IsEntry(k)
    BY <1>1, WalkStays
  <1>3. BlockInv(base)
    BY DEF WalkInv, CallInv
  <1>4. OnRecord' = OnRecord /\ Files' = Files /\ (Sole' <=> Sole)
    BY <1>1 DEF OnRecord, Files, RecordType, Sole
  <1>5. OnRecord \subseteq Versions
    BY <1>3, PathAssumption, ViewParts DEF BlockInv, OnRecord
  <1>6. Kept'
    BY <1>1, <1>2 DEF WalkInv, CallInv, Kept
  <1>7. call = "del" => record' \in Versions /\ IsEntry(record)'
    <2>1. IsEntry(record)' <=> IsEntry(record)
      BY <1>1, <1>2 DEF IsEntry
    <2> QED BY <1>1, <2>1 DEF WalkInv, CallInv
  <1>8. ASSUME step \in {"walking", "ended"}, step' \in {"walking", "ended", "crashed"},
               step' # "walking" => todo' = << >>
        PROVE  CallInv'
    BY <1>1, <1>3, <1>6, <1>7, <1>8 DEF WalkInv, CallInv
  <1> QED BY <1>1, <1>2, <1>3, <1>4, <1>5, <1>6, <1>7, <1>8

\* The record of a file, on record, is that of an entry.
LEMMA FilesAreEntries ==
    ASSUME WalkInv, NEW k \in Coming, RecordType(k) = "file"
    PROVE  k \in Versions /\ IsEntry(k)
  <1>1. CASE Sole /\ k = record
    BY <1>1 DEF WalkInv, CallInv, Sole
  <1>2. CASE ~Sole /\ k \in OnRecord
    <2>1. base.history[Path][k].type = "file"
      BY <1>2 DEF RecordType, Sole
    <2>2. BlockInv(base) /\ ViewInv(base)
      BY DEF WalkInv, CallInv, BlockInv
    <2>3. base.blocks[k].sub = "file" /\ k \in Versions
      BY <1>2, <2>1, <2>2, PathAssumption, ViewParts DEF ViewInv, HistoryResolves, OnRecord
    <2>4. base # EmptyView(Drives)
      BY <1>2, PathAssumption DEF OnRecord, EmptyView, NoKeys
    <2>5. k <= sunk => Current.blocks[k] = base.blocks[k]
      BY <2>3, <2>4 DEF WalkInv, CallInv, Kept, LineInv, Versions
    <2> QED BY <2>3, <2>5 DEF IsEntry
  <1> QED BY <1>1, <1>2 DEF WalkInv, ReadInv

\* A deletion: history() yields it, the others go on.
LEMMA TombstoneInv ==
    ASSUME WalkInv, Tombstone
    PROVE  WalkInv'
  <1>0. PICK k, t : k = Head(todo) /\ t = Tail(todo)
    OBVIOUS
  <1> DEFINE e == [seq |-> k, file |-> Nothing]
  <1>1. /\ step = "walking" /\ todo # << >> /\ RecordType(k) = "tombstone"
        /\ todo' = t /\ step' = step /\ reading' = reading /\ late' = late
        /\ got' = IF call = "history" THEN Append(got, e) ELSE got
        /\ WalkStep
    BY <1>0 DEF Tombstone, Rest, WalkStep
  <1>2. /\ LineInv' /\ Current' = Current /\ sunk' = sunk /\ lacking' = lacking
        /\ call' = call /\ options' = options /\ record' = record /\ base' = base
        /\ OnRecord' = OnRecord /\ Files' = Files /\ (Sole' <=> Sole)
        /\ \A j : IsEntry(j)' <=> IsEntry(j)
        /\ CallInv'
    BY <1>1, StepStays
  <1>3. todo \in Seq(Versions) /\ got \in Seq(Obtained)
    BY DEF WalkInv, ReadInv, GotInv
  <1>4. /\ k \in Versions /\ t \in Seq(Versions)
        /\ Coming = {k} \cup Coming'
        /\ Unrepeated(todo) => Unrepeated(t) /\ k \notin Coming'
    <2>1. Coming' = Numbers(t) /\ Coming = Numbers(todo)
      BY <1>1 DEF Coming, Numbers
    <2>0. todo # << >> /\ k = Head(todo) /\ t = Tail(todo)
      BY <1>0, <1>1
    <2>2. /\ k \in Versions /\ t \in Seq(Versions)
          /\ Numbers(todo) = {k} \cup Numbers(t)
          /\ Unrepeated(todo) => Unrepeated(t) /\ k \notin Numbers(t)
      BY <1>3, <2>0, TailIs
    <2> QED BY <2>1, <2>2
  <1>5. ~Sole /\ k \in OnRecord /\ base.history[Path][k].type = "tombstone"
    <2>1. "file" # "tombstone"
      OBVIOUS
    <2>2. ~Sole /\ base.history[Path][k].type = "tombstone"
      BY <1>1, <2>1 DEF RecordType, Sole
    <2> QED BY <1>4, <2>2 DEF WalkInv, ReadInv
  <1>6. k \notin Files
    BY <1>1 DEF Files
  <1>7. e \in Obtained /\ e.seq = k /\ e.file = Nothing
    BY <1>4 DEF Obtained
  <1> HIDE DEF e
  <1>8. /\ got' \in Seq(Obtained) /\ DOMAIN got \subseteq DOMAIN got'
        /\ \A i \in DOMAIN got : got'[i] = got[i]
        /\ IF call = "history"
           THEN \E i \in DOMAIN got' :
                   got'[i] = e /\ DOMAIN got' = DOMAIN got \cup {i} /\ i \notin DOMAIN got
           ELSE DOMAIN got' = DOMAIN got
    BY <1>1, <1>3, <1>7, AppendIs
  <1>9. ReadInv'
    BY <1>1, <1>2, <1>4 DEF WalkInv, ReadInv
  <1>10. GotInv'
    <2>1. \A i \in DOMAIN got' : got'[i] = e \/ (i \in DOMAIN got /\ got'[i] = got[i])
      BY <1>8
    <2>2. /\ base'.history[Path][k].type = "tombstone"
          /\ ~Sole' /\ k \in OnRecord'
      BY <1>2, <1>5
    <2>3. \A i \in DOMAIN got : got[i].seq <= sunk =>
             \/ /\ Current.blocks[got[i].seq].sub = "file"
                /\ Current.blocks[got[i].seq].node = got[i].file
             \/ /\ ~Sole /\ got[i].seq \in OnRecord
                /\ base.history[Path][got[i].seq].type = "tombstone"
                /\ got[i].file = Nothing
      BY DEF WalkInv, GotInv
    <2> QED BY <1>2, <1>7, <1>8, <2>1, <2>2, <2>3 DEF GotInv
  <1>11. SweptInv'
    <2>1. \A j : Yields(j) # {} => Yields(j)' # {}
      BY <1>8 DEF Yields
    <2> QED BY <1>1, <1>2, <1>4, <1>6, <2>1 DEF WalkInv, SweptInv
  <1>12. YieldedInv'
    <2>1. \A j : Yields(j) # {} => Yields(j)' # {}
      BY <1>8 DEF Yields
    <2> SUFFICES ASSUME call = "history" PROVE YieldedInv'
      BY <1>2 DEF YieldedInv
    <2>2. PICK m \in DOMAIN got' :
             got'[m] = e /\ DOMAIN got' = DOMAIN got \cup {m} /\ m \notin DOMAIN got
      BY <1>8
    <2>3. Yields(k)' # {}
      BY <1>7, <2>2 DEF Yields
    <2>4. Coming' \cap reading = {} /\ k \notin Coming' \cup reading
      BY <1>4 DEF WalkInv, YieldedInv
    <2>5. \A i \in DOMAIN got : got[i].seq \notin Coming' \cup reading /\ got[i].seq # k
      BY <1>4 DEF WalkInv, YieldedInv
    <2>6. Unrepeated(t)
      BY <1>4 DEF WalkInv, YieldedInv
    <2>7. \A i \in DOMAIN got' : got'[i].seq \notin Coming' \cup reading
      BY <1>7, <1>8, <2>2, <2>4, <2>5
    <2>8. \A i, j \in DOMAIN got' : got'[i].seq = got'[j].seq => i = j
      BY <1>7, <1>8, <2>2, <2>5 DEF WalkInv, YieldedInv
    <2>9. \A j \in OnRecord :
             j <= sunk => j \in Coming' \cup reading \cup late \/ Yields(j)' # {}
      BY <1>1, <1>4, <2>1, <2>3 DEF WalkInv, YieldedInv
    <2> QED BY <1>1, <1>2, <2>4, <2>6, <2>7, <2>8, <2>9 DEF YieldedInv
  <1> QED BY <1>2, <1>9, <1>10, <1>11, <1>12 DEF WalkInv

\* A file: the number that is asked for is that of an entry.
LEMMA AskInv ==
    ASSUME WalkInv, Ask
    PROVE  WalkInv'
  <1>0. PICK k, t : k = Head(todo) /\ t = Tail(todo)
    OBVIOUS
  <1>1. /\ step = "walking" /\ todo # << >> /\ RecordType(k) = "file"
        /\ todo' = t /\ step' = step /\ reading' = reading \cup {k}
        /\ late' = late /\ got' = got
        /\ WalkStep
    BY <1>0 DEF Ask, WalkStep
  <1>2. /\ LineInv' /\ Current' = Current /\ sunk' = sunk /\ lacking' = lacking
        /\ call' = call /\ options' = options /\ record' = record /\ base' = base
        /\ OnRecord' = OnRecord /\ Files' = Files /\ (Sole' <=> Sole)
        /\ \A j : IsEntry(j)' <=> IsEntry(j)
        /\ CallInv'
    BY <1>1, StepStays
  <1>3. todo \in Seq(Versions)
    BY DEF WalkInv, ReadInv
  <1>4. /\ k \in Versions /\ t \in Seq(Versions)
        /\ Coming = {k} \cup Coming'
        /\ Unrepeated(todo) => Unrepeated(t) /\ k \notin Coming'
    <2>1. Coming' = Numbers(t) /\ Coming = Numbers(todo)
      BY <1>1 DEF Coming, Numbers
    <2>0. todo # << >> /\ k = Head(todo) /\ t = Tail(todo)
      BY <1>0, <1>1
    <2>2. /\ k \in Versions /\ t \in Seq(Versions)
          /\ Numbers(todo) = {k} \cup Numbers(t)
          /\ Unrepeated(todo) => Unrepeated(t) /\ k \notin Numbers(t)
      BY <1>3, <2>0, TailIs
    <2> QED BY <2>1, <2>2
  <1>5. IsEntry(k)
    BY <1>1, <1>4, FilesAreEntries
  <1>6. \A j : Yields(j)' = Yields(j)
    BY <1>1 DEF Yields
  <1>7. ReadInv'
    BY <1>1, <1>2, <1>4, <1>5 DEF WalkInv, ReadInv
  <1>8. GotInv'
    BY <1>1, <1>2 DEF WalkInv, GotInv
  <1>9. SweptInv'
    BY <1>1, <1>2, <1>4, <1>6 DEF WalkInv, SweptInv
  <1>10. YieldedInv'
    BY <1>1, <1>2, <1>4, <1>6 DEF WalkInv, YieldedInv
  <1> QED BY <1>2, <1>7, <1>8, <1>9, <1>10 DEF WalkInv

\* An answer: what is there under the number of an entry is that entry.
LEMMA AnswerInv ==
    ASSUME WalkInv, Answer
    PROVE  WalkInv'
  <1>1. PICK k \in reading :
           /\ Readable(k) /\ reading' = reading \ {k}
           /\ got' = Append(got, [seq |-> k, file |-> GetBySeq(k)])
    BY DEF Answer
  <1>2. step = "walking" /\ step' = step /\ todo' = todo /\ late' = late /\ WalkStep
    BY DEF Answer, WalkStep
  <1> DEFINE e == [seq |-> k, file |-> GetBySeq(k)]
  <1>4. /\ LineInv' /\ Current' = Current /\ sunk' = sunk /\ sunk \in 0 .. Size
        /\ lacking' = lacking
        /\ Current \in Views
        /\ call' = call /\ options' = options /\ record' = record /\ base' = base
        /\ OnRecord' = OnRecord /\ Files' = Files /\ (Sole' <=> Sole)
        /\ \A j : IsEntry(j)' <=> IsEntry(j)
        /\ CallInv'
    BY <1>2, StepStays
  <1>5. k \in Versions /\ IsEntry(k) /\ got \in Seq(Obtained)
    BY DEF WalkInv, ReadInv, GotInv
  <1>6. Current.blocks[k] \in Blocks
    <2>1. Current.blocks \in Seq(Blocks) /\ k \in 1 .. Len(Current.blocks)
      BY <1>1, <1>4, <1>5 DEF Views, Readable, Size, Versions
    <2> QED BY <2>1
  <1>7. Current.blocks[k].node \in Nodes /\ Nothing \notin Nodes
    BY <1>6 DEF Blocks, Nodes, Nothing
  <1>8. /\ GetBySeq(k) \in Nodes \cup {Nothing}
        /\ k <= sunk => /\ Current.blocks[k].sub = "file"
                        /\ Current.blocks[k].node = GetBySeq(k)
    BY <1>5, <1>7 DEF GetBySeq, Value, IsEntry
  <1>9. e \in Obtained /\ e.seq = k /\ e.file = GetBySeq(k)
    BY <1>5, <1>8 DEF Obtained
  <1> HIDE DEF e
  <1>10. got' = Append(got, e)
    BY <1>1 DEF e
  <1>11. /\ got' \in Seq(Obtained) /\ DOMAIN got \subseteq DOMAIN got'
         /\ \A i \in DOMAIN got : got'[i] = got[i]
         /\ \E i \in DOMAIN got' :
               got'[i] = e /\ DOMAIN got' = DOMAIN got \cup {i} /\ i \notin DOMAIN got
    BY <1>5, <1>9, <1>10, AppendIs
  <1>12. \A j : Yields(j) # {} => Yields(j)' # {}
    BY <1>11 DEF Yields
  <1>13. Yields(k)' # {}
    BY <1>9, <1>11 DEF Yields
  <1>14. Coming' = Coming
    BY <1>2 DEF Coming
  <1>15. ReadInv'
    BY <1>1, <1>2, <1>4, <1>14 DEF WalkInv, ReadInv
  <1>16. GotInv'
    BY <1>4, <1>8, <1>9, <1>11 DEF WalkInv, GotInv
  <1>17. SweptInv'
    BY <1>1, <1>2, <1>4, <1>12, <1>13, <1>14 DEF WalkInv, SweptInv
  <1>18. YieldedInv'
    <2> SUFFICES ASSUME call = "history" PROVE YieldedInv'
      BY <1>4 DEF YieldedInv
    <2>1. PICK m \in DOMAIN got' :
             got'[m] = e /\ DOMAIN got' = DOMAIN got \cup {m} /\ m \notin DOMAIN got
      BY <1>11
    <2>2. Coming \cap reading' = {} /\ k \notin Coming \cup reading'
      BY <1>1 DEF WalkInv, YieldedInv
    <2>3. \A i \in DOMAIN got : got[i].seq \notin Coming \cup reading' /\ got[i].seq # k
      BY <1>1 DEF WalkInv, YieldedInv
    <2>4. \A i \in DOMAIN got' : got'[i].seq \notin Coming \cup reading'
      BY <1>9, <1>11, <2>1, <2>2, <2>3
    <2>5. \A i, j \in DOMAIN got' : got'[i].seq = got'[j].seq => i = j
      BY <1>9, <1>11, <2>1, <2>3 DEF WalkInv, YieldedInv
    <2>6. \A j \in OnRecord :
             j <= sunk => j \in Coming \cup reading' \cup late \/ Yields(j)' # {}
      BY <1>1, <1>2, <1>12, <1>13 DEF WalkInv, YieldedInv
    <2>7. Unrepeated(todo)
      BY DEF WalkInv, YieldedInv
    <2> QED BY <1>2, <1>4, <1>14, <2>2, <2>4, <2>5, <2>6, <2>7 DEF YieldedInv
  <1> QED BY <1>4, <1>15, <1>16, <1>17, <1>18 DEF WalkInv

\* Nothing fails that is asked for by the number of an entry, unless it is not
\* held or the stream has ended before.
LEMMA FailInv ==
    ASSUME WalkInv, Fail
    PROVE  WalkInv'
  <1>1. PICK k \in reading :
           /\ Readable(k) /\ GetBySeq(k) # Nothing => k \in lacking \/ step = "ended"
           /\ reading' = reading \ {k}
    BY DEF Fail
  <1>2. step' = step /\ todo' = todo /\ late' = late /\ got' = got /\ WalkStep
    BY DEF Fail, WalkStep
  <1>3. step \in {"walking", "ended"} /\ (step # "walking" => todo = << >>)
    BY <1>1 DEF WalkInv, CallInv, ReadInv
  <1>4. /\ LineInv' /\ Current' = Current /\ sunk' = sunk /\ sunk \in 0 .. Size
        /\ lacking' = lacking
        /\ call' = call /\ options' = options /\ record' = record /\ base' = base
        /\ OnRecord' = OnRecord /\ Files' = Files /\ (Sole' <=> Sole)
        /\ \A j : IsEntry(j)' <=> IsEntry(j)
        /\ CallInv'
    BY <1>2, <1>3, StepStays
  <1>5. k \in Versions /\ IsEntry(k)
    BY DEF WalkInv, ReadInv
  <1>6. k <= sunk => k \in lacking \/ (step = "ended" /\ k \in late)
    <2>1. Size \in Nat /\ Current.blocks \in Seq(Blocks) /\ k \in Nat \ {0}
      BY <1>5, CurrentIs DEF WalkInv, Versions
    <2>2. ASSUME k <= sunk PROVE Readable(k) /\ GetBySeq(k) # Nothing
      <3>1. k \in 1 .. Len(Current.blocks) /\ Current.blocks[k].sub = "file"
        BY <1>4, <1>5, <2>1, <2>2 DEF IsEntry, Size
      <3>2. Current.blocks[k] \in Blocks
        BY <2>1, <3>1
      <3>3. Current.blocks[k].node \in Nodes /\ Nothing \notin Nodes
        BY <3>2 DEF Blocks, Nodes, Nothing
      <3> QED BY <3>1, <3>3 DEF Readable, GetBySeq, Value, Size
    <2> QED BY <1>1, <2>2 DEF WalkInv, ReadInv
  <1>7. Coming' = Coming /\ \A j : Yields(j)' = Yields(j)
    BY <1>2 DEF Coming, Yields
  <1>8. ReadInv'
    BY <1>1, <1>2, <1>4, <1>7 DEF WalkInv, ReadInv
  <1>9. GotInv'
    BY <1>2, <1>4 DEF WalkInv, GotInv
  <1>10. SweptInv'
    BY <1>1, <1>2, <1>4, <1>6, <1>7 DEF WalkInv, SweptInv
  <1>11. YieldedInv'
    BY <1>1, <1>2, <1>4, <1>6, <1>7 DEF WalkInv, CallInv, YieldedInv
  <1> QED BY <1>4, <1>8, <1>9, <1>10, <1>11 DEF WalkInv

\* The process that walks a history ends.
LEMMA CrashInv ==
    ASSUME WalkInv, Crash
    PROVE  WalkInv'
  <1>1. /\ call = "history" /\ reading # {} /\ step' = "crashed" /\ WalkStep
        /\ todo' = << >> /\ reading' = {} /\ late' = {} /\ got' = got
    BY DEF Crash, WalkStep
  <1>2. step \in {"walking", "ended"}
    BY <1>1 DEF WalkInv, CallInv, ReadInv
  <1>3. /\ LineInv' /\ Current' = Current /\ sunk' = sunk /\ lacking' = lacking
        /\ call' = call /\ options' = options /\ record' = record /\ base' = base
        /\ OnRecord' = OnRecord /\ Files' = Files /\ (Sole' <=> Sole)
        /\ \A j : IsEntry(j)' <=> IsEntry(j)
        /\ CallInv'
    BY <1>1, <1>2, StepStays
  <1>4. Coming' = {} /\ Unrepeated(todo')
    BY <1>1 DEF Coming, Numbers, Unrepeated
  <1>5. ReadInv'
    BY <1>1, <1>3, <1>4 DEF WalkInv, ReadInv
  <1>6. GotInv'
    BY <1>1, <1>3 DEF WalkInv, GotInv
  <1>7. SweptInv' /\ YieldedInv'
    BY <1>1, <1>3, <1>4 DEF WalkInv, SweptInv, YieldedInv
  <1> QED BY <1>3, <1>5, <1>6, <1>7 DEF WalkInv

\* The end of the stream.
LEMMA EndInv ==
    ASSUME WalkInv, End
    PROVE  WalkInv'
  <1>1. /\ step = "walking" /\ todo = << >> /\ (call # "history" => reading = {})
        /\ step' = "ended" /\ late' = reading
        /\ todo' = todo /\ reading' = reading /\ got' = got /\ WalkStep
    BY DEF End, WalkStep
  <1>2. /\ LineInv' /\ Current' = Current /\ sunk' = sunk /\ lacking' = lacking
        /\ call' = call /\ options' = options /\ record' = record /\ base' = base
        /\ OnRecord' = OnRecord /\ Files' = Files /\ (Sole' <=> Sole)
        /\ \A j : IsEntry(j)' <=> IsEntry(j)
        /\ CallInv'
    BY <1>1, StepStays
  <1>3. Coming' = Coming /\ \A j : Yields(j)' = Yields(j)
    BY <1>1 DEF Coming, Yields
  <1>4. ReadInv'
    BY <1>1, <1>2, <1>3 DEF WalkInv, ReadInv
  <1>5. GotInv'
    BY <1>1, <1>2 DEF WalkInv, GotInv
  <1>6. SweptInv' /\ YieldedInv'
    BY <1>1, <1>2, <1>3 DEF WalkInv, ReadInv, SweptInv, YieldedInv
  <1> QED BY <1>2, <1>4, <1>5, <1>6 DEF WalkInv

-----------------------------------------------------------------------------
(***************************************************************************)
(* The theorems.                                                           *)
(***************************************************************************)
\* A walk begins with a drive that has nothing, so with nothing to hand on.
LEMMA WalkInit == Init => WalkInv
  <1> SUFFICES ASSUME Init PROVE WalkInv
    OBVIOUS
  <1> USE DEF Init
  <1> DEFINE v == EmptyView(Drives)
  <1>1. BlockInv(v) /\ v \in Views /\ v.blocks = << >>
    BY EmptyBlockInv DEF BlockInv, ViewInv, EmptyView
  <1> HIDE DEF v
  <1>2. line = <<v>> /\ base = v
    BY DEF v
  <1>3. line \in Seq(Views) /\ DOMAIN line = {1} /\ line[1] = v /\ Current = v /\ Size = 0
    BY <1>1, <1>2 DEF Current, Size
  <1>4. LineInv
    BY <1>1, <1>3 DEF LineInv, Grows
  <1>5. CallInv
    BY <1>1, <1>2 DEF CallInv, Kept, v
  <1>6. ReadInv
    BY DEF ReadInv, Coming, Numbers
  <1>7. GotInv /\ SweptInv /\ YieldedInv
    BY DEF GotInv, SweptInv, YieldedInv
  <1> QED BY <1>4, <1>5, <1>6, <1>7 DEF WalkInv

\* Every step keeps the invariant of the walks.
LEMMA WalkNext == WalkInv /\ [Next]_vars => WalkInv'
  <1> SUFFICES ASSUME WalkInv, [Next]_vars PROVE WalkInv'
    OBVIOUS
  <1>1. CASE Write \/ Undo
    BY <1>1, WriteStep, UndoStep, DatabaseInv DEF WalkInv
  <1>2. CASE \E b \in BOOLEAN : History(b) \/ Del(b)
    BY <1>2, HistoryInv, DelInv
  <1>3. CASE Clear \/ Walk \/ Reject
    BY <1>3, ClearInv, OpenedInv, RejectInv
  <1>4. CASE Tombstone \/ Ask \/ Answer \/ Fail \/ Crash \/ End
    BY <1>4, TombstoneInv, AskInv, AnswerInv, FailInv, CrashInv, EndInv
  <1>5. CASE UNCHANGED vars
    <2>1. UNCHANGED walk /\ UNCHANGED <<database, sunk, lacking>>
      BY <1>5 DEF vars, walk, database
    <2>2. LineInv' /\ BlocksStay
      BY <2>1, WalkStays DEF BlocksStay
    <2> QED BY <2>1, <2>2, DatabaseInv
  <1> QED BY <1>1, <1>2, <1>3, <1>4, <1>5 DEF Next

\* The invariant of the walks holds throughout: of the line of views, of the
\* options, of what is being read, and of what was handed on and cleared.
THEOREM WalkInvariance == Spec => []WalkInv
  BY WalkInit, WalkNext, PTL DEF Spec

\* Every view is of the type of views.
LEMMA ViewsHaveType ==
    ASSUME NEW v, ViewInv(v)
    PROVE  ViewType(v)
  <1>1. v \in Views
    BY DEF ViewInv
  <1>2. v.files \in PartialMaps(Paths, Entries)
    BY <1>1 DEF Views
  <1>3. DOMAIN v.files \subseteq Paths /\ \A p \in DOMAIN v.files : v.files[p] \in Entries
    BY <1>2, PartialMapsAre
  <1>4. ASSUME NEW p \in Paths
        PROVE  KeyedBy(v.history[p], Records) /\ KeyedBy(v.conflicts[p], Nodes)
    <2>1. v.history[p] \in PartialMaps(Versions, Records) /\ v.conflicts[p] \in PartialMaps(Versions, Nodes)
      BY <1>1 DEF Views
    <2> QED BY <2>1, PartialMapsAre DEF KeyedBy
  <1> QED BY <1>1, <1>3, <1>4 DEF ViewType, Views

\* The variables keep their types.
THEOREM WalkTypeCorrect == Spec => []TypeOK
  <1>1. WalkInv => TypeOK
    <2> SUFFICES ASSUME WalkInv PROVE TypeOK
      OBVIOUS
    <2> USE DEF WalkInv
    <2>1. Len(line) >= 1 /\ \A i \in DOMAIN line : ViewType(line[i])
      BY ViewsHaveType DEF LineInv, BlockInv
    <2>2. sunk \in Nat
      BY CurrentIs
    <2>3. \A i \in DOMAIN todo : todo[i] \in Nat \ {0}
      BY DEF ReadInv, Versions
    <2>4. lacking \cup late \cup reading \subseteq Nat
      BY DEF LineInv, ReadInv, Versions
    <2>5. \A i \in DOMAIN got : got[i].seq \in Nat /\ got[i].file \in Nodes \cup {Nothing}
      <3>1. \A i \in DOMAIN got : got[i] \in Obtained
        BY DEF GotInv
      <3> QED BY <3>1 DEF Obtained, Versions
    <2> QED BY <2>1, <2>2, <2>3, <2>4, <2>5 DEF TypeOK, CallInv
  <1> QED BY <1>1, WalkInvariance, PTL

\* What is yielded or cleared for a version that was not undone is that version
\* of the path, whatever is written meanwhile and however the path stands by
\* then: the number under which a record is filed never comes to stand for
\* another file's data (clear(), del() and history(), index.ts 669-722,
\* 1078-1109, 1201-1262).
THEOREM VersionsStayOfThePath == Spec => []VersionsAreOfThePath
  <1>1. WalkInv => VersionsAreOfThePath
    <2> SUFFICES ASSUME WalkInv, NEW i \in DOMAIN got,
                        got[i].seq <= sunk, got[i].seq \in OnRecord
                 PROVE  got[i].file = Truth(got[i].seq)
      BY DEF VersionsAreOfThePath, OnRecord
    <2> DEFINE k == got[i].seq
    <2>1. BlockInv(base) /\ ViewInv(base)
      BY DEF WalkInv, CallInv, BlockInv
    <2>2. k \in 1 .. sunk
      <3>1. k \in Versions
        BY <2>1, PathAssumption, ViewParts DEF OnRecord
      <3>2. sunk \in Nat
        BY CurrentIs DEF WalkInv
      <3> QED BY <3>1, <3>2 DEF Versions
    <2>3. base # EmptyView(Drives)
      BY PathAssumption DEF OnRecord, EmptyView, NoKeys
    <2>4. Current.blocks[k] = base.blocks[k]
      BY <2>2, <2>3 DEF WalkInv, CallInv, Kept
    <2>5. CASE Current.blocks[k].sub = "file" /\ Current.blocks[k].node = got[i].file
      <3>1. RecordType(k) # "tombstone"
        <4>1. base.history[Path][k].type # "tombstone"
          BY <2>1, <2>4, <2>5, PathAssumption DEF BlockInv, TombstonesAreNoEntries, OnRecord
        <4>2. "file" # "tombstone"
          OBVIOUS
        <4> QED BY <4>1, <4>2 DEF RecordType
      <3> QED BY <2>4, <2>5, <3>1 DEF Truth
    <2>6. CASE /\ ~Sole /\ base.history[Path][k].type = "tombstone"
               /\ got[i].file = Nothing
      BY <2>6 DEF Truth, RecordType, Sole
    <2> QED BY <2>5, <2>6 DEF WalkInv, GotInv
  <1> QED BY <1>1, WalkInvariance, PTL

\* clear() and del() with { history } reach every file on record that was not
\* undone and whose block the replica held when they began: those before a
\* deletion, those of a path in conflict, and those that were overwritten while
\* they waited for an answer.  What is not held they leave (index.ts 697, 1222).
THEOREM VersionsAreCleared == Spec => []EveryVersionIsCleared
  <1>1. WalkInv => EveryVersionIsCleared
    <2> SUFFICES ASSUME WalkInv, step = "ended", call \in {"clear", "del"}, options.history,
                        NEW k \in Files, k <= sunk, k \notin lacking
                 PROVE  Yields(k) # {}
      BY DEF EveryVersionIsCleared
    <2>1. call # "history" /\ reading = {} /\ todo = << >>
      BY DEF WalkInv, SweptInv, CallInv
    <2>2. Coming = {}
      BY <2>1 DEF Coming, Numbers
    <2> QED BY <2>1, <2>2 DEF WalkInv, SweptInv
  <1> QED BY <1>1, WalkInvariance, PTL

\* history() yields every version on record exactly once, in whatever order the
\* answers come, if its process has not ended for an error nobody caught, all
\* are there when its stream ends, and none was undone.
THEOREM VersionsAreYielded == Spec => []EveryVersionIsYielded
  <1>1. WalkInv => EveryVersionIsYielded
    <2> SUFFICES ASSUME WalkInv, step = "ended", call = "history", late = {},
                        NEW k \in OnRecord, k <= sunk
                 PROVE  Cardinality(Yields(k)) = 1
      BY DEF EveryVersionIsYielded, OnRecord
    <2>1. Coming = {} /\ reading = {}
      BY DEF WalkInv, CallInv, ReadInv, Coming, Numbers
    <2>2. Yields(k) # {}
      BY <2>1 DEF WalkInv, YieldedInv
    <2>3. PICK i : i \in Yields(k)
      BY <2>2
    <2>4. Yields(k) = {i}
      BY <2>3 DEF Yields, WalkInv, YieldedInv
    <2> QED BY <2>4, FS_Singleton
  <1> QED BY <1>1, WalkInvariance, PTL
=============================================================================
