--------------------------- MODULE FileViewProofs ---------------------------
(***************************************************************************)
(* What the reducer preserves.  ViewInv is the invariant of a view; the    *)
(* promises of FileView are its last four conjuncts, the others are what   *)
(* makes it inductive: versions are taken from a log that only grows, so a *)
(* new record is always the latest one.                                    *)
(***************************************************************************)
EXTENDS FileView, SequenceTheorems, FiniteSetTheorems, TLAPS

PartialMaps(K, S) == UNION {[D -> S] : D \in SUBSET K}

Views ==
    [blocks    : Seq(Blocks),
     files     : PartialMaps(Paths, Entries),
     history   : [Paths -> PartialMaps(Versions, Records)],
     conflicts : [Paths -> PartialMaps(Versions, Nodes)],
     members   : SUBSET Drives]

\* A history that is not empty has a first and a last record.
HasEnds(h) ==
    DOMAIN h # {} => /\ \E k \in DOMAIN h : \A j \in DOMAIN h : j <= k
                     /\ \E k \in DOMAIN h : \A j \in DOMAIN h : k <= j

\* Every record is older than the last block.
HistoryBelow(v) ==
    \A p \in Paths : \A k \in DOMAIN v.history[p] : k < Len(v.blocks)

ViewInv(v) ==
    /\ v \in Views
    /\ \A p \in Paths : HasEnds(v.history[p]) /\ IsFiniteSet(DOMAIN v.conflicts[p])
    /\ HistoryBelow(v)
    /\ FilesMatchHistory(v)
    /\ HistoryResolves(v)
    /\ ConflictsHaveRecord(v)
    /\ OneNamespace(v)

-----------------------------------------------------------------------------
(***************************************************************************)
(* Maps.                                                                   *)
(***************************************************************************)
\* db.put on a sub-database changes the value of one key and keeps the others.
LEMMA WithType ==
    ASSUME NEW K, NEW S, NEW f \in PartialMaps(K, S), NEW k \in K, NEW e \in S
    PROVE  /\ With(f, k, e) \in PartialMaps(K, S)
           /\ DOMAIN With(f, k, e) = DOMAIN f \cup {k}
           /\ With(f, k, e)[k] = e
           /\ \A j \in DOMAIN f : j # k => With(f, k, e)[j] = f[j]
  <1>1. PICK D \in SUBSET K : f \in [D -> S]
    BY DEF PartialMaps
  <1>2. With(f, k, e) \in [D \cup {k} -> S]
    BY <1>1 DEF With
  <1>3. D \cup {k} \in SUBSET K
    OBVIOUS
  <1>4. With(f, k, e) \in PartialMaps(K, S)
    BY <1>2, <1>3 DEF PartialMaps
  <1> QED BY <1>1, <1>4 DEF With

\* db.del on a sub-database removes one key and keeps the others.
LEMMA WithoutType ==
    ASSUME NEW K, NEW S, NEW f \in PartialMaps(K, S), NEW k \in K
    PROVE  /\ Without(f, k) \in PartialMaps(K, S)
           /\ DOMAIN Without(f, k) = DOMAIN f \ {k}
           /\ \A j \in DOMAIN f : j # k => Without(f, k)[j] = f[j]
  <1>1. PICK D \in SUBSET K : f \in [D -> S]
    BY DEF PartialMaps
  <1>2. Without(f, k) \in [D \ {k} -> S]
    BY <1>1 DEF Without
  <1>3. D \ {k} \in SUBSET K
    OBVIOUS
  <1>4. Without(f, k) \in PartialMaps(K, S)
    BY <1>2, <1>3 DEF PartialMaps
  <1> QED BY <1>1, <1>4 DEF Without

\* An empty sub-database.
LEMMA NoKeysType ==
    ASSUME NEW K, NEW S
    PROVE  NoKeys \in PartialMaps(K, S) /\ DOMAIN NoKeys = {}
  <1>1. NoKeys \in [{} -> S] /\ DOMAIN NoKeys = {}
    BY DEF NoKeys
  <1>2. {} \in SUBSET K
    OBVIOUS
  <1> QED BY <1>1, <1>2 DEF PartialMaps

\* The keys and the values of a sub-database.
LEMMA PartialMapsAre ==
    ASSUME NEW K, NEW S, NEW f \in PartialMaps(K, S)
    PROVE  DOMAIN f \subseteq K /\ \A k \in DOMAIN f : f[k] \in S
  BY DEF PartialMaps

\* The latest key of a history is one of its keys, and no key is later.
LEMMA LatestKeyIs ==
    ASSUME NEW h, HasEnds(h), DOMAIN h # {}
    PROVE  LatestKey(h) \in DOMAIN h /\ \A j \in DOMAIN h : j <= LatestKey(h)
  BY DEF HasEnds, LatestKey

\* The same of the oldest key.
LEMMA OldestKeyIs ==
    ASSUME NEW h, HasEnds(h), DOMAIN h # {}
    PROVE  OldestKey(h) \in DOMAIN h /\ \A j \in DOMAIN h : OldestKey(h) <= j
  BY DEF HasEnds, OldestKey

\* A record filed under a version later than all others is the latest one,
\* and the history still has its two ends.
LEMMA NewRecordIsLatest ==
    ASSUME NEW h \in PartialMaps(Versions, Records), HasEnds(h),
           NEW k \in Versions, \A j \in DOMAIN h : j < k,
           NEW e \in Records
    PROVE  HasEnds(With(h, k, e)) /\ LatestKey(With(h, k, e)) = k
  <1> DEFINE g == With(h, k, e)
  <1>1. DOMAIN g = DOMAIN h \cup {k} /\ DOMAIN h \subseteq Versions
    BY PartialMapsAre DEF With
  <1>2. k \in DOMAIN g /\ \A j \in DOMAIN g : j <= k
    BY <1>1 DEF Versions
  <1>3. \E i \in DOMAIN g : \A j \in DOMAIN g : i <= j
    <2>1. CASE DOMAIN h = {}
      BY <1>1, <2>1 DEF Versions
    <2>2. CASE DOMAIN h # {}
      <3>1. PICK i \in DOMAIN h : \A j \in DOMAIN h : i <= j
        BY <2>2 DEF HasEnds
      <3> QED BY <1>1, <3>1 DEF Versions
    <2> QED BY <2>1, <2>2
  <1>4. HasEnds(g)
    BY <1>2, <1>3 DEF HasEnds
  <1>5. LatestKey(g) \in DOMAIN g /\ \A j \in DOMAIN g : j <= LatestKey(g)
    BY <1>2, <1>4, LatestKeyIs
  <1>6. LatestKey(g) = k
    BY <1>1, <1>2, <1>5 DEF Versions
  <1> QED BY <1>4, <1>6

-----------------------------------------------------------------------------
(***************************************************************************)
(* The writes: what they leave in each part of a view.                     *)
(***************************************************************************)
\* Blocks and sources are well formed.
LEMMA BlockTypes ==
    ASSUME NEW p \in Paths, NEW n \in Nodes,
           NEW s \in {"file", "del", "history", "conflict"}
    PROVE  Block(s, p, n) \in Blocks /\ Source(n) \in Drives
  BY DEF Block, Blocks, Nodes, Source

\* The entry of a path becomes node n, under the version of its own block.
LEMMA PutFileIs ==
    ASSUME NEW v \in Views, NEW p \in Paths, NEW n \in Nodes
    PROVE  /\ PutFile(v, p, n) \in Views
           /\ PutFile(v, p, n).blocks = Append(v.blocks, Block("file", p, n))
           /\ PutFile(v, p, n).files = With(v.files, p, [seq |-> Len(v.blocks) + 1, node |-> n])
           /\ PutFile(v, p, n).history = v.history
           /\ PutFile(v, p, n).conflicts = v.conflicts
  <1> DEFINE e == [seq |-> Len(v.blocks) + 1, node |-> n]
  <1>1. v.blocks \in Seq(Blocks) /\ v.files \in PartialMaps(Paths, Entries)
    BY DEF Views
  <1>2. e \in Entries
    BY <1>1, LenProperties DEF Entries
  <1>3. With(v.files, p, e) \in PartialMaps(Paths, Entries)
    BY <1>1, <1>2, WithType
  <1>4. Append(v.blocks, Block("file", p, n)) \in Seq(Blocks)
    BY <1>1, BlockTypes
  <1>5. PutFile(v, p, n) = [v EXCEPT !.blocks = Append(v.blocks, Block("file", p, n)),
                                     !.files = With(v.files, p, e)]
    BY DEF PutFile, Version
  <1> QED BY <1>3, <1>4, <1>5 DEF Views

\* The entry of a path is gone; nothing happens when there was none.
LEMMA DelFileIs ==
    ASSUME NEW v \in Views, NEW p \in Paths, NEW n \in Nodes
    PROVE  /\ DelFile(v, p, n) \in Views
           /\ \/ DelFile(v, p, n).blocks = v.blocks
              \/ DelFile(v, p, n).blocks = Append(v.blocks, Block("del", p, n))
           /\ DOMAIN DelFile(v, p, n).files = DOMAIN v.files \ {p}
           /\ \A q \in DOMAIN v.files : q # p => DelFile(v, p, n).files[q] = v.files[q]
           /\ DelFile(v, p, n).history = v.history
           /\ DelFile(v, p, n).conflicts = v.conflicts
  <1>1. CASE p \notin DOMAIN v.files
    BY <1>1 DEF DelFile
  <1>2. CASE p \in DOMAIN v.files
    <2>1. v.blocks \in Seq(Blocks) /\ v.files \in PartialMaps(Paths, Entries)
      BY DEF Views
    <2>2. /\ Without(v.files, p) \in PartialMaps(Paths, Entries)
          /\ DOMAIN Without(v.files, p) = DOMAIN v.files \ {p}
          /\ \A q \in DOMAIN v.files : q # p => Without(v.files, p)[q] = v.files[q]
      <3>1. Without(v.files, p) \in PartialMaps(Paths, Entries)
        BY <2>1, WithoutType
      <3> QED BY <3>1 DEF Without
    <2>3. Append(v.blocks, Block("del", p, n)) \in Seq(Blocks)
      BY <2>1, BlockTypes
    <2>4. DelFile(v, p, n) = [v EXCEPT !.blocks = Append(v.blocks, Block("del", p, n)),
                                       !.files = Without(v.files, p)]
      BY <1>2 DEF DelFile
    <2> QED BY <2>2, <2>3, <2>4 DEF Views
  <1> QED BY <1>1, <1>2

\* A record is filed under the version of the block before its own.
LEMMA PutHistoryIs ==
    ASSUME NEW v \in Views, NEW p \in Paths, NEW n \in Nodes,
           NEW t \in {"file", "tombstone"}, Len(v.blocks) > 0
    PROVE  /\ PutHistory(v, p, t, n) \in Views
           /\ PutHistory(v, p, t, n).blocks = Append(v.blocks, Block("history", p, n))
           /\ PutHistory(v, p, t, n).files = v.files
           /\ PutHistory(v, p, t, n).history =
                 [v.history EXCEPT ![p] = With(v.history[p], Len(v.blocks),
                                               [type |-> t, source |-> Source(n)])]
           /\ PutHistory(v, p, t, n).conflicts = v.conflicts
           /\ Len(v.blocks) \in Versions
           /\ [type |-> t, source |-> Source(n)] \in Records
  <1> DEFINE e == [type |-> t, source |-> Source(n)]
  <1>1. v.blocks \in Seq(Blocks) /\ v.history \in [Paths -> PartialMaps(Versions, Records)]
    BY DEF Views
  <1>2. Len(v.blocks) \in Versions /\ e \in Records
    BY <1>1, LenProperties, BlockTypes DEF Versions, Records
  <1>3. With(v.history[p], Len(v.blocks), e) \in PartialMaps(Versions, Records)
    BY <1>1, <1>2, WithType
  <1>4. Append(v.blocks, Block("history", p, n)) \in Seq(Blocks)
    BY <1>1, BlockTypes
  <1>5. PutHistory(v, p, t, n) =
           [v EXCEPT !.blocks = Append(v.blocks, Block("history", p, n)),
                     !.history[p] = With(v.history[p], Len(v.blocks), e)]
    <2>1. Version(v) - 1 = Len(v.blocks)
      BY <1>1, LenProperties DEF Version
    <2> QED BY <2>1 DEF PutHistory
  <1>6. [v.history EXCEPT ![p] = With(v.history[p], Len(v.blocks), e)]
           \in [Paths -> PartialMaps(Versions, Records)]
    BY <1>1, <1>3
  <1> QED BY <1>2, <1>4, <1>5, <1>6 DEF Views

\* One more conflict, under the version of its own block.
LEMMA PutConflictIs ==
    ASSUME NEW v \in Views, NEW p \in Paths, NEW n \in Nodes
    PROVE  /\ PutConflict(v, p, n) \in Views
           /\ PutConflict(v, p, n).blocks = Append(v.blocks, Block("conflict", p, n))
           /\ PutConflict(v, p, n).files = v.files
           /\ PutConflict(v, p, n).history = v.history
           /\ PutConflict(v, p, n).conflicts =
                 [v.conflicts EXCEPT ![p] = With(v.conflicts[p], Len(v.blocks) + 1, n)]
           /\ Len(v.blocks) + 1 \in Versions
  <1>1. v.blocks \in Seq(Blocks) /\ v.conflicts \in [Paths -> PartialMaps(Versions, Nodes)]
    BY DEF Views
  <1>2. Len(v.blocks) + 1 \in Versions
    BY <1>1, LenProperties DEF Versions
  <1>3. With(v.conflicts[p], Len(v.blocks) + 1, n) \in PartialMaps(Versions, Nodes)
    BY <1>1, <1>2, WithType, ZenonT(60)
  <1>4. Append(v.blocks, Block("conflict", p, n)) \in Seq(Blocks)
    BY <1>1, BlockTypes
  <1>5. PutConflict(v, p, n) =
           [v EXCEPT !.blocks = Append(v.blocks, Block("conflict", p, n)),
                     !.conflicts[p] = With(v.conflicts[p], Len(v.blocks) + 1, n)]
    BY DEF PutConflict, Version
  <1>6. [v.conflicts EXCEPT ![p] = With(v.conflicts[p], Len(v.blocks) + 1, n)]
           \in [Paths -> PartialMaps(Versions, Nodes)]
    BY <1>1, <1>3
  <1> QED BY <1>2, <1>4, <1>5, <1>6 DEF Views

\* The blocks grow, the conflicts at p are gone, the rest is as it was.
LEMMA ClearConflictsIs ==
    ASSUME NEW v \in Views, NEW p \in Paths, NEW n \in Nodes,
           IsFiniteSet(DOMAIN v.conflicts[p])
    PROVE  LET w == ClearConflicts(v, p, n)
           IN  /\ w \in Views
               /\ Len(w.blocks) \in Nat /\ Len(w.blocks) >= Len(v.blocks)
               /\ \A i \in 1 .. Len(v.blocks) : w.blocks[i] = v.blocks[i]
               /\ w.files = v.files
               /\ w.history = v.history
               /\ w.conflicts = [v.conflicts EXCEPT ![p] = NoKeys]
  <1> DEFINE c == Cardinality(DOMAIN v.conflicts[p])
             dels == [i \in 1 .. c |-> Block("del", p, n)]
  <1>1. v.blocks \in Seq(Blocks) /\ v.conflicts \in [Paths -> PartialMaps(Versions, Nodes)]
    BY DEF Views
  <1>2. c \in Nat
    BY FS_CardinalityType
  <1>3. dels \in Seq(Blocks) /\ Len(dels) = c
    BY <1>2, BlockTypes
  <1>4. /\ v.blocks \o dels \in Seq(Blocks)
        /\ Len(v.blocks \o dels) = Len(v.blocks) + c
        /\ \A i \in 1 .. Len(v.blocks) : (v.blocks \o dels)[i] = v.blocks[i]
    BY <1>1, <1>2, <1>3
  <1>5. [v.conflicts EXCEPT ![p] = NoKeys] \in [Paths -> PartialMaps(Versions, Nodes)]
    BY <1>1, NoKeysType
  <1>6. ClearConflicts(v, p, n) = [v EXCEPT !.blocks = v.blocks \o dels,
                                            !.conflicts[p] = NoKeys]
    BY DEF ClearConflicts
  <1> DEFINE w == ClearConflicts(v, p, n)
  <1>7. /\ w.blocks = v.blocks \o dels
        /\ w.files = v.files /\ w.history = v.history
        /\ w.conflicts = [v.conflicts EXCEPT ![p] = NoKeys]
    BY <1>6 DEF Views
  <1>8. w \in Views
    BY <1>4, <1>5, <1>6 DEF Views
  <1>9. Len(w.blocks) \in Nat /\ Len(w.blocks) >= Len(v.blocks)
    BY <1>1, <1>2, <1>4, <1>7, LenProperties
  <1> QED BY <1>4, <1>7, <1>8, <1>9

-----------------------------------------------------------------------------
(***************************************************************************)
(* The invariant.                                                          *)
(***************************************************************************)
\* The parts of a view in the invariant, typed.
LEMMA ViewParts ==
    ASSUME NEW v, ViewInv(v)
    PROVE  /\ v \in Views
           /\ v.blocks \in Seq(Blocks) /\ Len(v.blocks) \in Nat
           /\ \A p \in Paths :
                 /\ v.history[p] \in PartialMaps(Versions, Records)
                 /\ DOMAIN v.history[p] \subseteq Versions
                 /\ \A k \in DOMAIN v.history[p] :
                       v.history[p][k] \in Records /\ k \in 1 .. Len(v.blocks)
                 /\ v.conflicts[p] \in PartialMaps(Versions, Nodes)
  <1>1. v \in Views /\ HistoryBelow(v)
    BY DEF ViewInv
  <1>2. v.blocks \in Seq(Blocks) /\ Len(v.blocks) \in Nat
    BY <1>1, LenProperties DEF Views
  <1>3. ASSUME NEW p \in Paths
        PROVE  /\ v.history[p] \in PartialMaps(Versions, Records)
               /\ v.conflicts[p] \in PartialMaps(Versions, Nodes)
    BY <1>1 DEF Views
  <1>4. ASSUME NEW p \in Paths
        PROVE  /\ DOMAIN v.history[p] \subseteq Versions
               /\ \A k \in DOMAIN v.history[p] : v.history[p][k] \in Records
    BY <1>3, PartialMapsAre
  <1>5. ASSUME NEW p \in Paths, NEW k \in DOMAIN v.history[p]
        PROVE  k \in 1 .. Len(v.blocks)
    BY <1>1, <1>2, <1>4 DEF HistoryBelow, Versions
  <1> QED BY <1>1, <1>2, <1>3, <1>4, <1>5

\* The empty database keeps every promise.
LEMMA EmptyViewInv ==
    ASSUME NEW members \in SUBSET Drives
    PROVE  ViewInv(EmptyView(members))
  <1> DEFINE v == EmptyView(members)
  <1>1. v \in Views
    <2>1. /\ NoKeys \in PartialMaps(Paths, Entries)
          /\ NoKeys \in PartialMaps(Versions, Records)
          /\ NoKeys \in PartialMaps(Versions, Nodes)
      BY NoKeysType
    <2>2. << >> \in Seq(Blocks)
      OBVIOUS
    <2> QED BY <2>1, <2>2 DEF EmptyView, Views
  <1>2. /\ DOMAIN v.files = {}
        /\ \A p \in Paths : DOMAIN v.history[p] = {} /\ DOMAIN v.conflicts[p] = {}
    BY DEF EmptyView, NoKeys
  <1>3. \A p \in Paths : HasEnds(v.history[p]) /\ IsFiniteSet(DOMAIN v.conflicts[p])
    BY <1>2, FS_EmptySet DEF HasEnds
  <1> HIDE DEF v
  <1>4. HistoryBelow(v) /\ FilesMatchHistory(v) /\ HistoryResolves(v)
    BY <1>2 DEF HistoryBelow, FilesMatchHistory, HistoryResolves, Recorded
  <1>5. ConflictsHaveRecord(v) /\ OneNamespace(v)
    BY <1>2 DEF ConflictsHaveRecord, OneNamespace, InConflict
  <1> QED BY <1>1, <1>3, <1>4, <1>5 DEF ViewInv, v

\* From v to w a record e is filed at p under a version L only it has.
FiledRecord(v, w, p, L, e) ==
    /\ w \in Views /\ p \in Paths /\ L \in Versions /\ e \in Records
    /\ L >= Len(v.blocks) /\ L < Len(w.blocks)
    /\ \A i \in 1 .. Len(v.blocks) : w.blocks[i] = v.blocks[i]
    /\ w.history = [v.history EXCEPT ![p] = With(v.history[p], L, e)]
    /\ w.conflicts = v.conflicts
    /\ e.type = "file" => /\ p \in DOMAIN w.files
                          /\ w.files[p].seq = L
                          /\ Source(w.files[p].node) = e.source
                          /\ w.blocks[L].sub = "file" /\ w.blocks[L].path = p
                          /\ Source(w.blocks[L].node) = e.source
    /\ e.type = "tombstone" => p \notin DOMAIN w.files
    /\ \A q \in Paths \ {p} :
          /\ q \in DOMAIN w.files <=> q \in DOMAIN v.files
          /\ q \in DOMAIN w.files => w.files[q] = v.files[q]

\* A new record at a path that is not in conflict, by a source of the path's
\* namespace, keeps every promise.
LEMMA NewRecordInv ==
    ASSUME NEW v, NEW w, NEW p, NEW L, NEW e,
           ViewInv(v), FiledRecord(v, w, p, L, e),
           ~InConflict(v, p),
           Recorded(v, p) => Namespace[e.source] = Namespace[Latest(v, p).source]
    PROVE  ViewInv(w)
  <1> DEFINE h == v.history[p]
             g == With(h, L, e)
  <1> USE DEF FiledRecord
  <1>1. Len(v.blocks) \in Nat /\ Len(w.blocks) \in Nat
    BY ViewParts, LenProperties DEF Views
  <1>2. /\ h \in PartialMaps(Versions, Records)
        /\ HasEnds(h)
        /\ \A j \in DOMAIN h : j \in Versions /\ j < Len(v.blocks) /\ j < L /\ h[j] \in Records
    BY ViewParts, <1>1 DEF ViewInv, HistoryBelow, Versions
  <1>3. v.history \in [Paths -> PartialMaps(Versions, Records)]
    BY DEF ViewInv, Views
  <1>4. w.history[p] = g /\ \A q \in Paths \ {p} : w.history[q] = v.history[q]
    BY <1>3
  <1>5. /\ DOMAIN g = DOMAIN h \cup {L} /\ g[L] = e
        /\ \A j \in DOMAIN h : g[j] = h[j]
    BY <1>2 DEF With, Versions
  <1>6. HasEnds(g) /\ LatestKey(g) = L
    BY <1>2, NewRecordIsLatest
  <1> HIDE DEF g, h
  <1>7. \A q \in Paths : HasEnds(w.history[q]) /\ IsFiniteSet(DOMAIN w.conflicts[q])
    BY <1>4, <1>6 DEF ViewInv
  <1>8. HistoryBelow(w)
    <2>1. ASSUME NEW k \in DOMAIN g PROVE k < Len(w.blocks)
      BY <1>1, <1>2, <1>5 DEF Versions
    <2>2. ASSUME NEW q \in Paths \ {p}, NEW k \in DOMAIN v.history[q]
          PROVE  k < Len(w.blocks)
      <3>1. k \in 1 .. Len(v.blocks)
        BY ViewParts
      <3> QED BY <3>1, <1>1 DEF Versions
    <2> QED BY <2>1, <2>2, <1>4 DEF HistoryBelow
  <1>9. FilesMatchHistory(w)
    <2>1. Recorded(w, p) /\ Latest(w, p) = e
      BY <1>4, <1>5, <1>6 DEF Recorded, Latest
    <2>2. e.type \in {"file", "tombstone"}
      BY DEF Records
    <2>3. /\ p \in DOMAIN w.files <=> Recorded(w, p) /\ Latest(w, p).type = "file"
          /\ p \in DOMAIN w.files => /\ w.files[p].seq = LatestKey(w.history[p])
                                     /\ Source(w.files[p].node) = Latest(w, p).source
      BY <2>1, <2>2, <1>4, <1>6
    <2>4. ASSUME NEW q \in Paths \ {p}
          PROVE  /\ q \in DOMAIN w.files <=> Recorded(w, q) /\ Latest(w, q).type = "file"
                 /\ q \in DOMAIN w.files => /\ w.files[q].seq = LatestKey(w.history[q])
                                            /\ Source(w.files[q].node) = Latest(w, q).source
      BY <1>4 DEF ViewInv, FilesMatchHistory, Recorded, Latest
    <2> QED BY <2>3, <2>4 DEF FilesMatchHistory
  <1>10. HistoryResolves(w)
    <2> SUFFICES ASSUME NEW q \in Paths, NEW k \in DOMAIN w.history[q],
                        w.history[q][k].type = "file"
                 PROVE  /\ k <= Len(w.blocks)
                        /\ w.blocks[k].sub = "file" /\ w.blocks[k].path = q
                        /\ Source(w.blocks[k].node) = w.history[q][k].source
      BY DEF HistoryResolves
    <2>1. k < Len(w.blocks)
      BY <1>8 DEF HistoryBelow
    <2>2. CASE q = p /\ k = L
      BY <2>2, <1>1, <1>4, <1>5 DEF Versions
    <2>3. CASE k \in DOMAIN v.history[q] /\ w.history[q][k] = v.history[q][k]
      <3>1. k \in 1 .. Len(v.blocks)
        BY <2>3, ViewParts
      <3>2. /\ v.blocks[k].sub = "file" /\ v.blocks[k].path = q
            /\ Source(v.blocks[k].node) = v.history[q][k].source
        BY <2>3 DEF ViewInv, HistoryResolves
      <3> QED BY <3>1, <3>2, <2>1, <2>3, <1>1
    <2>4. (q = p /\ k = L) \/ (k \in DOMAIN v.history[q] /\ w.history[q][k] = v.history[q][k])
      BY <1>4, <1>5 DEF h
    <2> QED BY <2>2, <2>3, <2>4
  <1>11. ConflictsHaveRecord(w)
    BY <1>4, <1>5 DEF ViewInv, ConflictsHaveRecord, InConflict, Recorded
  <1>12. OneNamespace(w)
    <2>1. ASSUME NEW j \in DOMAIN h PROVE Namespace[h[j].source] = Namespace[e.source]
      <3>1. Recorded(v, p) /\ LatestKey(h) \in DOMAIN h /\ Latest(v, p) = h[LatestKey(h)]
        BY <1>2, LatestKeyIs DEF Recorded, Latest, h
      <3>2. Namespace[h[j].source] = Namespace[h[LatestKey(h)].source]
        BY <3>1 DEF ViewInv, OneNamespace, h
      <3> QED BY <3>1, <3>2
    <2>2. ASSUME NEW k \in DOMAIN g PROVE Namespace[g[k].source] = Namespace[e.source]
      BY <2>1, <1>5
    <2>3. DOMAIN w.conflicts[p] = {}
      BY DEF InConflict
    <2>4. ASSUME NEW q \in Paths \ {p}, NEW k \in DOMAIN w.history[q]
          PROVE  /\ \A j \in DOMAIN w.history[q] :
                       Namespace[w.history[q][j].source] = Namespace[w.history[q][k].source]
                 /\ \A c \in DOMAIN w.conflicts[q] :
                       Namespace[Source(w.conflicts[q][c])] = Namespace[w.history[q][k].source]
      BY <1>4 DEF ViewInv, OneNamespace
    <2> QED BY <2>2, <2>3, <2>4, <1>4 DEF OneNamespace
  <1> QED BY <1>7, <1>8, <1>9, <1>10, <1>11, <1>12 DEF ViewInv

\* Writing an entry and its record keeps every promise.
LEMMA FileRecordInv ==
    ASSUME NEW v, ViewInv(v), NEW p \in Paths, NEW n \in Nodes,
           ~InConflict(v, p),
           Recorded(v, p) => Namespace[Source(n)] = Namespace[Latest(v, p).source]
    PROVE  ViewInv(PutHistory(PutFile(v, p, n), p, "file", n))
  <1> DEFINE u == PutFile(v, p, n)
             w == PutHistory(u, p, "file", n)
             e == [type |-> "file", source |-> Source(n)]
             L == Len(v.blocks) + 1
             entry == [seq |-> L, node |-> n]
  <1>1. /\ v \in Views /\ v.blocks \in Seq(Blocks) /\ Len(v.blocks) \in Nat
        /\ v.files \in PartialMaps(Paths, Entries)
    BY ViewParts DEF Views
  <1>2. /\ u \in Views
        /\ u.blocks = Append(v.blocks, Block("file", p, n))
        /\ u.files = With(v.files, p, entry)
        /\ u.history = v.history /\ u.conflicts = v.conflicts
    BY <1>1, PutFileIs
  <1>3. Block("file", p, n) \in Blocks /\ Block("history", p, n) \in Blocks
    BY BlockTypes
  <1>4. Len(u.blocks) = L /\ u.blocks \in Seq(Blocks)
    BY <1>1, <1>2, <1>3
  <1> HIDE DEF u
  <1>5. /\ w \in Views
        /\ w.blocks = Append(u.blocks, Block("history", p, n))
        /\ w.files = u.files
        /\ w.history = [u.history EXCEPT ![p] = With(u.history[p], L, e)]
        /\ w.conflicts = u.conflicts
        /\ L \in Versions /\ e \in Records
    <2>1. Len(u.blocks) > 0
      BY <1>1, <1>4
    <2>2. "file" \in {"file", "tombstone"}
      OBVIOUS
    <2>3. /\ w \in Views
          /\ w.blocks = Append(u.blocks, Block("history", p, n))
          /\ w.files = u.files
          /\ w.history = [u.history EXCEPT ![p] = With(u.history[p], Len(u.blocks), e)]
          /\ w.conflicts = u.conflicts
          /\ Len(u.blocks) \in Versions /\ e \in Records
      BY <1>2, <2>1, <2>2, PutHistoryIs
    <2> QED BY <2>3, <1>4
  <1> HIDE DEF w
  <1>6. Len(w.blocks) = L + 1
    BY <1>3, <1>4, <1>5
  <1>7. \A i \in 1 .. Len(v.blocks) : w.blocks[i] = v.blocks[i]
    BY <1>1, <1>2, <1>3, <1>4, <1>5
  <1>8. w.blocks[L] = Block("file", p, n)
    BY <1>1, <1>2, <1>3, <1>4, <1>5
  <1>9. /\ p \in DOMAIN w.files /\ w.files[p] = entry
        /\ \A q \in Paths \ {p} : /\ q \in DOMAIN w.files <=> q \in DOMAIN v.files
                                  /\ q \in DOMAIN w.files => w.files[q] = v.files[q]
    BY <1>2, <1>5 DEF With
  <1>10. /\ w.blocks[L].sub = "file" /\ w.blocks[L].path = p
         /\ Source(w.blocks[L].node) = e.source
    BY <1>8 DEF Block
  <1>11. w.history = [v.history EXCEPT ![p] = With(v.history[p], L, e)] /\ w.conflicts = v.conflicts
    BY <1>2, <1>5
  <1>12. L >= Len(v.blocks) /\ L < Len(w.blocks)
    BY <1>1, <1>6
  <1>13. e.type = "file" /\ e.source = Source(n) /\ entry.seq = L /\ entry.node = n
    OBVIOUS
  <1>14. "file" # "tombstone"
    OBVIOUS
  <1> HIDE DEF e, L, entry
  <1>15. FiledRecord(v, w, p, L, e)
    BY <1>5, <1>7, <1>9, <1>10, <1>11, <1>12, <1>13, <1>14 DEF FiledRecord
  <1>16. ViewInv(w)
    BY <1>13, <1>15, NewRecordInv
  <1> QED BY <1>16 DEF w, u

\* Removing the entry of a recorded path and recording it keeps every promise,
\* even when there was no entry to remove.
LEMMA TombstoneRecordInv ==
    ASSUME NEW v, ViewInv(v), NEW p \in Paths, NEW n \in Nodes,
           ~InConflict(v, p), Recorded(v, p),
           Namespace[Source(n)] = Namespace[Latest(v, p).source]
    PROVE  ViewInv(PutHistory(DelFile(v, p, n), p, "tombstone", n))
  <1> DEFINE u == DelFile(v, p, n)
             w == PutHistory(u, p, "tombstone", n)
             e == [type |-> "tombstone", source |-> Source(n)]
             L == Len(u.blocks)
  <1>1. /\ v \in Views /\ v.blocks \in Seq(Blocks) /\ Len(v.blocks) \in Nat
    BY ViewParts
  <1>2. /\ u \in Views
        /\ \/ u.blocks = v.blocks
           \/ u.blocks = Append(v.blocks, Block("del", p, n))
        /\ DOMAIN u.files = DOMAIN v.files \ {p}
        /\ \A q \in DOMAIN v.files : q # p => u.files[q] = v.files[q]
        /\ u.history = v.history /\ u.conflicts = v.conflicts
    BY <1>1, DelFileIs
  <1>3. Block("del", p, n) \in Blocks /\ Block("history", p, n) \in Blocks
    BY BlockTypes
  <1>4. Len(v.blocks) > 0
    BY <1>1, ViewParts DEF Recorded
  <1> HIDE DEF u
  <1>5. /\ u.blocks \in Seq(Blocks)
        /\ L \in Nat /\ L >= Len(v.blocks)
        /\ \A i \in 1 .. Len(v.blocks) : u.blocks[i] = v.blocks[i]
    BY <1>1, <1>2, <1>3, SMTT(30)
  <1>6. /\ w \in Views
        /\ w.blocks = Append(u.blocks, Block("history", p, n))
        /\ w.files = u.files
        /\ w.history = [u.history EXCEPT ![p] = With(u.history[p], L, e)]
        /\ w.conflicts = u.conflicts
        /\ L \in Versions /\ e \in Records
    <2>1. Len(u.blocks) > 0
      BY <1>1, <1>4, <1>5
    <2>2. "tombstone" \in {"file", "tombstone"}
      OBVIOUS
    <2> QED BY <1>2, <2>1, <2>2, PutHistoryIs
  <1> HIDE DEF w
  <1>7. L < Len(w.blocks)
    BY <1>3, <1>5, <1>6
  <1>8. \A i \in 1 .. Len(v.blocks) : w.blocks[i] = v.blocks[i]
    BY <1>1, <1>3, <1>5, <1>6
  <1>9. /\ p \notin DOMAIN w.files
        /\ \A q \in Paths \ {p} : /\ q \in DOMAIN w.files <=> q \in DOMAIN v.files
                                  /\ q \in DOMAIN w.files => w.files[q] = v.files[q]
    BY <1>2, <1>6
  <1>10. w.history = [v.history EXCEPT ![p] = With(v.history[p], L, e)] /\ w.conflicts = v.conflicts
    BY <1>2, <1>6
  <1>11. e.type = "tombstone" /\ e.source = Source(n)
    OBVIOUS
  <1>12. "file" # "tombstone"
    OBVIOUS
  <1> HIDE DEF e, L
  <1>13. FiledRecord(v, w, p, L, e)
    BY <1>5, <1>6, <1>7, <1>8, <1>9, <1>10, <1>11, <1>12 DEF FiledRecord
  <1>14. ViewInv(w)
    BY <1>11, <1>13, NewRecordInv
  <1> QED BY <1>14 DEF w, u

\* From v to w only the conflicts at p change, and the length; what conflicts
\* there are, are beside a record and of its namespace.
FiledConflicts(v, w, p) ==
    /\ w \in Views /\ p \in Paths
    /\ Len(w.blocks) >= Len(v.blocks)
    /\ \A i \in 1 .. Len(v.blocks) : w.blocks[i] = v.blocks[i]
    /\ w.files = v.files /\ w.history = v.history
    /\ IsFiniteSet(DOMAIN w.conflicts[p])
    /\ \A q \in Paths \ {p} : w.conflicts[q] = v.conflicts[q]
    /\ \A c \in DOMAIN w.conflicts[p] :
          /\ Recorded(v, p)
          /\ Namespace[Source(w.conflicts[p][c])] = Namespace[Latest(v, p).source]

\* Such a change keeps every promise.
LEMMA NewConflictsInv ==
    ASSUME NEW v, NEW w, NEW p, ViewInv(v), FiledConflicts(v, w, p)
    PROVE  ViewInv(w)
  <1> USE DEF FiledConflicts
  <1>1. Len(v.blocks) \in Nat /\ Len(w.blocks) \in Nat
    BY ViewParts, LenProperties DEF Views
  <1>2. \A q \in Paths : HasEnds(w.history[q]) /\ IsFiniteSet(DOMAIN w.conflicts[q])
    BY DEF ViewInv
  <1>3. HistoryBelow(w)
    <2> SUFFICES ASSUME NEW q \in Paths, NEW k \in DOMAIN v.history[q]
                 PROVE  k < Len(w.blocks)
      BY DEF HistoryBelow
    <2>1. k \in 1 .. Len(v.blocks) /\ k < Len(v.blocks)
      BY ViewParts DEF ViewInv, HistoryBelow
    <2> QED BY <2>1, <1>1
  <1>4. FilesMatchHistory(w)
    BY DEF ViewInv, FilesMatchHistory, Recorded, Latest
  <1>5. HistoryResolves(w)
    <2> SUFFICES ASSUME NEW q \in Paths, NEW k \in DOMAIN v.history[q],
                        v.history[q][k].type = "file"
                 PROVE  /\ k <= Len(w.blocks)
                        /\ w.blocks[k].sub = "file" /\ w.blocks[k].path = q
                        /\ Source(w.blocks[k].node) = v.history[q][k].source
      BY DEF HistoryResolves
    <2>1. k \in 1 .. Len(v.blocks)
      BY ViewParts
    <2>2. /\ v.blocks[k].sub = "file" /\ v.blocks[k].path = q
          /\ Source(v.blocks[k].node) = v.history[q][k].source
      BY DEF ViewInv, HistoryResolves
    <2> QED BY <2>1, <2>2, <1>1
  <1>6. ConflictsHaveRecord(w)
    BY DEF ViewInv, ConflictsHaveRecord, InConflict, Recorded
  <1>7. OneNamespace(w)
    <2>1. ASSUME NEW k \in DOMAIN v.history[p], NEW c \in DOMAIN w.conflicts[p]
          PROVE  Namespace[Source(w.conflicts[p][c])] = Namespace[v.history[p][k].source]
      <3>1. LatestKey(v.history[p]) \in DOMAIN v.history[p]
        BY LatestKeyIs DEF ViewInv
      <3>2. Namespace[Latest(v, p).source] = Namespace[v.history[p][k].source]
        BY <3>1 DEF ViewInv, OneNamespace, Latest
      <3> QED BY <3>2
    <2> QED BY <2>1 DEF ViewInv, OneNamespace
  <1> QED BY <1>2, <1>3, <1>4, <1>5, <1>6, <1>7 DEF ViewInv

-----------------------------------------------------------------------------
(***************************************************************************)
(* The handlers.                                                           *)
(***************************************************************************)
\* In a view that keeps its promises all sources of a path share a namespace,
\* so the latest record speaks for the first one and for the conflicts.
LEMMA NamespaceOfPath ==
    ASSUME NEW v, ViewInv(v), NEW p \in Paths, Recorded(v, p)
    PROVE  /\ Namespace[Oldest(v, p).source] = Namespace[Latest(v, p).source]
           /\ \A c \in DOMAIN v.conflicts[p] :
                 Namespace[Source(v.conflicts[p][c])] = Namespace[Latest(v, p).source]
  <1>1. /\ LatestKey(v.history[p]) \in DOMAIN v.history[p]
        /\ OldestKey(v.history[p]) \in DOMAIN v.history[p]
    BY LatestKeyIs, OldestKeyIs DEF ViewInv, Recorded
  <1> QED BY <1>1 DEF ViewInv, OneNamespace, Latest, Oldest

\* Putting an operation aside as a conflict keeps every promise.
LEMMA ConflictInv ==
    ASSUME NEW v, ViewInv(v), NEW p \in Paths, NEW n \in Nodes,
           Recorded(v, p), Namespace[Source(n)] = Namespace[Latest(v, p).source]
    PROVE  ViewInv(PutConflict(v, p, n))
  <1> DEFINE w == PutConflict(v, p, n)
             K == Len(v.blocks) + 1
  <1>1. /\ v \in Views /\ v.blocks \in Seq(Blocks) /\ Len(v.blocks) \in Nat
        /\ v.conflicts \in [Paths -> PartialMaps(Versions, Nodes)]
    BY ViewParts DEF Views
  <1>2. Block("conflict", p, n) \in Blocks
    BY BlockTypes
  <1>3. /\ w \in Views
        /\ w.blocks = Append(v.blocks, Block("conflict", p, n))
        /\ w.files = v.files /\ w.history = v.history
        /\ w.conflicts = [v.conflicts EXCEPT ![p] = With(v.conflicts[p], K, n)]
    BY <1>1, PutConflictIs
  <1> HIDE DEF w
  <1>4. /\ Len(w.blocks) >= Len(v.blocks)
        /\ \A i \in 1 .. Len(v.blocks) : w.blocks[i] = v.blocks[i]
    BY <1>1, <1>2, <1>3
  <1>5. /\ w.conflicts[p] = With(v.conflicts[p], K, n)
        /\ \A q \in Paths \ {p} : w.conflicts[q] = v.conflicts[q]
    BY <1>1, <1>3
  <1>6. /\ DOMAIN w.conflicts[p] = DOMAIN v.conflicts[p] \cup {K}
        /\ \A c \in DOMAIN w.conflicts[p] :
              w.conflicts[p][c] = n \/ (c \in DOMAIN v.conflicts[p]
                                         /\ w.conflicts[p][c] = v.conflicts[p][c])
    BY <1>5 DEF With
  <1>7. IsFiniteSet(DOMAIN w.conflicts[p])
    <2>1. IsFiniteSet(DOMAIN v.conflicts[p])
      BY DEF ViewInv
    <2>2. IsFiniteSet(DOMAIN v.conflicts[p] \cup {K})
      BY <2>1, FS_AddElement
    <2> QED BY <2>2, <1>6
  <1>8. \A c \in DOMAIN w.conflicts[p] :
           Namespace[Source(w.conflicts[p][c])] = Namespace[Latest(v, p).source]
    BY <1>6, NamespaceOfPath
  <1>9. FiledConflicts(v, w, p)
    BY <1>3, <1>4, <1>5, <1>7, <1>8 DEF FiledConflicts
  <1> QED BY <1>9, NewConflictsInv DEF w

\* Clearing the conflicts of a path keeps every promise.
LEMMA ClearedInv ==
    ASSUME NEW v, ViewInv(v), NEW p \in Paths, NEW n \in Nodes
    PROVE  LET w == ClearConflicts(v, p, n)
           IN  /\ ViewInv(w)
               /\ ~InConflict(w, p)
               /\ w.history = v.history
  <1> DEFINE w == ClearConflicts(v, p, n)
  <1>1. /\ v \in Views /\ IsFiniteSet(DOMAIN v.conflicts[p])
        /\ v.conflicts \in [Paths -> PartialMaps(Versions, Nodes)]
    BY DEF ViewInv, Views
  <1>2. /\ w \in Views
        /\ Len(w.blocks) >= Len(v.blocks)
        /\ \A i \in 1 .. Len(v.blocks) : w.blocks[i] = v.blocks[i]
        /\ w.files = v.files /\ w.history = v.history
        /\ w.conflicts = [v.conflicts EXCEPT ![p] = NoKeys]
    BY <1>1, ClearConflictsIs
  <1> HIDE DEF w
  <1>3. /\ DOMAIN w.conflicts[p] = {}
        /\ \A q \in Paths \ {p} : w.conflicts[q] = v.conflicts[q]
    BY <1>1, <1>2 DEF NoKeys
  <1>4. FiledConflicts(v, w, p)
    BY <1>2, <1>3, FS_EmptySet DEF FiledConflicts
  <1>5. ViewInv(w)
    BY <1>4, NewConflictsInv
  <1> QED BY <1>2, <1>3, <1>5 DEF w, InConflict

\* An addition keeps every promise, whether it is applied, put aside or denied.
LEMMA AdditionInv ==
    ASSUME NEW v, ViewInv(v), NEW n \in Nodes, NEW p \in Paths, NEW seen
    PROVE  ViewInv(AdditionOp(v, n, p, seen))
  <1> DEFINE outcome == AdditionOutcome(v, p, Source(n), seen)
  <1>1. CASE outcome = "conflict"
    <2>1. Conflicting(v, p, Source(n), seen) /\ (Recorded(v, p) => Owned(v, p, Source(n)))
      BY <1>1 DEF AdditionOutcome
    <2>2. Recorded(v, p)
      BY <2>1 DEF Conflicting, ViewInv, ConflictsHaveRecord
    <2>3. ViewInv(PutConflict(v, p, n))
      BY <2>1, <2>2, ConflictInv DEF Owned
    <2> QED BY <2>3, <1>1 DEF AdditionOp
  <1>2. CASE outcome = "applied"
    <2>1. ~Conflicting(v, p, Source(n), seen) /\ (Recorded(v, p) => Owned(v, p, Source(n)))
      BY <1>2 DEF AdditionOutcome
    <2>2. ViewInv(PutHistory(PutFile(v, p, n), p, "file", n))
      BY <2>1, FileRecordInv DEF Owned, Conflicting
    <2> QED BY <2>2, <1>2 DEF AdditionOp
  <1>3. CASE outcome = "denied"
    BY <1>3 DEF AdditionOp
  <1> QED BY <1>1, <1>2, <1>3 DEF AdditionOutcome

\* So does a deletion.
LEMMA DeletionInv ==
    ASSUME NEW v, ViewInv(v), NEW n \in Nodes, NEW p \in Paths, NEW seen
    PROVE  ViewInv(DeletionOp(v, n, p, seen))
  <1> DEFINE outcome == DeletionOutcome(v, p, Source(n), seen)
  <1>1. CASE outcome = "conflict"
    <2>1. Conflicting(v, p, Source(n), seen) /\ (Recorded(v, p) => Owned(v, p, Source(n)))
      BY <1>1 DEF DeletionOutcome
    <2>2. Recorded(v, p)
      BY <2>1 DEF Conflicting, ViewInv, ConflictsHaveRecord
    <2>3. ViewInv(PutConflict(v, p, n))
      BY <2>1, <2>2, ConflictInv DEF Owned
    <2> QED BY <2>3, <1>1 DEF DeletionOp
  <1>2. CASE outcome = "applied"
    <2>1. /\ ~Conflicting(v, p, Source(n), seen)
          /\ Recorded(v, p) /\ Owned(v, p, Source(n))
      BY <1>2 DEF DeletionOutcome
    <2>2. ViewInv(PutHistory(DelFile(v, p, n), p, "tombstone", n))
      BY <2>1, TombstoneRecordInv DEF Owned, Conflicting
    <2> QED BY <2>2, <1>2 DEF DeletionOp
  <1>3. CASE outcome \in {"not_found", "denied", "ignored"}
    BY <1>3 DEF DeletionOp
  <1> QED BY <1>1, <1>2, <1>3 DEF DeletionOutcome

\* So does a resolution, though it peeks at the oldest record only.
LEMMA ResolutionInv ==
    ASSUME NEW v, ViewInv(v), NEW n \in Nodes, NEW p \in Paths, NEW file
    PROVE  ViewInv(ResolutionOp(v, n, p, file))
  <1> DEFINE u == ClearConflicts(v, p, n)
  <1>1. CASE ResolutionOutcome(v, p, Source(n)) # "applied"
    BY <1>1 DEF ResolutionOp
  <1>2. CASE ResolutionOutcome(v, p, Source(n)) = "applied"
    <2>1. Recorded(v, p) /\ Namespace[Source(n)] = Namespace[Oldest(v, p).source]
      BY <1>2 DEF ResolutionOutcome
    <2>2. ViewInv(u) /\ ~InConflict(u, p) /\ u.history = v.history
      BY ClearedInv
    <2>3. Recorded(u, p) /\ Latest(u, p) = Latest(v, p)
      BY <2>1, <2>2 DEF Recorded, Latest
    <2>4. Namespace[Source(n)] = Namespace[Latest(u, p).source]
      BY <2>1, <2>3, NamespaceOfPath
    <2> HIDE DEF u
    <2>5. ViewInv(PutHistory(PutFile(u, p, n), p, "file", n))
      BY <2>2, <2>4, FileRecordInv
    <2>6. ViewInv(PutHistory(DelFile(u, p, n), p, "tombstone", n))
      BY <2>2, <2>3, <2>4, TombstoneRecordInv
    <2> QED BY <2>5, <2>6, <1>2 DEF ResolutionOp, u
  <1> QED BY <1>1, <1>2

\* A change of the writers does not touch the files.
LEMMA WriterInv ==
    ASSUME NEW v, ViewInv(v), NEW key \in Drives, NEW removed
    PROVE  ViewInv(WriterOp(v, key, removed))
  <1> DEFINE w == WriterOp(v, key, removed)
  <1>1. v \in Views
    BY DEF ViewInv
  <1>2. /\ w \in Views
        /\ w.blocks = v.blocks /\ w.files = v.files
        /\ w.history = v.history /\ w.conflicts = v.conflicts
    BY <1>1 DEF WriterOp, Views
  <1> HIDE DEF w
  <1>3. HistoryBelow(w) /\ FilesMatchHistory(w) /\ HistoryResolves(w)
    BY <1>2 DEF ViewInv, HistoryBelow, FilesMatchHistory, HistoryResolves, Recorded, Latest
  <1>4. ConflictsHaveRecord(w) /\ OneNamespace(w)
    BY <1>2 DEF ViewInv, ConflictsHaveRecord, OneNamespace, InConflict, Recorded
  <1> QED BY <1>2, <1>3, <1>4 DEF ViewInv, w

\* Every turn of the loop of _baseApply takes a view that keeps its promises
\* to one that does, whatever the operation, its writer and the heads it saw.
THEOREM ApplyInv ==
    ASSUME NEW v, ViewInv(v), NEW n \in Nodes, NEW op \in Ops, NEW seen
    PROVE  ViewInv(Apply(v, n, op, seen))
  <1>1. CASE op \in FileOps
    <2>1. op.path \in Paths /\ op.type \in {"addition", "deletion", "resolution"}
      BY <1>1 DEF FileOps
    <2> QED BY <2>1, AdditionInv, DeletionInv, ResolutionInv DEF Apply
  <1>2. CASE op \in WriterOps
    <2>1. op.type = "writer" /\ op.key \in Drives
      BY <1>2 DEF WriterOps
    <2> QED BY <2>1, WriterInv DEF Apply
  <1> QED BY <1>1, <1>2 DEF Ops

-----------------------------------------------------------------------------
(***************************************************************************)
(* What a path in conflict allows.                                         *)
(***************************************************************************)
\* A record only goes into the history of its path, and no conflict changes.
LEMMA RecordsElsewhere ==
    ASSUME NEW v \in Views, NEW q \in Paths, NEW n \in Nodes, NEW t, NEW p \in Paths
    PROVE  /\ p # q => PutHistory(v, q, t, n).history[p] = v.history[p]
           /\ PutHistory(v, q, t, n).conflicts = v.conflicts
  <1>1. v.history \in [Paths -> PartialMaps(Versions, Records)]
    BY DEF Views
  <1>2. /\ PutHistory(v, q, t, n).history =
              [v.history EXCEPT ![q] = With(v.history[q], Version(v) - 1,
                                            [type |-> t, source |-> Source(n)])]
        /\ PutHistory(v, q, t, n).conflicts = v.conflicts
    BY DEF PutHistory, Views
  <1> QED BY <1>1, <1>2

\* An addition or a deletion leaves the history of a path in conflict alone,
\* and the history of every other path too.
LEMMA WritesRespectConflicts ==
    ASSUME NEW v, ViewInv(v), NEW n \in Nodes, NEW q \in Paths, NEW seen,
           NEW p \in Paths, InConflict(v, p)
    PROVE  /\ AdditionOp(v, n, q, seen).history[p] = v.history[p]
           /\ DeletionOp(v, n, q, seen).history[p] = v.history[p]
  <1>1. /\ v \in Views /\ v.blocks \in Seq(Blocks) /\ Len(v.blocks) \in Nat
        /\ v.history \in [Paths -> PartialMaps(Versions, Records)]
    BY ViewParts DEF Views
  <1>2. PutConflict(v, q, n).history = v.history
    BY <1>1, PutConflictIs
  <1>3. CASE q = p
    <2>1. /\ AdditionOutcome(v, p, Source(n), seen) # "applied"
          /\ DeletionOutcome(v, p, Source(n), seen) # "applied"
      BY DEF AdditionOutcome, DeletionOutcome, Conflicting
    <2> QED BY <2>1, <1>2, <1>3 DEF AdditionOp, DeletionOp
  <1>4. CASE q # p
    <2>1. PutHistory(PutFile(v, q, n), q, "file", n).history[p] = v.history[p]
      <3>1. PutFile(v, q, n) \in Views /\ PutFile(v, q, n).history = v.history
        BY <1>1, PutFileIs
      <3> QED BY <1>4, <3>1, RecordsElsewhere
    <2>2. PutHistory(DelFile(v, q, n), q, "tombstone", n).history[p] = v.history[p]
      BY <1>1, <1>4, DelFileIs, RecordsElsewhere
    <2>3. AdditionOp(v, n, q, seen).history[p] = v.history[p]
      BY <1>2, <2>1 DEF AdditionOp
    <2>4. DeletionOp(v, n, q, seen).history[p] = v.history[p]
      BY <1>2, <2>2 DEF DeletionOp
    <2> QED BY <2>3, <2>4
  <1> QED BY <1>3, <1>4

\* A resolution changes the history of its own path only, and leaves that path
\* without conflicts.
LEMMA ResolutionsClear ==
    ASSUME NEW v, ViewInv(v), NEW n \in Nodes, NEW q \in Paths, NEW file,
           NEW p \in Paths, ResolutionOp(v, n, q, file).history[p] # v.history[p]
    PROVE  q = p /\ ~InConflict(ResolutionOp(v, n, q, file), p)
  <1> DEFINE u == ClearConflicts(v, q, n)
             f == PutFile(u, q, n)
             d == DelFile(u, q, n)
             wf == PutHistory(f, q, "file", n)
             wd == PutHistory(d, q, "tombstone", n)
  <1>1. ResolutionOutcome(v, q, Source(n)) = "applied"
    BY DEF ResolutionOp
  <1>2. ResolutionOp(v, n, q, file) = wf \/ ResolutionOp(v, n, q, file) = wd
    BY <1>1 DEF ResolutionOp
  <1>3. ViewInv(u) /\ ~InConflict(u, q) /\ u.history = v.history /\ u \in Views
    BY ClearedInv DEF ViewInv
  <1> HIDE DEF u
  <1>4. f \in Views /\ f.history = u.history /\ f.conflicts = u.conflicts
    BY <1>3, PutFileIs
  <1>5. d \in Views /\ d.history = u.history /\ d.conflicts = u.conflicts
    BY <1>3, DelFileIs
  <1> HIDE DEF f, d
  <1>6. /\ wf.conflicts = u.conflicts /\ wd.conflicts = u.conflicts
        /\ q # p => wf.history[p] = v.history[p] /\ wd.history[p] = v.history[p]
    BY <1>3, <1>4, <1>5, RecordsElsewhere
  <1>7. ~InConflict(wf, q) /\ ~InConflict(wd, q)
    BY <1>3, <1>6 DEF InConflict
  <1> HIDE DEF wf, wd
  <1> QED BY <1>2, <1>6, <1>7

\* In a view that keeps its promises only a resolution changes the history of a
\* path in conflict, and it leaves none.
THEOREM ConflictFreezes ==
    ASSUME NEW v, ViewInv(v), NEW n \in Nodes, NEW op \in Ops, NEW seen,
           NEW p \in Paths, InConflict(v, p),
           Apply(v, n, op, seen).history[p] # v.history[p]
    PROVE  op.type = "resolution" /\ op.path = p /\ ~InConflict(Apply(v, n, op, seen), p)
  <1>1. CASE op \in FileOps
    <2>1. op.path \in Paths /\ op.type \in {"addition", "deletion", "resolution"}
      BY <1>1 DEF FileOps
    <2>2. op.type # "addition" /\ op.type # "deletion"
      BY <2>1, WritesRespectConflicts DEF Apply
    <2>3. op.type = "resolution"
      BY <2>1, <2>2
    <2>4. Apply(v, n, op, seen) = ResolutionOp(v, n, op.path, op.file)
      BY <2>3 DEF Apply
    <2> QED BY <2>1, <2>3, <2>4, ResolutionsClear
  <1>2. CASE op \in WriterOps
    <2>1. op.type = "writer"
      BY <1>2 DEF WriterOps
    <2>2. Apply(v, n, op, seen) = WriterOp(v, op.key, op.removed)
      BY <2>1 DEF Apply
    <2>3. v \in Views
      BY DEF ViewInv
    <2>4. WriterOp(v, op.key, op.removed).history = v.history
      BY <2>3 DEF WriterOp, Views
    <2> QED BY <2>2, <2>4
  <1> QED BY <1>1, <1>2 DEF Ops

-----------------------------------------------------------------------------
(***************************************************************************)
(* What a write leaves: the blocks only grow, and a record is filed with   *)
(* its entry.                                                              *)
(***************************************************************************)
\* The blocks of v are the first blocks of w.
Grows(v, w) ==
    /\ Len(v.blocks) <= Len(w.blocks)
    /\ \A i \in 1 .. Len(v.blocks) : w.blocks[i] = v.blocks[i]

\* Whatever a view is extended to is extended further.
LEMMA GrowsTwice ==
    ASSUME NEW u \in Views, NEW v \in Views, NEW w \in Views, Grows(u, v), Grows(v, w)
    PROVE  Grows(u, w)
  <1>1. Len(u.blocks) \in Nat /\ Len(v.blocks) \in Nat /\ Len(w.blocks) \in Nat
    BY LenProperties DEF Views
  <1> QED BY <1>1 DEF Grows

\* A file that is accepted: its entry, the record of it, and a block each.
LEMMA FileFiled ==
    ASSUME NEW v \in Views, NEW p \in Paths, NEW n \in Nodes
    PROVE  LET w == PutHistory(PutFile(v, p, n), p, "file", n)
               L == Len(v.blocks) + 1
           IN  /\ w \in Views /\ Grows(v, w) /\ L \in Versions
               /\ Len(w.blocks) = L + 1
               /\ w.blocks[L] = Block("file", p, n)
               /\ w.blocks[L + 1] = Block("history", p, n)
               /\ w.files = With(v.files, p, [seq |-> L, node |-> n])
               /\ w.history = [v.history EXCEPT ![p] =
                                  With(@, L, [type |-> "file", source |-> Source(n)])]
               /\ w.conflicts = v.conflicts
  <1> DEFINE u == PutFile(v, p, n)
             w == PutHistory(u, p, "file", n)
             L == Len(v.blocks) + 1
             f == Block("file", p, n)
             h == Block("history", p, n)
  <1>1. v.blocks \in Seq(Blocks) /\ Len(v.blocks) \in Nat
    BY LenProperties DEF Views
  <1>2. /\ u \in Views
        /\ u.blocks = Append(v.blocks, f)
        /\ u.files = With(v.files, p, [seq |-> L, node |-> n])
        /\ u.history = v.history /\ u.conflicts = v.conflicts
    BY PutFileIs
  <1>3. f \in Blocks /\ h \in Blocks
    BY BlockTypes
  <1> HIDE DEF u, f, h
  <1>4. Len(u.blocks) = L /\ u.blocks \in Seq(Blocks)
    BY <1>1, <1>2, <1>3
  <1>5. /\ w \in Views
        /\ w.blocks = Append(u.blocks, h)
        /\ w.files = u.files
        /\ w.history = [u.history EXCEPT ![p] =
              With(u.history[p], Len(u.blocks), [type |-> "file", source |-> Source(n)])]
        /\ w.conflicts = u.conflicts
        /\ Len(u.blocks) \in Versions
    <2>1. Len(u.blocks) > 0
      BY <1>1, <1>4
    <2>2. "file" \in {"file", "tombstone"}
      OBVIOUS
    <2>3. /\ w \in Views
          /\ w.blocks = Append(u.blocks, Block("history", p, n))
          /\ w.files = u.files
          /\ w.history = [u.history EXCEPT ![p] = With(u.history[p], Len(u.blocks),
                                                [type |-> "file", source |-> Source(n)])]
          /\ w.conflicts = u.conflicts
          /\ Len(u.blocks) \in Versions
          /\ [type |-> "file", source |-> Source(n)] \in Records
      BY <1>2, <2>1, <2>2, PutHistoryIs
    <2> QED BY <2>3 DEF h
  <1> HIDE DEF w
  <1>6. Len(w.blocks) = L + 1 /\ w.blocks[L + 1] = h
    BY <1>3, <1>4, <1>5
  <1>7. w.blocks[L] = f /\ \A i \in 1 .. Len(v.blocks) : w.blocks[i] = v.blocks[i]
    BY <1>1, <1>2, <1>3, <1>4, <1>5
  <1>8. Grows(v, w)
    BY <1>1, <1>6, <1>7 DEF Grows
  <1> QED BY <1>2, <1>4, <1>5, <1>6, <1>7, <1>8 DEF w, u, f, h

\* A deletion that is accepted: the entry goes, with a block if there was one,
\* and the record of it is filed under the block before its own.
LEMMA TombstoneFiled ==
    ASSUME NEW v \in Views, NEW p \in Paths, NEW n \in Nodes, Len(v.blocks) > 0
    PROVE  LET w == PutHistory(DelFile(v, p, n), p, "tombstone", n)
               L == IF p \in DOMAIN v.files THEN Len(v.blocks) + 1 ELSE Len(v.blocks)
           IN  /\ w \in Views /\ Grows(v, w) /\ L \in Versions
               /\ Len(w.blocks) = L + 1
               /\ p \in DOMAIN v.files => w.blocks[L] = Block("del", p, n)
               /\ w.blocks[L + 1] = Block("history", p, n)
               /\ DOMAIN w.files = DOMAIN v.files \ {p}
               /\ \A q \in DOMAIN w.files : w.files[q] = v.files[q]
               /\ w.history = [v.history EXCEPT ![p] =
                                  With(@, L, [type |-> "tombstone", source |-> Source(n)])]
               /\ w.conflicts = v.conflicts
  <1> DEFINE u == DelFile(v, p, n)
             w == PutHistory(u, p, "tombstone", n)
             L == IF p \in DOMAIN v.files THEN Len(v.blocks) + 1 ELSE Len(v.blocks)
             d == Block("del", p, n)
             h == Block("history", p, n)
  <1>1. v.blocks \in Seq(Blocks) /\ Len(v.blocks) \in Nat
    BY LenProperties DEF Views
  <1>2. /\ u \in Views
        /\ DOMAIN u.files = DOMAIN v.files \ {p}
        /\ \A q \in DOMAIN v.files : q # p => u.files[q] = v.files[q]
        /\ u.history = v.history /\ u.conflicts = v.conflicts
    BY DelFileIs
  <1>3. u.blocks = IF p \in DOMAIN v.files THEN Append(v.blocks, d) ELSE v.blocks
    BY DEF DelFile, Views
  <1>4. d \in Blocks /\ h \in Blocks
    BY BlockTypes
  <1> HIDE DEF u, d, h
  <1>5. Len(u.blocks) = L /\ u.blocks \in Seq(Blocks)
    BY <1>1, <1>3, <1>4
  <1>6. /\ w \in Views
        /\ w.blocks = Append(u.blocks, h)
        /\ w.files = u.files
        /\ w.history = [u.history EXCEPT ![p] =
              With(u.history[p], Len(u.blocks), [type |-> "tombstone", source |-> Source(n)])]
        /\ w.conflicts = u.conflicts
        /\ Len(u.blocks) \in Versions
    <2>1. Len(u.blocks) > 0
      BY <1>1, <1>5
    <2>2. "tombstone" \in {"file", "tombstone"}
      OBVIOUS
    <2>3. /\ w \in Views
          /\ w.blocks = Append(u.blocks, Block("history", p, n))
          /\ w.files = u.files
          /\ w.history = [u.history EXCEPT ![p] = With(u.history[p], Len(u.blocks),
                                                [type |-> "tombstone", source |-> Source(n)])]
          /\ w.conflicts = u.conflicts
          /\ Len(u.blocks) \in Versions
          /\ [type |-> "tombstone", source |-> Source(n)] \in Records
      BY <1>2, <2>1, <2>2, PutHistoryIs
    <2> QED BY <2>3 DEF h
  <1> HIDE DEF w
  <1>7. Len(w.blocks) = L + 1 /\ w.blocks[L + 1] = h
    BY <1>4, <1>5, <1>6
  <1>8. /\ p \in DOMAIN v.files => w.blocks[L] = d
        /\ \A i \in 1 .. Len(v.blocks) : w.blocks[i] = v.blocks[i]
    BY <1>1, <1>3, <1>4, <1>5, <1>6
  <1>9. Grows(v, w)
    BY <1>1, <1>7, <1>8 DEF Grows
  <1>10. \A q \in DOMAIN w.files : w.files[q] = v.files[q]
    BY <1>2, <1>6
  <1> HIDE DEF L
  <1>11. /\ w.history = [v.history EXCEPT ![p] =
                                  With(@, L, [type |-> "tombstone", source |-> Source(n)])]
         /\ w.conflicts = v.conflicts /\ L \in Versions
         /\ DOMAIN w.files = DOMAIN v.files \ {p}
    BY <1>2, <1>5, <1>6
  <1> QED BY <1>6, <1>7, <1>8, <1>9, <1>10, <1>11 DEF w, u, d, h, L

-----------------------------------------------------------------------------
(***************************************************************************)
(* The order of versions.                                                  *)
(***************************************************************************)
NumbersBelow(S, k) == {j \in S : j < k}

\* The elements of a finite set of numbers are told apart by how many others
\* are below them, and every number below the size of the set is reached.
LEMMA Ranks ==
    ASSUME NEW S \in SUBSET Nat, IsFiniteSet(S)
    PROVE  /\ Cardinality(S) \in Nat
           /\ \A k \in S : /\ IsFiniteSet(NumbersBelow(S, k))
                           /\ Cardinality(NumbersBelow(S, k)) \in 0 .. Cardinality(S) - 1
           /\ \A j, k \in S :
                 j < k => Cardinality(NumbersBelow(S, j)) < Cardinality(NumbersBelow(S, k))
           /\ \A i \in 0 .. Cardinality(S) - 1 :
                 \E k \in S : Cardinality(NumbersBelow(S, k)) = i
  <1> DEFINE N == Cardinality(S)
             T == 0 .. N - 1
             rank == [k \in S |-> Cardinality(NumbersBelow(S, k))]
  <1>1. N \in Nat
    BY FS_CardinalityType
  <1>2. ASSUME NEW k \in S
        PROVE  /\ IsFiniteSet(NumbersBelow(S, k))
               /\ Cardinality(NumbersBelow(S, k)) \in T
    <2>1. NumbersBelow(S, k) \in SUBSET S /\ NumbersBelow(S, k) # S
      BY DEF NumbersBelow
    <2>2. /\ IsFiniteSet(NumbersBelow(S, k))
          /\ Cardinality(NumbersBelow(S, k)) <= N
          /\ Cardinality(NumbersBelow(S, k)) # N
      BY <2>1, FS_Subset
    <2>3. Cardinality(NumbersBelow(S, k)) \in Nat
      BY <2>2, FS_CardinalityType
    <2> QED BY <1>1, <2>2, <2>3
  <1>3. ASSUME NEW j \in S, NEW k \in S, j < k
        PROVE  Cardinality(NumbersBelow(S, j)) < Cardinality(NumbersBelow(S, k))
    <2>1. NumbersBelow(S, j) \in SUBSET NumbersBelow(S, k)
      <3>1. \A i \in S : i \in Nat
        OBVIOUS
      <3>2. \A i \in S : i < j => i < k
        BY <1>3, <3>1
      <3> QED BY <3>2 DEF NumbersBelow
    <2>2. NumbersBelow(S, j) # NumbersBelow(S, k)
      <3>1. j \in NumbersBelow(S, k) /\ j \notin NumbersBelow(S, j)
        BY <1>3 DEF NumbersBelow
      <3> QED BY <3>1
    <2>3. /\ Cardinality(NumbersBelow(S, j)) <= Cardinality(NumbersBelow(S, k))
          /\ Cardinality(NumbersBelow(S, j)) # Cardinality(NumbersBelow(S, k))
      BY <1>2, <2>1, <2>2, FS_Subset
    <2> QED BY <1>2, <2>3
  <1>4. rank \in Injection(S, T)
    <2>1. rank \in [S -> T]
      BY <1>2
    <2>2. ASSUME NEW j \in S, NEW k \in S, j # k PROVE rank[j] # rank[k]
      <3>1. j < k \/ k < j
        BY <2>2
      <3>2. rank[j] < rank[k] \/ rank[k] < rank[j]
        BY <1>3, <3>1
      <3>3. rank[j] \in T /\ rank[k] \in T
        BY <1>2
      <3> QED BY <3>2, <3>3, <1>1
    <2> QED BY <2>1, <2>2 DEF Injection, IsInjective
  <1>5. IsFiniteSet(T) /\ Cardinality(T) = N
    <2>1. 0 \in Int /\ N - 1 \in Int
      BY <1>1
    <2>2. IsFiniteSet(T) /\ Cardinality(T) = IF 0 > N - 1 THEN 0 ELSE N - 1 - 0 + 1
      BY <2>1, FS_Interval
    <2> QED BY <1>1, <2>2
  <1>6. rank \in Surjection(S, T)
    BY <1>4, <1>5, FS_Injection
  <1>7. \A i \in T : \E k \in S : rank[k] = i
    BY <1>6 DEF Surjection
  <1> QED BY <1>1, <1>2, <1>3, <1>7

\* The records of a path are finitely many.
LEMMA HistoryFinite ==
    ASSUME NEW v, ViewInv(v), NEW p \in Paths
    PROVE  IsFiniteSet(DOMAIN v.history[p]) /\ DOMAIN v.history[p] \in SUBSET Nat
  <1>1. DOMAIN v.history[p] \in SUBSET (1 .. Len(v.blocks)) /\ Len(v.blocks) \in Nat
    BY ViewParts
  <1>2. IsFiniteSet(1 .. Len(v.blocks))
    BY <1>1, FS_Interval
  <1> QED BY <1>1, <1>2, FS_Subset
=============================================================================
