-------------------------- MODULE RefinementProofs --------------------------
(***************************************************************************)
(* Autodrive implements SharedFiles, for any number of drives, paths,      *)
(* calls and batch sessions, any namespaces and any bounds.                *)
(*                                                                         *)
(* The argument: a write files its record under a number above all others, *)
(* so it stands behind the versions there are, and a block once written    *)
(* stands for the same file ever after; apply() then does to a path what   *)
(* SharedFiles lets become of it.  No order holds a node twice, so no      *)
(* request is taken up twice, and a replica that undoes keeps a first part *)
(* of its line.                                                            *)
(***************************************************************************)
EXTENDS AutodriveRefines, DeletionProofs

-----------------------------------------------------------------------------
(***************************************************************************)
(* The versions of a path in their order.                                  *)
(***************************************************************************)
\* How many versions a path has.
VersionCount(h) == Cardinality(DOMAIN h)

\* A history numbers its records from 1, each once.
LEMMA KeyAtIs ==
    ASSUME NEW h, DOMAIN h \in SUBSET Nat, IsFiniteSet(DOMAIN h)
    PROVE  /\ VersionCount(h) \in Nat
           /\ \A i \in 1 .. VersionCount(h) :
                 KeyAt(h, i) \in DOMAIN h /\ Cardinality(KeysBelow(h, KeyAt(h, i))) = i - 1
           /\ \A k \in DOMAIN h : \A i \in 1 .. VersionCount(h) :
                 Cardinality(KeysBelow(h, k)) = i - 1 => KeyAt(h, i) = k
           /\ \A k \in DOMAIN h : \E i \in 1 .. VersionCount(h) : KeyAt(h, i) = k
  <1> DEFINE S == DOMAIN h
             N == Cardinality(S)
  <1>1. /\ N \in Nat
        /\ \A k \in S : Cardinality(NumbersBelow(S, k)) \in 0 .. N - 1
        /\ \A j, k \in S : j < k => Cardinality(NumbersBelow(S, j)) < Cardinality(NumbersBelow(S, k))
        /\ \A i \in 0 .. N - 1 : \E k \in S : Cardinality(NumbersBelow(S, k)) = i
    BY Ranks
  <1>2. \A k \in S : KeysBelow(h, k) = NumbersBelow(S, k)
    BY DEF KeysBelow, NumbersBelow
  <1> HIDE DEF N
  <1>3. ASSUME NEW i \in 1 .. N
        PROVE  KeyAt(h, i) \in S /\ Cardinality(KeysBelow(h, KeyAt(h, i))) = i - 1
    <2>1. i - 1 \in 0 .. N - 1
      BY <1>1
    <2>2. \E k \in S : Cardinality(KeysBelow(h, k)) = i - 1
      BY <1>1, <1>2, <2>1
    <2> QED BY <2>2 DEF KeyAt
  <1>4. ASSUME NEW k \in S, NEW i \in 1 .. N, Cardinality(KeysBelow(h, k)) = i - 1
        PROVE  KeyAt(h, i) = k
    <2> DEFINE j == KeyAt(h, i)
    <2>1. j \in S /\ Cardinality(KeysBelow(h, j)) = i - 1
      BY <1>3
    <2> HIDE DEF j
    <2>2. Cardinality(NumbersBelow(S, j)) = i - 1 /\ Cardinality(NumbersBelow(S, k)) = i - 1
      BY <1>2, <1>4, <2>1
    <2>3. ~(j < k) /\ ~(k < j)
      BY <1>1, <2>1, <2>2
    <2>4. j \in Nat /\ k \in Nat
      BY <2>1
    <2> QED BY <2>3, <2>4 DEF j
  <1>5. ASSUME NEW k \in S PROVE \E i \in 1 .. N : KeyAt(h, i) = k
    <2>1. Cardinality(KeysBelow(h, k)) \in 0 .. N - 1
      BY <1>1, <1>2
    <2>2. PICK i \in 1 .. N : Cardinality(KeysBelow(h, k)) = i - 1
      <3> DEFINE i == Cardinality(KeysBelow(h, k)) + 1
      <3>1. i \in 1 .. N
        BY <1>1, <2>1
      <3>2. Cardinality(KeysBelow(h, k)) = i - 1
        BY <2>1
      <3> HIDE DEF i
      <3> QED BY <3>1, <3>2
    <2> QED BY <1>4, <2>2
  <1> QED BY <1>1, <1>3, <1>4, <1>5 DEF N, VersionCount

\* The latest record is the last version.
LEMMA LastKeyIs ==
    ASSUME NEW h, DOMAIN h \in SUBSET Nat, IsFiniteSet(DOMAIN h), HasEnds(h), DOMAIN h # {}
    PROVE  /\ VersionCount(h) \in Nat \ {0}
           /\ KeyAt(h, VersionCount(h)) = LatestKey(h)
  <1> DEFINE k == LatestKey(h)
             N == VersionCount(h)
  <1>1. k \in DOMAIN h /\ \A j \in DOMAIN h : j <= k
    BY LatestKeyIs
  <1> HIDE DEF k
  <1>2. KeysBelow(h, k) = DOMAIN h \ {k}
    <2>1. \A j \in DOMAIN h : j \in Nat
      OBVIOUS
    <2>2. \A j \in DOMAIN h : j < k <=> j # k
      BY <1>1, <2>1
    <2> QED BY <2>2 DEF KeysBelow
  <1>3. Cardinality(KeysBelow(h, k)) = N - 1 /\ N \in Nat
    BY <1>1, <1>2, FS_RemoveElement, FS_CardinalityType DEF VersionCount
  <1>4. N # 0
    BY <1>1, FS_EmptySet DEF VersionCount
  <1> HIDE DEF N
  <1>5. N \in 1 .. N
    BY <1>3, <1>4
  <1>6. KeyAt(h, N) = k
    BY <1>1, <1>3, <1>5, KeyAtIs DEF N
  <1> QED BY <1>3, <1>4, <1>6 DEF k, N

\* A record filed above all others comes last, and moves none of them.
LEMMA NewKeyIsLast ==
    ASSUME NEW h, NEW g, DOMAIN h \in SUBSET Nat, IsFiniteSet(DOMAIN h), NEW L \in Nat,
           \A j \in DOMAIN h : j < L, DOMAIN g = DOMAIN h \cup {L}
    PROVE  /\ VersionCount(g) = VersionCount(h) + 1
           /\ \A i \in 1 .. VersionCount(h) : KeyAt(g, i) = KeyAt(h, i)
           /\ KeyAt(g, VersionCount(h) + 1) = L
  <1> DEFINE N == VersionCount(h)
  <1>1. L \notin DOMAIN h
    <2>1. \A j \in DOMAIN h : j \in Nat /\ j < L
      OBVIOUS
    <2> QED BY <2>1
  <1>2. IsFiniteSet(DOMAIN g) /\ VersionCount(g) = N + 1 /\ DOMAIN g \in SUBSET Nat
    BY <1>1, FS_AddElement DEF VersionCount
  <1>3. /\ N \in Nat
        /\ \A i \in 1 .. N :
              KeyAt(h, i) \in DOMAIN h /\ Cardinality(KeysBelow(h, KeyAt(h, i))) = i - 1
    BY KeyAtIs
  <1>4. \A k \in DOMAIN g : \A i \in 1 .. N + 1 :
           Cardinality(KeysBelow(g, k)) = i - 1 => KeyAt(g, i) = k
    BY <1>2, KeyAtIs
  <1>5. ASSUME NEW k \in DOMAIN h PROVE KeysBelow(g, k) = KeysBelow(h, k)
    <2>1. k \in Nat /\ k < L
      OBVIOUS
    <2>2. ~(L < k)
      BY <2>1
    <2> QED BY <2>2 DEF KeysBelow
  <1>6. KeysBelow(g, L) = DOMAIN h
    <2>1. ~(L < L)
      OBVIOUS
    <2> QED BY <2>1 DEF KeysBelow
  <1>7. Cardinality(DOMAIN h) = N
    BY DEF VersionCount
  <1> HIDE DEF N
  <1>8. ASSUME NEW i \in 1 .. N PROVE KeyAt(g, i) = KeyAt(h, i)
    <2>1. i \in 1 .. N + 1 /\ KeyAt(h, i) \in DOMAIN g
      BY <1>3
    <2>2. Cardinality(KeysBelow(g, KeyAt(h, i))) = i - 1
      BY <1>3, <1>5
    <2> QED BY <1>4, <2>1, <2>2
  <1>9. KeyAt(g, N + 1) = L
    <2> DEFINE M == N + 1
    <2>1. M \in 1 .. M /\ M - 1 = N
      BY <1>3
    <2>2. \A k \in DOMAIN g : \A i \in 1 .. M :
             Cardinality(KeysBelow(g, k)) = i - 1 => KeyAt(g, i) = k
      BY <1>4
    <2> HIDE DEF M
    <2>3. Cardinality(KeysBelow(g, L)) = M - 1 /\ L \in DOMAIN g
      BY <1>6, <1>7, <2>1
    <2>4. KeyAt(g, M) = L
      BY <2>1, <2>2, <2>3
    <2> QED BY <2>4 DEF M
  <1> QED BY <1>2, <1>8, <1>9 DEF N

-----------------------------------------------------------------------------
(***************************************************************************)
(* What a view stands for.                                                 *)
(***************************************************************************)
FileOf(v, p) == IF p \in DOMAIN v.files THEN v.files[p].node ELSE Nobody

VersionsOf(v, p) ==
    [i \in 1 .. VersionCount(v.history[p]) |-> VersionAt(v, p, KeyAt(v.history[p], i))]

RivalsOf(v, p) == {v.conflicts[p][k] : k \in DOMAIN v.conflicts[p]}

VersionRecords == [author : Drives, file : Nodes \cup {Nobody}]

\* Every path has a file, a sequence of versions and rivals.
LEMMA FileSystemIs ==
    ASSUME NEW v
    PROVE  /\ FileSystem(v) = [p \in Paths |-> [file     |-> FileOf(v, p),
                                                versions |-> VersionsOf(v, p),
                                                rivals   |-> RivalsOf(v, p)]]
  BY DEF FileSystem, FileOf, VersionsOf, RivalsOf, VersionCount

\* The versions are as many as the records, the last one being the latest, and
\* each has the author its record names.
LEMMA VersionsAre ==
    ASSUME NEW v, ViewInv(v), NEW p \in Paths
    PROVE  LET h == v.history[p]
               s == VersionsOf(v, p)
           IN  /\ s \in Seq(VersionRecords) /\ Len(s) = VersionCount(h) /\ Len(s) \in Nat
               /\ DOMAIN s = 1 .. VersionCount(h)
               /\ \A i \in 1 .. VersionCount(h) :
                     s[i] = VersionAt(v, p, KeyAt(h, i)) /\ KeyAt(h, i) \in DOMAIN h
               /\ \A k \in DOMAIN h : \E i \in 1 .. VersionCount(h) : s[i] = VersionAt(v, p, k)
               /\ Recorded(v, p) <=> s # << >>
               /\ Recorded(v, p) => s[Len(s)] = VersionAt(v, p, LatestKey(h))
  <1> DEFINE h == v.history[p]
             s == VersionsOf(v, p)
             N == VersionCount(h)
  <1>1. /\ HasEnds(h) /\ IsFiniteSet(DOMAIN h) /\ DOMAIN h \in SUBSET Nat
        /\ \A k \in DOMAIN h : h[k] \in Records /\ k \in 1 .. Len(v.blocks)
        /\ v.blocks \in Seq(Blocks)
    BY HistoryFinite, ViewParts DEF ViewInv
  <1>2. ASSUME NEW k \in DOMAIN h PROVE VersionAt(v, p, k) \in VersionRecords
    <2>1. h[k].source \in Drives
      BY <1>1 DEF Records
    <2>2. v.blocks[k] \in Blocks
      BY <1>1, LenProperties
    <2>3. v.blocks[k].node \in Nodes
      BY <2>2 DEF Blocks
    <2> QED BY <2>1, <2>3 DEF VersionAt, VersionRecords
  <1>3. /\ N \in Nat
        /\ \A i \in 1 .. N : KeyAt(h, i) \in DOMAIN h
        /\ \A k \in DOMAIN h : \E i \in 1 .. N : KeyAt(h, i) = k
    BY <1>1, KeyAtIs
  <1>4. s = [i \in 1 .. N |-> VersionAt(v, p, KeyAt(h, i))]
    BY DEF VersionsOf
  <1>5. DOMAIN h # {} => N # 0 /\ KeyAt(h, N) = LatestKey(h)
    BY <1>1, LastKeyIs
  <1>6. N # 0 => DOMAIN h # {}
    BY FS_EmptySet DEF VersionCount
  <1>0. Recorded(v, p) <=> DOMAIN h # {}
    BY DEF Recorded
  <1> HIDE DEF h, s, N
  <1>7. s \in [1 .. N -> VersionRecords]
    BY <1>2, <1>3, <1>4
  <1>8. s \in Seq(VersionRecords) /\ DOMAIN s = 1 .. N /\ Len(s) = N
    BY <1>3, <1>7
  <1>9. \A i \in 1 .. N : s[i] = VersionAt(v, p, KeyAt(h, i))
    BY <1>4
  <1>10. s # << >> <=> N # 0
    BY <1>3, <1>8
  <1>11. \A k \in DOMAIN h : \E i \in 1 .. N : s[i] = VersionAt(v, p, k)
    BY <1>3, <1>9
  <1>12. DOMAIN h # {} => s[Len(s)] = VersionAt(v, p, LatestKey(h))
    <2>1. \A n \in Nat : n # 0 => n \in 1 .. n
      OBVIOUS
    <2> QED BY <1>3, <1>5, <1>8, <1>9, <2>1
  <1> QED BY <1>0, <1>3, <1>5, <1>6, <1>8, <1>9, <1>10, <1>11, <1>12 DEF h, s, N

-----------------------------------------------------------------------------
(***************************************************************************)
(* What a write makes of what a view stands for.                           *)
(***************************************************************************)
\* A record that is kept stands for the version it stood for: its block does.
LEMMA VersionStays ==
    ASSUME NEW v, ViewInv(v), NEW w, Grows(v, w), NEW p \in Paths,
           NEW k \in DOMAIN v.history[p], w.history[p][k] = v.history[p][k]
    PROVE  VersionAt(w, p, k) = VersionAt(v, p, k)
  <1>1. k \in 1 .. Len(v.blocks)
    BY ViewParts
  <1>2. w.blocks[k] = v.blocks[k]
    BY <1>1 DEF Grows
  <1> QED BY <1>2 DEF VersionAt

\* A path whose history is left alone has the same versions.
LEMMA VersionsStay ==
    ASSUME NEW v, ViewInv(v), NEW w, Grows(v, w), NEW p \in Paths,
           w.history[p] = v.history[p]
    PROVE  VersionsOf(w, p) = VersionsOf(v, p)
  <1> DEFINE h == v.history[p]
             N == VersionCount(h)
  <1>1. \A i \in 1 .. N : KeyAt(h, i) \in DOMAIN h
    BY HistoryFinite, KeyAtIs
  <1>2. \A i \in 1 .. N : VersionAt(w, p, KeyAt(h, i)) = VersionAt(v, p, KeyAt(h, i))
    BY <1>1, VersionStays
  <1>3. VersionsOf(v, p) = [i \in 1 .. N |-> VersionAt(v, p, KeyAt(h, i))]
    BY DEF VersionsOf
  <1>4. VersionsOf(w, p) = [i \in 1 .. N |-> VersionAt(w, p, KeyAt(h, i))]
    BY DEF VersionsOf
  <1> HIDE DEF h, N
  <1> QED BY <1>2, <1>3, <1>4

\* A new record adds a version behind those there are.
LEMMA VersionsGrow ==
    ASSUME NEW v, ViewInv(v), NEW w, ViewInv(w), Grows(v, w), NEW p \in Paths,
           NEW L \in Versions, \A k \in DOMAIN v.history[p] : k < L,
           DOMAIN w.history[p] = DOMAIN v.history[p] \cup {L},
           \A k \in DOMAIN v.history[p] : w.history[p][k] = v.history[p][k]
    PROVE  VersionsOf(w, p) = Append(VersionsOf(v, p), VersionAt(w, p, L))
  <1> DEFINE h == v.history[p]
             g == w.history[p]
             N == VersionCount(h)
             s == VersionsOf(v, p)
             t == VersionsOf(w, p)
             x == VersionAt(w, p, L)
  <1>1. DOMAIN h \in SUBSET Nat /\ IsFiniteSet(DOMAIN h) /\ L \in Nat
    BY HistoryFinite DEF Versions
  <1>6. \A k \in DOMAIN h : VersionAt(w, p, k) = VersionAt(v, p, k)
    BY VersionStays
  <1>7. /\ VersionCount(g) = N + 1
        /\ \A i \in 1 .. N : KeyAt(g, i) = KeyAt(h, i)
        /\ KeyAt(g, N + 1) = L
    BY <1>1, NewKeyIsLast
  <1>8. /\ s \in Seq(VersionRecords) /\ Len(s) = N /\ N \in Nat
        /\ \A i \in 1 .. N : s[i] = VersionAt(v, p, KeyAt(h, i)) /\ KeyAt(h, i) \in DOMAIN h
    BY VersionsAre
  <1>9. /\ t \in Seq(VersionRecords) /\ Len(t) = VersionCount(g)
        /\ \A i \in 1 .. VersionCount(g) : t[i] = VersionAt(w, p, KeyAt(g, i))
    BY VersionsAre
  <1> HIDE DEF h, g, N, s, t
  <1>11. x = t[N + 1] /\ x \in VersionRecords
    <2>1. N + 1 \in 1 .. N + 1
      BY <1>8
    <2>2. t[N + 1] = x /\ N + 1 \in 1 .. Len(t)
      BY <1>7, <1>9, <2>1
    <2> QED BY <1>9, <2>2, LenProperties
  <1> HIDE DEF x
  <1>12. /\ Append(s, x) \in Seq(VersionRecords) /\ Len(Append(s, x)) = N + 1
         /\ \A i \in 1 .. N : Append(s, x)[i] = s[i]
         /\ Append(s, x)[N + 1] = x
    BY <1>8, <1>11, AppendProperties
  <1>13. \A i \in 1 .. N + 1 : t[i] = Append(s, x)[i]
    <2>1. ASSUME NEW i \in 1 .. N PROVE t[i] = s[i]
      <3>1. i \in 1 .. VersionCount(g)
        BY <1>7, <1>8
      <3>2. t[i] = VersionAt(w, p, KeyAt(h, i))
        BY <1>7, <1>9, <3>1
      <3> QED BY <1>6, <1>8, <3>2
    <2>2. \A i \in 1 .. N + 1 : i \in 1 .. N \/ i = N + 1
      BY <1>8
    <2> QED BY <1>11, <1>12, <2>1, <2>2
  <1>14. t = Append(s, x)
    BY <1>7, <1>9, <1>12, <1>13, SeqEqual
  <1> QED BY <1>14 DEF s, t, x

\* From v to w nothing is written but at p.
OnlyAt(v, w, p) ==
    /\ Grows(v, w)
    /\ \A q \in Paths \ {p} :
          /\ w.history[q] = v.history[q] /\ w.conflicts[q] = v.conflicts[q]
          /\ FileOf(w, q) = FileOf(v, q)

PathOf(v, p) == [file |-> FileOf(v, p), versions |-> VersionsOf(v, p), rivals |-> RivalsOf(v, p)]

\* Then what it stands for is the same elsewhere.
LEMMA OnlyThere ==
    ASSUME NEW v, ViewInv(v), NEW w, NEW p \in Paths, OnlyAt(v, w, p)
    PROVE  FileSystem(w) = [FileSystem(v) EXCEPT ![p] = PathOf(w, p)]
  <1>1. ASSUME NEW q \in Paths, q # p
        PROVE  PathOf(w, q) = PathOf(v, q)
    <2>1. VersionsOf(w, q) = VersionsOf(v, q)
      BY <1>1, VersionsStay DEF OnlyAt
    <2>2. RivalsOf(w, q) = RivalsOf(v, q) /\ FileOf(w, q) = FileOf(v, q)
      BY <1>1 DEF OnlyAt, RivalsOf
    <2> QED BY <2>1, <2>2 DEF PathOf
  <1>2. FileSystem(v) = [q \in Paths |-> PathOf(v, q)] /\ FileSystem(w) = [q \in Paths |-> PathOf(w, q)]
    BY FileSystemIs DEF PathOf
  <1> QED BY <1>1, <1>2

\* What SharedFiles asks about a path, and what it is in the view.
LEMMA PathIs ==
    ASSUME NEW v, ViewInv(v), NEW p \in Paths, NEW w \in Drives
    PROVE  LET f == PathOf(v, p)
           IN  /\ FileSystem(v)[p] = f
               /\ f.versions = << >> <=> ~Recorded(v, p)
               /\ Promised!Strange(f, w) <=> Recorded(v, p) /\ ~Owned(v, p, w)
               /\ Promised!Disputed(f) <=> InConflict(v, p)
               /\ Promised!Foreign(f, w) <=> Recorded(v, p) /\ Latest(v, p).source # w
               /\ Promised!Empty(f) <=> ~Recorded(v, p) \/ Latest(v, p).type = "tombstone"
  <1> DEFINE h == v.history[p]
             s == VersionsOf(v, p)
             f == PathOf(v, p)
             k == LatestKey(h)
  <1>1. FileSystem(v)[p] = f
    BY FileSystemIs DEF PathOf
  <1>2. f.versions = s /\ f.rivals = RivalsOf(v, p)
    BY DEF PathOf
  <1>3. /\ s \in Seq(VersionRecords) /\ DOMAIN s = 1 .. VersionCount(h)
        /\ \A i \in 1 .. VersionCount(h) :
              s[i] = VersionAt(v, p, KeyAt(h, i)) /\ KeyAt(h, i) \in DOMAIN h
        /\ \A j \in DOMAIN h : \E i \in 1 .. VersionCount(h) : s[i] = VersionAt(v, p, j)
        /\ Recorded(v, p) <=> s # << >>
        /\ Recorded(v, p) => s[Len(s)] = VersionAt(v, p, k)
    BY VersionsAre
  <1>4. \A j \in DOMAIN h : VersionAt(v, p, j).author = h[j].source
    BY DEF VersionAt
  <1>5. Recorded(v, p) => k \in DOMAIN h
    BY LatestKeyIs DEF Recorded, ViewInv
  <1>6. Latest(v, p) = h[k]
    BY DEF Latest
  <1>7. Recorded(v, p) =>
           \A j \in DOMAIN h : Namespace[h[j].source] = Namespace[h[k].source]
    BY <1>5 DEF ViewInv, OneNamespace
  <1>8. Recorded(v, p) <=> DOMAIN h # {}
    BY DEF Recorded
  <1>9. Recorded(v, p) => (VersionAt(v, p, k).file = Nobody <=> h[k].type = "tombstone")
    <2>1. ASSUME Recorded(v, p), h[k].type # "tombstone" PROVE VersionAt(v, p, k).file # Nobody
      <3>1. k \in 1 .. Len(v.blocks) /\ v.blocks \in Seq(Blocks)
        BY <1>5, <2>1, ViewParts
      <3>2. v.blocks[k] \in Blocks
        BY <3>1, LenProperties
      <3>3. v.blocks[k].node \in Nodes
        BY <3>2 DEF Blocks
      <3>4. VersionAt(v, p, k).file = v.blocks[k].node
        BY <2>1 DEF VersionAt
      <3>5. Nobody \notin Nodes
        BY DEF Nobody, Nodes
      <3> QED BY <3>3, <3>4, <3>5
    <2>2. h[k].type = "tombstone" => VersionAt(v, p, k).file = Nobody
      BY DEF VersionAt
    <2> QED BY <2>1, <2>2
  <1>10. Promised!Strange(f, w) <=> \E i \in DOMAIN s : Namespace[s[i].author] # Namespace[w]
    BY <1>2 DEF Promised!Strange
  <1>11. Promised!Foreign(f, w) <=> s # << >> /\ s[Len(s)].author # w
    BY <1>2 DEF Promised!Foreign, Promised!Last
  <1>12. Promised!Empty(f) <=> s = << >> \/ s[Len(s)].file = Nobody
    BY <1>2 DEF Promised!Empty, Promised!Last
  <1>13. Promised!Disputed(f) <=> InConflict(v, p)
    BY <1>2 DEF Promised!Disputed, RivalsOf, InConflict
  <1> HIDE DEF h, s, f, k
  <1>14. Promised!Strange(f, w) <=> Recorded(v, p) /\ Namespace[w] # Namespace[h[k].source]
    <2>1. ASSUME NEW i \in DOMAIN s, Namespace[s[i].author] # Namespace[w]
          PROVE  Recorded(v, p) /\ Namespace[w] # Namespace[h[k].source]
      <3>1. KeyAt(h, i) \in DOMAIN h /\ s[i] = VersionAt(v, p, KeyAt(h, i))
        BY <1>3
      <3>2. s[i].author = h[KeyAt(h, i)].source
        BY <1>4, <3>1
      <3>3. Recorded(v, p)
        BY <1>8, <3>1
      <3> QED BY <1>7, <2>1, <3>1, <3>2, <3>3
    <2>2. ASSUME Recorded(v, p), Namespace[w] # Namespace[h[k].source]
          PROVE  \E i \in DOMAIN s : Namespace[s[i].author] # Namespace[w]
      <3>1. PICK i \in DOMAIN s : s[i] = VersionAt(v, p, k)
        BY <1>3, <1>5, <2>2
      <3>2. s[i].author = h[k].source
        BY <1>4, <1>5, <2>2, <3>1
      <3> QED BY <2>2, <3>2
    <2> QED BY <1>10, <2>1, <2>2
  <1>15. Owned(v, p, w) <=> Namespace[w] = Namespace[h[k].source]
    BY <1>6 DEF Owned
  <1>16. Promised!Foreign(f, w) <=> Recorded(v, p) /\ h[k].source # w
    BY <1>3, <1>4, <1>5, <1>11
  <1>17. Promised!Empty(f) <=> ~Recorded(v, p) \/ h[k].type = "tombstone"
    BY <1>3, <1>9, <1>12
  <1> QED BY <1>1, <1>2, <1>3, <1>6, <1>13, <1>14, <1>15, <1>16, <1>17 DEF f

-----------------------------------------------------------------------------
(***************************************************************************)
(* The writes of the handlers, as changes of what the view stands for.     *)
(***************************************************************************)
\* Conflicts are filed under the number of a block, as records are.
ConflictsBelow(v) == \A p \in Paths : \A k \in DOMAIN v.conflicts[p] : k <= Len(v.blocks)

\* The records there are, are below any number that is not below the blocks.
LEMMA RecordsBelow ==
    ASSUME NEW v, ViewInv(v), NEW p \in Paths, NEW L \in Nat, L >= Len(v.blocks)
    PROVE  \A k \in DOMAIN v.history[p] : k < L /\ k # L
  <1> SUFFICES ASSUME NEW k \in DOMAIN v.history[p] PROVE k < L /\ k # L
    OBVIOUS
  <1>1. k \in Nat /\ Len(v.blocks) \in Nat
    BY ViewParts, HistoryFinite
  <1>2. k < Len(v.blocks)
    BY DEF ViewInv, HistoryBelow
  <1> QED BY <1>1, <1>2

\* A file that is accepted is the last version, and the file of its path.
LEMMA FileAccepted ==
    ASSUME NEW v, ViewInv(v), NEW p \in Paths, NEW n \in Nodes, ~InConflict(v, p),
           Recorded(v, p) => Namespace[Source(n)] = Namespace[Latest(v, p).source]
    PROVE  FileSystem(PutHistory(PutFile(v, p, n), p, "file", n))
              = [FileSystem(v) EXCEPT ![p] = Promised!Changed(PathOf(v, p), Promised!File(n))]
  <1> DEFINE w == PutHistory(PutFile(v, p, n), p, "file", n)
             L == Len(v.blocks) + 1
             e == [type |-> "file", source |-> Source(n)]
  <1>0. v \in Views /\ Len(v.blocks) \in Nat
    BY ViewParts
  <1>1. ViewInv(w)
    BY FileRecordInv
  <1>2. /\ Grows(v, w) /\ L \in Versions
        /\ w.blocks[L] = Block("file", p, n)
        /\ w.files = With(v.files, p, [seq |-> L, node |-> n])
        /\ w.history = [v.history EXCEPT ![p] = With(v.history[p], L, e)]
        /\ w.conflicts = v.conflicts
    BY <1>0, FileFiled
  <1>3. v.history \in [Paths -> PartialMaps(Versions, Records)]
    BY <1>0 DEF Views
  <1>4. e \in Records
    BY BlockTypes DEF Records
  <1>5. L \in Nat /\ L >= Len(v.blocks)
    BY <1>0
  <1> HIDE DEF w, L, e
  <1>6. w.history[p] = With(v.history[p], L, e)
    BY <1>2, <1>3
  <1>7. OnlyAt(v, w, p)
    <2>1. ASSUME NEW q \in Paths \ {p}
          PROVE  /\ w.history[q] = v.history[q] /\ w.conflicts[q] = v.conflicts[q]
                 /\ FileOf(w, q) = FileOf(v, q)
      BY <1>2, <1>3 DEF FileOf, With
    <2> QED BY <1>2, <2>1 DEF OnlyAt
  <1>8. /\ VersionsOf(w, p) = Append(VersionsOf(v, p), VersionAt(w, p, L))
        /\ w.history[p][L] = e
    <2>1. /\ DOMAIN w.history[p] = DOMAIN v.history[p] \cup {L}
          /\ w.history[p][L] = e
      BY <1>6 DEF With
    <2>2. \A k \in DOMAIN v.history[p] : k < L /\ k # L
      BY <1>5, RecordsBelow
    <2>3. \A k \in DOMAIN v.history[p] : w.history[p][k] = v.history[p][k]
      BY <1>6, <2>2 DEF With
    <2> QED BY <1>1, <1>2, <2>1, <2>2, <2>3, VersionsGrow
  <1>9. VersionAt(w, p, L) = Promised!File(n)
    BY <1>2, <1>8 DEF VersionAt, Promised!File, Block, Source, e
  <1>10. FileOf(w, p) = n
    BY <1>2 DEF FileOf, With
  <1>11. RivalsOf(w, p) = {}
    BY <1>2 DEF RivalsOf, InConflict
  <1>12. PathOf(w, p) = Promised!Changed(PathOf(v, p), Promised!File(n))
    BY <1>8, <1>9, <1>10, <1>11 DEF PathOf, Promised!Changed, Promised!File
  <1> QED BY <1>7, <1>12, OnlyThere DEF w

\* A deletion that is accepted is the last version, and leaves no file.
LEMMA TombstoneAccepted ==
    ASSUME NEW v, ViewInv(v), NEW p \in Paths, NEW n \in Nodes, ~InConflict(v, p),
           Recorded(v, p), Namespace[Source(n)] = Namespace[Latest(v, p).source]
    PROVE  FileSystem(PutHistory(DelFile(v, p, n), p, "tombstone", n))
              = [FileSystem(v) EXCEPT ![p] = Promised!Changed(PathOf(v, p), Promised!Gone(n))]
  <1> DEFINE w == PutHistory(DelFile(v, p, n), p, "tombstone", n)
             L == IF p \in DOMAIN v.files THEN Len(v.blocks) + 1 ELSE Len(v.blocks)
             e == [type |-> "tombstone", source |-> Source(n)]
  <1>0. v \in Views /\ Len(v.blocks) \in Nat /\ Len(v.blocks) > 0
    <2>1. PICK k \in DOMAIN v.history[p] : TRUE
      BY DEF Recorded
    <2>2. k \in 1 .. Len(v.blocks)
      BY ViewParts
    <2> QED BY <2>2, ViewParts
  <1>1. ViewInv(w)
    BY TombstoneRecordInv
  <1>2. /\ Grows(v, w) /\ L \in Versions
        /\ DOMAIN w.files = DOMAIN v.files \ {p}
        /\ \A q \in DOMAIN w.files : w.files[q] = v.files[q]
        /\ w.history = [v.history EXCEPT ![p] = With(v.history[p], L, e)]
        /\ w.conflicts = v.conflicts
    BY <1>0, TombstoneFiled
  <1>3. v.history \in [Paths -> PartialMaps(Versions, Records)]
    BY <1>0 DEF Views
  <1>4. e \in Records
    BY BlockTypes DEF Records
  <1>5. L \in Nat /\ L >= Len(v.blocks)
    BY <1>0
  <1> HIDE DEF w, L, e
  <1>6. w.history[p] = With(v.history[p], L, e)
    BY <1>2, <1>3
  <1>7. OnlyAt(v, w, p)
    <2>1. ASSUME NEW q \in Paths \ {p}
          PROVE  /\ w.history[q] = v.history[q] /\ w.conflicts[q] = v.conflicts[q]
                 /\ FileOf(w, q) = FileOf(v, q)
      BY <1>2, <1>3 DEF FileOf
    <2> QED BY <1>2, <2>1 DEF OnlyAt
  <1>8. /\ VersionsOf(w, p) = Append(VersionsOf(v, p), VersionAt(w, p, L))
        /\ w.history[p][L] = e
    <2>1. /\ DOMAIN w.history[p] = DOMAIN v.history[p] \cup {L}
          /\ w.history[p][L] = e
      BY <1>6 DEF With
    <2>2. \A k \in DOMAIN v.history[p] : k < L /\ k # L
      BY <1>5, RecordsBelow
    <2>3. \A k \in DOMAIN v.history[p] : w.history[p][k] = v.history[p][k]
      BY <1>6, <2>2 DEF With
    <2> QED BY <1>1, <1>2, <2>1, <2>2, <2>3, VersionsGrow
  <1>9. VersionAt(w, p, L) = Promised!Gone(n)
    BY <1>8 DEF VersionAt, Promised!Gone, Source, e
  <1>10. FileOf(w, p) = Nobody
    BY <1>2 DEF FileOf
  <1>11. RivalsOf(w, p) = {}
    BY <1>2 DEF RivalsOf, InConflict
  <1>12. PathOf(w, p) = Promised!Changed(PathOf(v, p), Promised!Gone(n))
    BY <1>8, <1>9, <1>10, <1>11 DEF PathOf, Promised!Changed, Promised!Gone
  <1> QED BY <1>7, <1>12, OnlyThere DEF w

\* An operation put aside is one more rival, and changes nothing else.
LEMMA RivalAdded ==
    ASSUME NEW v, ViewInv(v), ConflictsBelow(v), NEW p \in Paths, NEW n \in Nodes
    PROVE  FileSystem(PutConflict(v, p, n))
              = [FileSystem(v) EXCEPT ![p] = Promised!Contested(PathOf(v, p), n)]
  <1> DEFINE w == PutConflict(v, p, n)
             L == Len(v.blocks) + 1
  <1>0. v \in Views /\ v.blocks \in Seq(Blocks) /\ Len(v.blocks) \in Nat
    BY ViewParts
  <1>1. /\ w.blocks = Append(v.blocks, Block("conflict", p, n))
        /\ w.files = v.files
        /\ w.history = v.history
        /\ w.conflicts = [v.conflicts EXCEPT ![p] = With(v.conflicts[p], L, n)]
    BY <1>0, PutConflictIs
  <1>2. v.conflicts \in [Paths -> PartialMaps(Versions, Nodes)]
    BY <1>0 DEF Views
  <1>3. Block("conflict", p, n) \in Blocks
    BY BlockTypes
  <1>4. \A k \in DOMAIN v.conflicts[p] : k # L
    <2>1. \A i \in Nat : ~(i + 1 <= i)
      OBVIOUS
    <2>2. \A k \in DOMAIN v.conflicts[p] : k <= Len(v.blocks)
      BY DEF ConflictsBelow
    <2> QED BY <1>0, <2>1, <2>2
  <1> HIDE DEF w, L
  <1>5. Grows(v, w)
    BY <1>0, <1>1, <1>3, AppendProperties DEF Grows
  <1>6. w.conflicts[p] = With(v.conflicts[p], L, n)
    BY <1>1, <1>2
  <1>7. OnlyAt(v, w, p)
    <2>1. ASSUME NEW q \in Paths \ {p}
          PROVE  /\ w.history[q] = v.history[q] /\ w.conflicts[q] = v.conflicts[q]
                 /\ FileOf(w, q) = FileOf(v, q)
      BY <1>1, <1>2 DEF FileOf
    <2> QED BY <1>5, <2>1 DEF OnlyAt
  <1>8. VersionsOf(w, p) = VersionsOf(v, p)
    BY <1>1, <1>5, VersionsStay
  <1>9. FileOf(w, p) = FileOf(v, p)
    BY <1>1 DEF FileOf
  <1>10. RivalsOf(w, p) = RivalsOf(v, p) \cup {n}
    <2>1. /\ DOMAIN w.conflicts[p] = DOMAIN v.conflicts[p] \cup {L}
          /\ w.conflicts[p][L] = n
          /\ \A k \in DOMAIN v.conflicts[p] : w.conflicts[p][k] = v.conflicts[p][k]
      BY <1>4, <1>6 DEF With
    <2> QED BY <2>1 DEF RivalsOf
  <1>11. PathOf(w, p) = Promised!Contested(PathOf(v, p), n)
    BY <1>8, <1>9, <1>10 DEF PathOf, Promised!Contested
  <1> QED BY <1>7, <1>11, OnlyThere DEF w

\* A path whose conflicts are cleared has no rivals, and is as it was.
LEMMA RivalsCleared ==
    ASSUME NEW v, ViewInv(v), NEW p \in Paths, NEW n \in Nodes
    PROVE  LET w == ClearConflicts(v, p, n)
           IN  /\ FileSystem(w) = [FileSystem(v) EXCEPT ![p] = PathOf(w, p)]
               /\ PathOf(w, p).versions = VersionsOf(v, p)
  <1> DEFINE w == ClearConflicts(v, p, n)
  <1>0. v \in Views /\ IsFiniteSet(DOMAIN v.conflicts[p])
    BY ViewParts DEF ViewInv
  <1>1. /\ Len(w.blocks) \in Nat /\ Len(w.blocks) >= Len(v.blocks)
        /\ \A i \in 1 .. Len(v.blocks) : w.blocks[i] = v.blocks[i]
        /\ w.files = v.files
        /\ w.history = v.history
        /\ w.conflicts = [v.conflicts EXCEPT ![p] = NoKeys]
    BY <1>0, ClearConflictsIs
  <1>2. v.conflicts \in [Paths -> PartialMaps(Versions, Nodes)] /\ Len(v.blocks) \in Nat
    BY <1>0, ViewParts DEF Views
  <1> HIDE DEF w
  <1>3. Grows(v, w)
    BY <1>1, <1>2 DEF Grows
  <1>4. OnlyAt(v, w, p)
    <2>1. ASSUME NEW q \in Paths \ {p}
          PROVE  /\ w.history[q] = v.history[q] /\ w.conflicts[q] = v.conflicts[q]
                 /\ FileOf(w, q) = FileOf(v, q)
      BY <1>1, <1>2 DEF FileOf
    <2> QED BY <1>3, <2>1 DEF OnlyAt
  <1>5. VersionsOf(w, p) = VersionsOf(v, p)
    BY <1>1, <1>3, VersionsStay
  <1> QED BY <1>4, <1>5, OnlyThere DEF PathOf, w

-----------------------------------------------------------------------------
(***************************************************************************)
(* apply() does to a path what SharedFiles lets become of it.              *)
(***************************************************************************)
\* A change at one path, among its outcomes, leads to a successor.
LEMMA OutcomeSucceeds ==
    ASSUME NEW fs, NEW n, NEW q, q.kind # "membership",
           NEW g \in Promised!Outcomes(fs[q.path], n, q)
    PROVE  [fs EXCEPT ![q.path] = g] \in Promised!Successors(fs, n, q)
  BY DEF Promised!Successors

\* A view that stays as it is stands for what it does.
LEMMA SameFiles ==
    ASSUME NEW v, NEW p \in Paths
    PROVE  FileSystem(v) = [FileSystem(v) EXCEPT ![p] = PathOf(v, p)]
  BY FileSystemIs DEF PathOf

\* An addition is accepted, in dispute, or refused.
LEMMA AdditionSucceeds ==
    ASSUME NEW v, ViewInv(v), ConflictsBelow(v), NEW n \in Nodes, NEW p \in Paths, NEW seen
    PROVE  FileSystem(AdditionOp(v, n, p, seen))
              \in Promised!Successors(FileSystem(v), n, [kind |-> "write", path |-> p])
  <1> DEFINE q == [kind |-> "write", path |-> p]
             fs == FileSystem(v)
             f == PathOf(v, p)
             w == Source(n)
             outcome == AdditionOutcome(v, p, w, seen)
  <1>1. w \in Drives /\ w = n[1]
    BY BlockTypes DEF Source
  <1>2. /\ fs[p] = f
        /\ Promised!Strange(f, w) <=> Recorded(v, p) /\ ~Owned(v, p, w)
        /\ Promised!Disputed(f) <=> InConflict(v, p)
        /\ Promised!Foreign(f, w) <=> Recorded(v, p) /\ Latest(v, p).source # w
    BY <1>1, PathIs
  <1>3. Promised!Outcomes(f, n, q) =
           Promised!Accepting(f, n, Promised!File(n)) \cup Promised!Disputing(f, n)
              \cup Promised!Refusing(f, n)
    BY DEF Promised!Outcomes
  <1>4. InConflict(v, p) => Recorded(v, p)
    BY DEF ViewInv, ConflictsHaveRecord
  <1>5. \A g \in Promised!Outcomes(f, n, q) :
           [fs EXCEPT ![p] = g] \in Promised!Successors(fs, n, q)
    <2>1. q.kind # "membership" /\ q.path = p
      OBVIOUS
    <2> HIDE DEF q, fs
    <2> QED BY <1>2, <2>1, OutcomeSucceeds
  <1>6. Promised!Refusing(f, n) = {g \in {f} : Promised!Strange(f, w)}
    BY <1>1 DEF Promised!Refusing
  <1>7. Promised!Disputing(f, n) =
           {g \in {Promised!Contested(f, n)} :
               ~Promised!Strange(f, w) /\ (Promised!Disputed(f) \/ Promised!Foreign(f, w))}
    BY <1>1 DEF Promised!Disputing
  <1>8. Promised!Accepting(f, n, Promised!File(n)) =
           {g \in {Promised!Changed(f, Promised!File(n))} :
               ~Promised!Strange(f, w) /\ ~Promised!Disputed(f)}
    BY <1>1 DEF Promised!Accepting
  <1>9. CASE Recorded(v, p) /\ ~Owned(v, p, w)
    <2>1. AdditionOp(v, n, p, seen) = v
      BY <1>9 DEF AdditionOp, AdditionOutcome
    <2>2. f \in Promised!Outcomes(f, n, q)
      BY <1>2, <1>3, <1>6, <1>9
    <2>3. fs = [fs EXCEPT ![p] = f]
      BY SameFiles
    <2> HIDE DEF fs, f, q
    <2>4. fs \in Promised!Successors(fs, n, q)
      BY <1>5, <2>2, <2>3
    <2> QED BY <2>1, <2>4 DEF fs, q
  <1>10. CASE ~(Recorded(v, p) /\ ~Owned(v, p, w)) /\ Conflicting(v, p, w, seen)
    <2>1. AdditionOp(v, n, p, seen) = PutConflict(v, p, n)
      BY <1>10 DEF AdditionOp, AdditionOutcome
    <2>2. InConflict(v, p) \/ (Recorded(v, p) /\ Latest(v, p).source # w)
      BY <1>10 DEF Conflicting
    <2>3. Promised!Contested(f, n) \in Promised!Outcomes(f, n, q)
      BY <1>2, <1>3, <1>7, <1>10, <2>2
    <2>4. FileSystem(PutConflict(v, p, n)) = [fs EXCEPT ![p] = Promised!Contested(f, n)]
      BY RivalAdded
    <2> HIDE DEF fs, f, q
    <2>5. FileSystem(PutConflict(v, p, n)) \in Promised!Successors(fs, n, q)
      BY <1>5, <2>3, <2>4
    <2> QED BY <2>1, <2>5 DEF fs, q
  <1>11. CASE ~(Recorded(v, p) /\ ~Owned(v, p, w)) /\ ~Conflicting(v, p, w, seen)
    <2>1. AdditionOp(v, n, p, seen) = PutHistory(PutFile(v, p, n), p, "file", n)
      BY <1>11 DEF AdditionOp, AdditionOutcome
    <2>2. ~InConflict(v, p)
      BY <1>11 DEF Conflicting
    <2>3. Recorded(v, p) => Namespace[w] = Namespace[Latest(v, p).source]
      BY <1>11 DEF Owned
    <2>4. Promised!Changed(f, Promised!File(n)) \in Promised!Outcomes(f, n, q)
      BY <1>2, <1>3, <1>8, <1>11, <2>2
    <2>5. FileSystem(AdditionOp(v, n, p, seen))
             = [fs EXCEPT ![p] = Promised!Changed(f, Promised!File(n))]
      BY <2>1, <2>2, <2>3, FileAccepted
    <2> HIDE DEF fs, f, q
    <2>6. FileSystem(AdditionOp(v, n, p, seen)) \in Promised!Successors(fs, n, q)
      BY <1>5, <2>4, <2>5
    <2> QED BY <2>6 DEF fs, q
  <1> QED BY <1>9, <1>10, <1>11

\* A deletion has nothing to delete, is accepted, in dispute, or refused.
LEMMA DeletionSucceeds ==
    ASSUME NEW v, ViewInv(v), ConflictsBelow(v), NEW n \in Nodes, NEW p \in Paths, NEW seen
    PROVE  FileSystem(DeletionOp(v, n, p, seen))
              \in Promised!Successors(FileSystem(v), n, [kind |-> "delete", path |-> p])
  <1> DEFINE q == [kind |-> "delete", path |-> p]
             fs == FileSystem(v)
             f == PathOf(v, p)
             w == Source(n)
             result == DeletionOp(v, n, p, seen)
  <1>1. w \in Drives /\ w = n[1]
    BY BlockTypes DEF Source
  <1>2. /\ fs[p] = f
        /\ Promised!Strange(f, w) <=> Recorded(v, p) /\ ~Owned(v, p, w)
        /\ Promised!Disputed(f) <=> InConflict(v, p)
        /\ Promised!Foreign(f, w) <=> Recorded(v, p) /\ Latest(v, p).source # w
        /\ Promised!Empty(f) <=> ~Recorded(v, p) \/ Latest(v, p).type = "tombstone"
    BY <1>1, PathIs
  <1>3. Promised!Outcomes(f, n, q) =
           IF Promised!Empty(f) THEN {f}
           ELSE Promised!Accepting(f, n, Promised!Gone(n)) \cup Promised!Disputing(f, n)
                   \cup Promised!Refusing(f, n)
    BY DEF Promised!Outcomes
  <1>4. InConflict(v, p) => Recorded(v, p)
    BY DEF ViewInv, ConflictsHaveRecord
  <1>5. \A g \in Promised!Outcomes(f, n, q) :
           [fs EXCEPT ![p] = g] \in Promised!Successors(fs, n, q)
    <2>1. q.kind # "membership" /\ q.path = p
      OBVIOUS
    <2> HIDE DEF q, fs
    <2> QED BY <1>2, <2>1, OutcomeSucceeds
  <1>6. Promised!Refusing(f, n) = {g \in {f} : Promised!Strange(f, w)}
    BY <1>1 DEF Promised!Refusing
  <1>7. Promised!Disputing(f, n) =
           {g \in {Promised!Contested(f, n)} :
               ~Promised!Strange(f, w) /\ (Promised!Disputed(f) \/ Promised!Foreign(f, w))}
    BY <1>1 DEF Promised!Disputing
  <1>8. Promised!Accepting(f, n, Promised!Gone(n)) =
           {g \in {Promised!Changed(f, Promised!Gone(n))} :
               ~Promised!Strange(f, w) /\ ~Promised!Disputed(f)}
    BY <1>1 DEF Promised!Accepting
  <1>9. CASE ~Recorded(v, p) \/ Latest(v, p).type = "tombstone"
    <2>1. result = v
      BY <1>4, <1>9 DEF DeletionOp, DeletionOutcome, Conflicting
    <2>2. f \in Promised!Outcomes(f, n, q)
      BY <1>2, <1>3, <1>9
    <2>3. fs = [fs EXCEPT ![p] = f]
      BY SameFiles
    <2> HIDE DEF fs, f, q
    <2>4. fs \in Promised!Successors(fs, n, q)
      BY <1>5, <2>2, <2>3
    <2> QED BY <2>1, <2>4 DEF fs, q
  <1>10. CASE Recorded(v, p) /\ Latest(v, p).type # "tombstone" /\ ~Owned(v, p, w)
    <2>1. result = v
      BY <1>10 DEF DeletionOp, DeletionOutcome
    <2>2. f \in Promised!Outcomes(f, n, q)
      BY <1>2, <1>3, <1>6, <1>10
    <2>3. fs = [fs EXCEPT ![p] = f]
      BY SameFiles
    <2> HIDE DEF fs, f, q
    <2>4. fs \in Promised!Successors(fs, n, q)
      BY <1>5, <2>2, <2>3
    <2> QED BY <2>1, <2>4 DEF fs, q
  <1>11. CASE /\ Recorded(v, p) /\ Latest(v, p).type # "tombstone" /\ Owned(v, p, w)
              /\ Conflicting(v, p, w, seen)
    <2>1. result = PutConflict(v, p, n)
      BY <1>11 DEF DeletionOp, DeletionOutcome
    <2>2. InConflict(v, p) \/ (Recorded(v, p) /\ Latest(v, p).source # w)
      BY <1>11 DEF Conflicting
    <2>3. Promised!Contested(f, n) \in Promised!Outcomes(f, n, q)
      BY <1>2, <1>3, <1>7, <1>11, <2>2
    <2>4. FileSystem(PutConflict(v, p, n)) = [fs EXCEPT ![p] = Promised!Contested(f, n)]
      BY RivalAdded
    <2> HIDE DEF fs, f, q
    <2>5. FileSystem(PutConflict(v, p, n)) \in Promised!Successors(fs, n, q)
      BY <1>5, <2>3, <2>4
    <2> QED BY <2>1, <2>5 DEF fs, q
  <1>12. CASE /\ Recorded(v, p) /\ Latest(v, p).type # "tombstone" /\ Owned(v, p, w)
              /\ ~Conflicting(v, p, w, seen)
    <2>1. result = PutHistory(DelFile(v, p, n), p, "tombstone", n)
      BY <1>12 DEF DeletionOp, DeletionOutcome
    <2>2. ~InConflict(v, p)
      BY <1>12 DEF Conflicting
    <2>3. Namespace[w] = Namespace[Latest(v, p).source]
      BY <1>12 DEF Owned
    <2>4. Promised!Changed(f, Promised!Gone(n)) \in Promised!Outcomes(f, n, q)
      BY <1>2, <1>3, <1>8, <1>12, <2>2
    <2>5. result = PutHistory(DelFile(v, p, n), p, "tombstone", n)
          /\ FileSystem(PutHistory(DelFile(v, p, n), p, "tombstone", n))
                = [fs EXCEPT ![p] = Promised!Changed(f, Promised!Gone(n))]
      BY <1>12, <2>1, <2>2, <2>3, TombstoneAccepted
    <2> HIDE DEF fs, f, q, result
    <2>6. FileSystem(result) \in Promised!Successors(fs, n, q)
      BY <1>5, <2>4, <2>5
    <2> QED BY <2>6 DEF fs, q, result
  <1> QED BY <1>9, <1>10, <1>11, <1>12

\* A resolution has nothing to settle, settles its path as a whole, or is refused.
LEMMA ResolutionSucceeds ==
    ASSUME NEW v, ViewInv(v), NEW n \in Nodes, NEW p \in Paths, NEW file \in BOOLEAN
    PROVE  FileSystem(ResolutionOp(v, n, p, file))
              \in Promised!Successors(FileSystem(v), n,
                                      [kind |-> "settle", path |-> p, file |-> file])
  <1> DEFINE q == [kind |-> "settle", path |-> p, file |-> file]
             fs == FileSystem(v)
             f == PathOf(v, p)
             w == Source(n)
             u == ClearConflicts(v, p, n)
             result == ResolutionOp(v, n, p, file)
             version == IF file THEN Promised!File(n) ELSE Promised!Gone(n)
  <1>1. w \in Drives /\ w = n[1]
    BY BlockTypes DEF Source
  <1>2. /\ fs[p] = f
        /\ f.versions = << >> <=> ~Recorded(v, p)
        /\ Promised!Strange(f, w) <=> Recorded(v, p) /\ ~Owned(v, p, w)
    BY <1>1, PathIs
  <1>3. Promised!Outcomes(f, n, q) =
           IF f.versions = << >> THEN {f}
           ELSE {g \in {Promised!Changed(f, version)} : ~Promised!Strange(f, w)}
                   \cup Promised!Refusing(f, n)
    BY <1>1 DEF Promised!Outcomes
  <1>4. \A g \in Promised!Outcomes(f, n, q) :
           [fs EXCEPT ![p] = g] \in Promised!Successors(fs, n, q)
    <2>1. q.kind # "membership" /\ q.path = p
      OBVIOUS
    <2> HIDE DEF q, fs
    <2> QED BY <1>2, <2>1, OutcomeSucceeds
  <1>5. Promised!Refusing(f, n) = {g \in {f} : Promised!Strange(f, w)}
    BY <1>1 DEF Promised!Refusing
  <1>6. Recorded(v, p) => Namespace[Oldest(v, p).source] = Namespace[Latest(v, p).source]
    BY NamespaceOfPath
  <1>7. CASE ~Recorded(v, p) \/ ~Owned(v, p, w)
    <2>1. result = v
      BY <1>6, <1>7 DEF ResolutionOp, ResolutionOutcome, Owned
    <2>2. f \in Promised!Outcomes(f, n, q)
      BY <1>2, <1>3, <1>5, <1>7
    <2>3. fs = [fs EXCEPT ![p] = f]
      BY SameFiles
    <2> HIDE DEF fs, f, q, result
    <2>4. fs \in Promised!Successors(fs, n, q)
      BY <1>4, <2>2, <2>3
    <2>5. FileSystem(result) = fs
      BY <2>1 DEF fs
    <2> QED BY <2>4, <2>5 DEF fs, q, result
  <1>8. CASE Recorded(v, p) /\ Owned(v, p, w)
    <2>1. result = IF file THEN PutHistory(PutFile(u, p, n), p, "file", n)
                   ELSE PutHistory(DelFile(u, p, n), p, "tombstone", n)
      BY <1>6, <1>8 DEF ResolutionOp, ResolutionOutcome, Owned
    <2>2. ViewInv(u) /\ ~InConflict(u, p) /\ u.history = v.history
      BY ClearedInv
    <2>3. /\ FileSystem(u) = [fs EXCEPT ![p] = PathOf(u, p)]
          /\ PathOf(u, p).versions = f.versions
      BY RivalsCleared DEF PathOf
    <2> HIDE DEF u
    <2>4. Recorded(u, p) /\ Namespace[w] = Namespace[Latest(u, p).source]
      BY <1>8, <2>2 DEF Recorded, Latest, Owned
    <2>5. FileSystem(result) = [FileSystem(u) EXCEPT ![p] = Promised!Changed(PathOf(u, p), version)]
      <3>1. CASE file
        <4>1. result = PutHistory(PutFile(u, p, n), p, "file", n) /\ version = Promised!File(n)
          BY <2>1, <3>1
        <4> HIDE DEF result, version
        <4> QED BY <2>2, <2>4, <4>1, FileAccepted
      <3>2. CASE ~file
        <4>1. result = PutHistory(DelFile(u, p, n), p, "tombstone", n) /\ version = Promised!Gone(n)
          BY <2>1, <3>2
        <4> HIDE DEF result, version
        <4> QED BY <2>2, <2>4, <4>1, TombstoneAccepted
      <3> QED BY <3>1, <3>2
    <2>6. Promised!Changed(PathOf(u, p), version) = Promised!Changed(f, version)
      BY <2>3 DEF Promised!Changed
    <2>7. Promised!Changed(f, version) \in Promised!Outcomes(f, n, q)
      BY <1>2, <1>3, <1>8
    <2>8. fs = [x \in Paths |-> fs[x]]
      BY FileSystemIs
    <2> HIDE DEF fs, f, q, result, version
    <2>9. FileSystem(result) = [fs EXCEPT ![p] = Promised!Changed(f, version)]
      BY <2>3, <2>5, <2>6
    <2>10. FileSystem(result) \in Promised!Successors(fs, n, q)
      BY <1>4, <2>7, <2>9
    <2> QED BY <2>10 DEF fs, q, result
  <1> QED BY <1>7, <1>8

\* A change of the writers is none of the files.
LEMMA WriterSucceeds ==
    ASSUME NEW v, ViewInv(v), NEW n, NEW key, NEW removed
    PROVE  FileSystem(WriterOp(v, key, removed))
              \in Promised!Successors(FileSystem(v), n, [kind |-> "membership"])
  <1> DEFINE w == WriterOp(v, key, removed)
  <1>1. /\ w.blocks = v.blocks /\ w.files = v.files /\ w.history = v.history
        /\ w.conflicts = v.conflicts
    BY ViewParts DEF Views, WriterOp
  <1> HIDE DEF w
  <1>2. FileSystem(w) = FileSystem(v)
    BY <1>1 DEF FileSystem, VersionAt
  <1>3. FileSystem(v) \in Promised!Successors(FileSystem(v), n, [kind |-> "membership"])
    BY DEF Promised!Successors
  <1> QED BY <1>2, <1>3 DEF w

\* What an operation asks for.
LEMMA RequestsAre ==
    ASSUME NEW op \in Ops
    PROVE  /\ op.type = "addition" =>
                 op.path \in Paths /\ Requested(op) = [kind |-> "write", path |-> op.path]
           /\ op.type = "deletion" =>
                 op.path \in Paths /\ Requested(op) = [kind |-> "delete", path |-> op.path]
           /\ op.type = "resolution" =>
                 /\ op.path \in Paths /\ op.file \in BOOLEAN
                 /\ Requested(op) = [kind |-> "settle", path |-> op.path, file |-> op.file]
           /\ op.type = "writer" => Requested(op) = [kind |-> "membership"]
           /\ op.type \in {"addition", "deletion", "resolution", "writer"}
           /\ Requested(op) \in Promised!Requests
  <1>1. /\ op.type \in {"addition", "deletion"} => op.path \in Paths
        /\ op.type = "resolution" => op.path \in Paths /\ op.file \in BOOLEAN
        /\ op.type \in {"addition", "deletion", "resolution", "writer"}
    BY DEF Ops, FileOps, WriterOps
  <1>2. op.type = "addition" => Requested(op) = [kind |-> "write", path |-> op.path]
    BY DEF Requested
  <1>3. op.type = "deletion" => Requested(op) = [kind |-> "delete", path |-> op.path]
    BY DEF Requested
  <1>4. op.type = "resolution" =>
           Requested(op) = [kind |-> "settle", path |-> op.path, file |-> op.file]
    BY DEF Requested
  <1>5. op.type = "writer" => Requested(op) = [kind |-> "membership"]
    BY DEF Requested
  <1>6. Requested(op) \in Promised!Requests
    BY <1>1, <1>2, <1>3, <1>4, <1>5 DEF Promised!Requests
  <1> QED BY <1>1, <1>2, <1>3, <1>4, <1>5, <1>6

\* Whatever the operation, its writer and the heads it saw, a turn of the loop
\* of _baseApply leads to a state SharedFiles allows after the one before it.
THEOREM ApplySucceeds ==
    ASSUME NEW v, ViewInv(v), ConflictsBelow(v), NEW n \in Nodes, NEW op \in Ops, NEW seen
    PROVE  FileSystem(Apply(v, n, op, seen))
              \in Promised!Successors(FileSystem(v), n, Requested(op))
  <1>1. CASE op.type = "addition"
    <2>1. Apply(v, n, op, seen) = AdditionOp(v, n, op.path, seen)
      BY <1>1 DEF Apply
    <2> QED BY <1>1, <2>1, RequestsAre, AdditionSucceeds
  <1>2. CASE op.type = "deletion"
    <2>1. Apply(v, n, op, seen) = DeletionOp(v, n, op.path, seen)
      BY <1>2 DEF Apply
    <2> QED BY <1>2, <2>1, RequestsAre, DeletionSucceeds
  <1>3. CASE op.type = "resolution"
    <2>1. Apply(v, n, op, seen) = ResolutionOp(v, n, op.path, op.file)
      BY <1>3 DEF Apply
    <2> QED BY <1>3, <2>1, RequestsAre, ResolutionSucceeds
  <1>4. CASE op.type = "writer"
    <2>1. Apply(v, n, op, seen) = WriterOp(v, op.key, op.removed)
      BY <1>4 DEF Apply
    <2> QED BY <1>4, <2>1, RequestsAre, WriterSucceeds
  <1> QED BY <1>1, <1>2, <1>3, <1>4, RequestsAre

-----------------------------------------------------------------------------
(***************************************************************************)
(* The strengthening: conflicts keep below the blocks, ...                 *)
(***************************************************************************)
\* Conflicts are below the blocks if they are old ones or put there.
LEMMA BelowGrows ==
    ASSUME NEW v, ConflictsBelow(v), Len(v.blocks) \in Nat,
           NEW w \in Views, Len(v.blocks) <= Len(w.blocks),
           \A q \in Paths : \A k \in DOMAIN w.conflicts[q] :
              k \in DOMAIN v.conflicts[q] \/ k <= Len(w.blocks)
    PROVE  ConflictsBelow(w)
  <1> SUFFICES ASSUME NEW q \in Paths, NEW k \in DOMAIN w.conflicts[q],
                      k \in DOMAIN v.conflicts[q]
               PROVE  k <= Len(w.blocks)
    BY DEF ConflictsBelow
  <1>1. w.conflicts[q] \in PartialMaps(Versions, Nodes) /\ w.blocks \in Seq(Blocks)
    BY DEF Views
  <1>2. k \in Nat /\ Len(w.blocks) \in Nat
    BY <1>1, PartialMapsAre, LenProperties DEF Versions
  <1>3. k <= Len(v.blocks)
    BY DEF ConflictsBelow
  <1> QED BY <1>2, <1>3

\* A file that is accepted leaves the conflicts alone, a deletion too.
LEMMA AcceptedBelow ==
    ASSUME NEW v, ViewInv(v), ConflictsBelow(v), NEW p \in Paths, NEW n \in Nodes
    PROVE  /\ ConflictsBelow(PutHistory(PutFile(v, p, n), p, "file", n))
           /\ Recorded(v, p) =>
                 ConflictsBelow(PutHistory(DelFile(v, p, n), p, "tombstone", n))
  <1> DEFINE f == PutHistory(PutFile(v, p, n), p, "file", n)
             t == PutHistory(DelFile(v, p, n), p, "tombstone", n)
  <1>1. v \in Views /\ Len(v.blocks) \in Nat
    BY ViewParts
  <1>2. f \in Views /\ Grows(v, f) /\ f.conflicts = v.conflicts
    BY <1>1, FileFiled
  <1>3. ASSUME Recorded(v, p)
        PROVE  t \in Views /\ Grows(v, t) /\ t.conflicts = v.conflicts
    <2>1. PICK k \in DOMAIN v.history[p] : TRUE
      BY <1>3 DEF Recorded
    <2>2. k \in 1 .. Len(v.blocks)
      BY <2>1, ViewParts
    <2>3. Len(v.blocks) > 0
      BY <1>1, <2>2
    <2> DEFINE L == IF p \in DOMAIN v.files THEN Len(v.blocks) + 1 ELSE Len(v.blocks)
               e == [type |-> "tombstone", source |-> Source(n)]
    <2>4. /\ t \in Views /\ Grows(v, t)
          /\ t.history = [v.history EXCEPT ![p] = With(v.history[p], L, e)]
          /\ t.conflicts = v.conflicts
      BY <1>1, <2>3, TombstoneFiled
    <2> QED BY <2>4
  <1> HIDE DEF f, t
  <1>4. ConflictsBelow(f)
    BY <1>1, <1>2, BelowGrows DEF Grows
  <1>5. Recorded(v, p) => ConflictsBelow(t)
    BY <1>1, <1>3, BelowGrows DEF Grows
  <1> QED BY <1>4, <1>5 DEF f, t

\* A conflict is filed under the number of its own block.
LEMMA RivalBelow ==
    ASSUME NEW v, ViewInv(v), ConflictsBelow(v), NEW p \in Paths, NEW n \in Nodes
    PROVE  ConflictsBelow(PutConflict(v, p, n))
  <1> DEFINE w == PutConflict(v, p, n)
             L == Len(v.blocks) + 1
  <1>1. v \in Views /\ v.blocks \in Seq(Blocks) /\ Len(v.blocks) \in Nat
    BY ViewParts
  <1>2. /\ w \in Views
        /\ w.blocks = Append(v.blocks, Block("conflict", p, n))
        /\ w.conflicts = [v.conflicts EXCEPT ![p] = With(v.conflicts[p], L, n)]
    BY <1>1, PutConflictIs
  <1>3. v.conflicts \in [Paths -> PartialMaps(Versions, Nodes)]
    BY <1>1 DEF Views
  <1>4. Len(w.blocks) = L
    <2>1. Block("conflict", p, n) \in Blocks
      BY BlockTypes
    <2> QED BY <1>1, <1>2, <2>1, AppendProperties
  <1>5. Len(v.blocks) <= L /\ L <= L
    BY <1>1
  <1> HIDE DEF w, L
  <1>6. \A q \in Paths : \A k \in DOMAIN w.conflicts[q] : k \in DOMAIN v.conflicts[q] \/ k = L
    BY <1>2, <1>3 DEF With
  <1>7. ConflictsBelow(w)
    BY <1>1, <1>2, <1>4, <1>5, <1>6, BelowGrows
  <1> QED BY <1>7 DEF w

\* No turn of the loop of _baseApply brings a conflict above the blocks.
LEMMA ApplyBelow ==
    ASSUME NEW v, ViewInv(v), ConflictsBelow(v), NEW n \in Nodes, NEW op \in Ops, NEW seen
    PROVE  ConflictsBelow(Apply(v, n, op, seen))
  <1>1. CASE op.type = "addition"
    <2>1. op.path \in Paths /\ Apply(v, n, op, seen) = AdditionOp(v, n, op.path, seen)
      BY <1>1, RequestsAre DEF Apply
    <2> QED BY <2>1, AcceptedBelow, RivalBelow DEF AdditionOp
  <1>2. CASE op.type = "deletion"
    <2>1. op.path \in Paths /\ Apply(v, n, op, seen) = DeletionOp(v, n, op.path, seen)
      BY <1>2, RequestsAre DEF Apply
    <2>2. DeletionOutcome(v, op.path, Source(n), seen) = "applied" => Recorded(v, op.path)
      BY DEF DeletionOutcome
    <2> QED BY <2>1, <2>2, AcceptedBelow, RivalBelow DEF DeletionOp
  <1>3. CASE op.type = "resolution"
    <2> DEFINE p == op.path
               u == ClearConflicts(v, p, n)
    <2>1. p \in Paths /\ Apply(v, n, op, seen) = ResolutionOp(v, n, p, op.file)
      BY <1>3, RequestsAre DEF Apply
    <2>2. ResolutionOutcome(v, p, Source(n)) = "applied" => Recorded(v, p)
      BY DEF ResolutionOutcome
    <2>3. ViewInv(u) /\ u.history = v.history
      BY <2>1, ClearedInv
    <2>4. ConflictsBelow(u)
      <3>1. /\ v \in Views /\ Len(v.blocks) \in Nat /\ IsFiniteSet(DOMAIN v.conflicts[p])
            /\ v.conflicts \in [Paths -> PartialMaps(Versions, Nodes)]
        BY <2>1, ViewParts DEF ViewInv, Views
      <3>2. /\ u \in Views /\ Len(u.blocks) \in Nat /\ Len(u.blocks) >= Len(v.blocks)
            /\ u.conflicts = [v.conflicts EXCEPT ![p] = NoKeys]
        BY <2>1, <3>1, ClearConflictsIs
      <3>3. DOMAIN NoKeys = {}
        BY NoKeysType
      <3> HIDE DEF u, p
      <3>4. \A q \in Paths : \A k \in DOMAIN u.conflicts[q] : k \in DOMAIN v.conflicts[q]
        BY <3>1, <3>2, <3>3
      <3>5. Len(v.blocks) <= Len(u.blocks)
        BY <3>1, <3>2
      <3> QED BY <3>1, <3>2, <3>4, <3>5, BelowGrows
    <2>5. Recorded(v, p) => Recorded(u, p)
      BY <2>3 DEF Recorded
    <2> HIDE DEF p, u
    <2>6. /\ ConflictsBelow(PutHistory(PutFile(u, p, n), p, "file", n))
          /\ Recorded(v, p) => ConflictsBelow(PutHistory(DelFile(u, p, n), p, "tombstone", n))
      BY <2>1, <2>3, <2>4, <2>5, AcceptedBelow
    <2> QED BY <2>1, <2>2, <2>6 DEF ResolutionOp, u
  <1>4. CASE op.type = "writer"
    <2>1. Apply(v, n, op, seen) = WriterOp(v, op.key, op.removed)
      BY <1>4 DEF Apply
    <2>2. /\ WriterOp(v, op.key, op.removed).conflicts = v.conflicts
          /\ WriterOp(v, op.key, op.removed).blocks = v.blocks
      BY ViewParts DEF WriterOp, Views
    <2> QED BY <2>1, <2>2 DEF ConflictsBelow
  <1> QED BY <1>1, <1>2, <1>3, <1>4, RequestsAre

-----------------------------------------------------------------------------
(***************************************************************************)
(* ... no order holds a node twice, and the nodes of a batch link to the   *)
(* first of them, so that a batch whose first node is new is new.          *)
(***************************************************************************)
BelowInv == \A d \in Drives : \A k \in 1 .. Len(db[d]) : ConflictsBelow(db[d][k])

Distinct(o) == \A i, j \in 1 .. Len(o) : o[i] = o[j] => i = j
DistinctInv == \A d \in Drives : Distinct(order[d])

\* The first node of a batch is linked to by the others.
Chained(n) == n[2] = Node(n).first => \A x \in BatchOf(n) \ {n} : n \in Past(x)
ChainInv == \A n \in LogIds : Chained(n)

LineInv == BelowInv /\ DistinctInv /\ ChainInv

\* Conflicts keep below the blocks, on every replica, whatever it undoes.
LEMMA BelowNext ==
    ASSUME Inv, BelowInv, [Next]_vars
    PROVE  BelowInv'
  <1>1. ASSUME NEW d \in Drives, Keeps(d), NEW k \in 1 .. Len(db'[d])
        PROVE  ConflictsBelow(db'[d][k])
    <2>1. Len(db'[d]) <= Len(db[d]) /\ db'[d][k] = db[d][k]
      BY <1>1 DEF Keeps
    <2>2. Len(db[d]) \in Nat /\ Len(db'[d]) \in Nat
      BY NextInv, LenProperties DEF Inv, TypeInv
    <2>3. k \in 1 .. Len(db[d])
      BY <2>1, <2>2
    <2> QED BY <2>1, <2>3 DEF BelowInv
  <1>2. ASSUME NEW d \in Drives, Extends(d), NEW k \in 1 .. Len(db'[d])
        PROVE  ConflictsBelow(db'[d][k])
    <2> DEFINE K == Len(db[d])
               n == order[d][K]
    <2>1. /\ Len(db'[d]) = K + 1
          /\ \A i \in 1 .. K : db'[d][i] = db[d][i]
          /\ db'[d][K + 1] = Apply(db[d][K], n, Op(n), Seen(order[d], K))
          /\ K \in 1 .. Len(order[d])
      BY <1>2 DEF Extends
    <2>2. K \in Nat /\ K > 0 /\ K \in 1 .. K
      BY <2>1, OrderIds
    <2>3. n \in LogIds
      BY <2>1, OrderIds
    <2>4. n \in Nodes /\ Op(n) \in Ops
      BY <2>3, NodeParts DEF Inv
    <2>5. ViewInv(db[d][K]) /\ ConflictsBelow(db[d][K])
      BY <2>2 DEF Inv, ViewsInv, BelowInv
    <2> HIDE DEF K, n
    <2>6. ConflictsBelow(db'[d][K + 1])
      BY <2>1, <2>4, <2>5, ApplyBelow
    <2>7. CASE k \in 1 .. K
      BY <2>1, <2>7 DEF BelowInv, K
    <2>8. CASE k = K + 1
      BY <2>6, <2>8
    <2> QED BY <2>1, <2>2, <2>7, <2>8
  <1>3. \A d \in Drives : Keeps(d) \/ Extends(d)
    BY StepShape
  <1> QED BY <1>1, <1>2, <1>3 DEF BelowInv

\* The nodes of an append are new, and each is another one.
LEMMA AppendDistinct ==
    ASSUME Inv, DistinctInv, NEW r \in Drives, NEW s \in Sessions, AppendQueue(r, s)
    PROVE  DistinctInv'
  <1> DEFINE m == Len(queue[r][s])
             L == Len(log[r])
             K == Len(order[r])
  <1>1. /\ m \in Nat /\ L \in Nat /\ K \in Nat
        /\ Len(order'[r]) = K + m
        /\ \A c \in Drives \ {r} : order'[c] = order[c]
        /\ \A i \in 1 .. m : order'[r][K + i] = <<r, L + i>>
    BY AppendAdds, AppendNodes, OrderIds, ZenonT(60)
  <1>2. \A i \in 1 .. K : order'[r][i] = order[r][i]
    BY AppendGrows
  <1>3. \A i \in 1 .. K : \A a \in 1 .. m : order[r][i] # <<r, L + a>>
    <2> SUFFICES ASSUME NEW i \in 1 .. K, NEW a \in 1 .. m, order[r][i] = <<r, L + a>>
                 PROVE  FALSE
      OBVIOUS
    <2>1. <<r, L + a>> \in LogIds
      BY OrderIds
    <2>2. L + a \in 1 .. L
      BY <2>1, LogIdsAre DEF Inv
    <2> QED BY <1>1, <2>2
  <1>4. Distinct(order[r])
    BY DEF DistinctInv
  <1> HIDE DEF m, L
  <1>5. ASSUME NEW i \in 1 .. K + m
        PROVE  i \in 1 .. K \/ \E a \in 1 .. m : i = K + a
    <2>1. CASE i > K
      <3>1. i - K \in 1 .. m /\ i = K + (i - K)
        BY <1>1, <2>1
      <3> QED BY <3>1
    <2> QED BY <1>1, <2>1
  <1>6. ASSUME NEW i \in 1 .. K + m, NEW j \in 1 .. K + m, order'[r][i] = order'[r][j]
        PROVE  i = j
    <2>1. CASE i \in 1 .. K /\ j \in 1 .. K
      BY <1>2, <1>4, <1>6, <2>1 DEF Distinct
    <2>2. CASE \E a, b \in 1 .. m : i = K + a /\ j = K + b
      <3>1. PICK a \in 1 .. m, b \in 1 .. m : i = K + a /\ j = K + b
        BY <2>2
      <3>2. <<r, L + a>> = <<r, L + b>>
        BY <1>1, <1>6, <3>1
      <3>3. L + a = L + b
        BY <3>2
      <3> QED BY <1>1, <3>1, <3>3
    <2>3. CASE i \in 1 .. K /\ \E a \in 1 .. m : j = K + a
      <3>1. PICK a \in 1 .. m : j = K + a
        BY <2>3
      <3>2. order[r][i] = <<r, L + a>>
        BY <1>1, <1>2, <1>6, <2>3, <3>1
      <3> QED BY <1>3, <2>3, <3>2
    <2>4. CASE j \in 1 .. K /\ \E a \in 1 .. m : i = K + a
      <3>1. PICK a \in 1 .. m : i = K + a
        BY <2>4
      <3>2. order[r][j] = <<r, L + a>>
        BY <1>1, <1>2, <1>6, <2>4, <3>1
      <3> QED BY <1>3, <2>4, <3>2
    <2> QED BY <1>5, <2>1, <2>2, <2>3, <2>4
  <1>7. Distinct(order'[r])
    BY <1>1, <1>6 DEF Distinct
  <1>8. \A d \in Drives : Distinct(order'[d])
    BY <1>1, <1>7 DEF DistinctInv
  <1> QED BY <1>8 DEF DistinctInv, Distinct

\* What is known is as many nodes as the order is long.
LEMMA KnownCount ==
    ASSUME Inv, NEW d \in Drives, Distinct(order[d])
    PROVE  /\ IsFiniteSet(Elements(order[d]))
           /\ Cardinality(Elements(order[d])) = Len(order[d])
  <1> DEFINE K == Len(order[d])
             S == Elements(order[d])
  <1>1. order[d] \in Seq(LogIds) /\ K \in Nat /\ DOMAIN order[d] = 1 .. K
    BY OrderIds
  <1>2. S = {order[d][i] : i \in 1 .. K}
    BY <1>1 DEF Elements
  <1>3. order[d] = [i \in 1 .. K |-> order[d][i]]
    BY <1>1
  <1> HIDE DEF S
  <1>4. order[d] \in Surjection(1 .. K, S) /\ order[d] \in Injection(1 .. K, S)
    <2>1. order[d] \in [1 .. K -> S]
      BY <1>2, <1>3
    <2>2. \A x \in S : \E i \in 1 .. K : order[d][i] = x
      BY <1>2
    <2>3. \A i, j \in 1 .. K : order[d][i] = order[d][j] => i = j
      BY DEF Distinct
    <2> QED BY <2>1, <2>2, <2>3 DEF Surjection, Injection, IsInjective
  <1>5. IsFiniteSet(1 .. K) /\ Cardinality(1 .. K) = K
    BY <1>1, FS_Interval
  <1> HIDE DEF K
  <1> QED BY <1>4, <1>5, FS_Surjection DEF S, K

\* A batch that is delivered is new, so what is linearised is as many nodes as
\* the new order is long.
LEMMA DeliverDistinct ==
    ASSUME Inv, CausalInv, DistinctInv, ChainInv,
           NEW r \in Drives, NEW w \in Drives, Deliver(r, w)
    PROVE  DistinctInv'
  <1> DEFINE known == Elements(order[r])
             K == Len(order[r])
  <1>1. PICK n \in LogIds :
           /\ n[2] = Node(n).first /\ n \notin known
           /\ \E o \in [1 .. K + Cardinality(BatchOf(n)) -> known \cup BatchOf(n)] :
                 /\ Elements(o) = known \cup BatchOf(n)
                 /\ Reorder(r, o)
    BY DEF Deliver
  <1> DEFINE B == BatchOf(n)
             all == known \cup B
  <1>2. PICK o \in [1 .. K + Cardinality(B) -> all] : Elements(o) = all /\ Reorder(r, o)
    BY <1>1
  <1>3. order' = [order EXCEPT ![r] = o]
    BY <1>2 DEF Reorder
  <1>4. order'[r] = o /\ \A c \in Drives \ {r} : order'[c] = order[c]
    BY <1>3 DEF Inv, TypeInv
  <1>5. B \cap known = {}
    <2> SUFFICES ASSUME NEW x \in B, x \in known PROVE FALSE
      OBVIOUS
    <2>1. x # n
      BY <1>1
    <2>2. n \in Past(x)
      BY <1>1, <2>1 DEF ChainInv, Chained
    <2>3. PICK j \in 1 .. K : order[r][j] = x
      BY OrderIds DEF Elements
    <2>4. PICK i \in 1 .. j - 1 : order[r][i] = n
      BY <2>2, <2>3 DEF CausalInv, Causal
    <2>5. i \in DOMAIN order[r]
      BY OrderIds
    <2> QED BY <1>1, <2>4, <2>5 DEF Elements
  <1>6. IsFiniteSet(B)
    <2>1. Node(n) \in NodeRecords
      BY LogIdsAre DEF Inv
    <2>2. Node(n).first \in Int /\ Node(n).last \in Int
      BY <2>1 DEF NodeRecords
    <2>3. IsFiniteSet(Node(n).first .. Node(n).last) /\ IsFiniteSet({n[1]})
      BY <2>2, FS_Interval, FS_Singleton
    <2> QED BY <2>3, FS_Product DEF BatchOf
  <1>7. IsFiniteSet(known) /\ Cardinality(known) = K /\ K \in Nat
    BY KnownCount, OrderIds DEF DistinctInv
  <1>8. Cardinality(B) \in Nat
    BY <1>6, FS_CardinalityType
  <1> HIDE DEF B, known, K
  <1>9. Cardinality(all) = K + Cardinality(B)
    <2>1. Cardinality(known \cap B) = 0
      <3>1. known \cap B = {}
        BY <1>5
      <3> QED BY <3>1, FS_EmptySet
    <2>2. Cardinality(known \cup B) =
             Cardinality(known) + Cardinality(B) - Cardinality(known \cap B)
      BY <1>6, <1>7, FS_Union
    <2> QED BY <1>7, <1>8, <2>1, <2>2
  <1> DEFINE N == K + Cardinality(B)
  <1>10. N \in Nat /\ IsFiniteSet(1 .. N) /\ Cardinality(1 .. N) = N
    <2>1. N \in Nat
      BY <1>7, <1>8
    <2> HIDE DEF N
    <2> QED BY <2>1, FS_Interval
  <1>11. o \in [1 .. N -> all] /\ Cardinality(all) = N /\ Elements(o) = all
    BY <1>2, <1>9
  <1> HIDE DEF N, all
  <1>12. o \in Surjection(1 .. N, all)
    <2>1. \A x \in all : \E i \in 1 .. N : o[i] = x
      BY <1>11 DEF Elements
    <2> QED BY <1>11, <2>1 DEF Surjection
  <1>13. o \in Injection(1 .. N, all)
    BY <1>10, <1>11, <1>12, FS_SurjSameCardinalityImpliesInj
  <1>14. Len(o) = N
    BY <1>10, <1>11
  <1>15. Distinct(o)
    BY <1>11, <1>13, <1>14 DEF Injection, IsInjective, Distinct
  <1>16. \A d \in Drives : Distinct(order'[d])
    BY <1>4, <1>15 DEF DistinctInv
  <1> QED BY <1>16 DEF DistinctInv, Distinct

\* The nodes of an append link to the first of them.
LEMMA AppendChained ==
    ASSUME Inv, ChainInv, NodesStay,
           NEW r \in Drives, NEW s \in Sessions, AppendQueue(r, s), NEW n \in LogIds'
    PROVE  Chained(n)'
  <1> DEFINE e == log'[n[1]][n[2]]
             B == {n[1]} \X (e.first .. e.last)
  <1>1. Chained(n)' <=> (n[2] = e.first => \A x \in B \ {n} : n \in NextPast(x))
    BY DEF Chained, BatchOf, Node, Past, NextPast
  <1> SUFFICES ASSUME n[2] = e.first, NEW x \in B \ {n}
               PROVE  n \in NextPast(x)
    BY <1>1
  <1>2. CASE n \in LogIds
    <2>1. e = Node(n)
      BY <1>2, PastStays DEF Node
    <2>2. B = BatchOf(n)
      BY <2>1 DEF BatchOf
    <2>3. x \in LogIds
      BY <1>2, <2>2, BatchIds
    <2>4. NextPast(x) = Past(x)
      BY <2>3, PastStays
    <2> HIDE DEF e, B
    <2>5. Chained(n) /\ n[2] = Node(n).first
      BY <1>2, <2>1 DEF ChainInv
    <2> QED BY <2>2, <2>4, <2>5 DEF Chained
  <1>3. CASE n \notin LogIds
    <2> DEFINE m == Len(queue[r][s])
               L == Len(log[r])
               K == Elements(order[r])
    <2>1. m \in Nat /\ L \in Nat
      BY AppendNodes
    <2>2. \A i \in 1 .. m :
             log'[r][L + i] = [op    |-> queue[r][s][i],
                               past  |-> K \cup {r} \X (L + 1 .. L + i - 1),
                               first |-> L + 1,
                               last  |-> L + m]
      BY AppendNodes, Zenon
    <2>3. PICK i \in 1 .. m : n = <<r, L + i>>
      BY <1>3, AppendNodes, ZenonT(60)
    <2> HIDE DEF m, L, K
    <2>4. e = log'[r][L + i]
      BY <2>3
    <2>5. e.first = L + 1 /\ e.last = L + m
      <3> DEFINE u == K \cup {r} \X (L + 1 .. L + i - 1)
      <3>1. e = [op |-> queue[r][s][i], past |-> u, first |-> L + 1, last |-> L + m]
        BY <2>2, <2>4
      <3> HIDE DEF e, u
      <3> QED BY <3>1
    <2> HIDE DEF e
    <2>6. n = <<r, L + 1>>
      BY <2>1, <2>3, <2>5
    <2>7. B = {r} \X (L + 1 .. L + m)
      BY <2>3, <2>5
    <2>8. PICK a \in 1 .. m : x = <<r, L + a>> /\ a # 1
      <3>1. PICK b \in L + 1 .. L + m : x = <<r, b>>
        BY <2>7
      <3>2. b - L \in 1 .. m /\ b = L + (b - L)
        BY <2>1
      <3>3. b - L # 1
        BY <2>1, <2>6, <3>1, <3>2
      <3> QED BY <3>1, <3>2, <3>3
    <2> HIDE DEF B
    <2>9. NextPast(x) = K \cup {r} \X (L + 1 .. L + a - 1)
      <3> DEFINE u == K \cup {r} \X (L + 1 .. L + a - 1)
      <3>1. log'[r][L + a] = [op |-> queue[r][s][a], past |-> u, first |-> L + 1, last |-> L + m]
        BY <2>2
      <3> HIDE DEF u
      <3>2. (log'[r][L + a]).past = u
        BY <3>1
      <3> QED BY <2>8, <3>2 DEF u, NextPast
    <2>10. L + 1 \in L + 1 .. L + a - 1
      BY <2>1, <2>8
    <2> QED BY <2>6, <2>9, <2>10
  <1> QED BY <1>2, <1>3

\* At first there are no nodes.
LEMMA LineInit ==
    ASSUME Init
    PROVE  LineInv
  <1>1. DistinctInv
    <2>1. \A d \in Drives : Len(order[d]) = 0
      BY DEF Init
    <2> QED BY <2>1 DEF DistinctInv, Distinct
  <1>2. ChainInv
    <2>1. \A d \in Drives : Len(log[d]) = 0
      BY DEF Init
    <2>2. LogIds = {}
      BY <2>1 DEF LogIds
    <2> QED BY <2>2 DEF ChainInv
  <1>3. BelowInv
    <2> SUFFICES ASSUME NEW d \in Drives, NEW k \in 1 .. Len(db[d])
                 PROVE  ConflictsBelow(db[d][k])
      BY DEF BelowInv
    <2>1. db[d] = <<EmptyView(Founders)>>
      BY DEF Init
    <2>2. db[d][k] = EmptyView(Founders)
      BY <2>1
    <2>3. \A p \in Paths : EmptyView(Founders).conflicts[p] = NoKeys
      BY DEF EmptyView
    <2>4. DOMAIN NoKeys = {}
      BY NoKeysType
    <2> QED BY <2>2, <2>3, <2>4 DEF ConflictsBelow
  <1> QED BY <1>1, <1>2, <1>3 DEF LineInv

\* The strengthening is inductive.
LEMMA LineNext ==
    ASSUME Inv, CausalInv, LineInv, [Next]_vars
    PROVE  LineInv'
  <1>1. NodesStay /\ BelowInv /\ DistinctInv /\ ChainInv
    BY StepShape DEF LineInv
  <1>2. ASSUME log' = log PROVE ChainInv'
    <2>1. LogIds' = LogIds
      BY <1>2 DEF LogIds
    <2>2. \A n : Chained(n)' <=> Chained(n)
      BY <1>2 DEF Chained, BatchOf, Node, Past
    <2> QED BY <1>1, <2>1, <2>2 DEF ChainInv
  <1>3. ASSUME order' = order PROVE DistinctInv'
    BY <1>1, <1>3 DEF DistinctInv, Distinct
  <1>4. ASSUME UNCHANGED <<log, order>> PROVE DistinctInv' /\ ChainInv'
    BY <1>2, <1>3, <1>4
  <1>5. ASSUME NEW r \in Drives, NEW s \in Sessions, AppendQueue(r, s)
        PROVE  DistinctInv' /\ ChainInv'
    BY <1>1, <1>5, AppendDistinct, AppendChained DEF ChainInv
  <1>6. ASSUME NEW r \in Drives, NEW w \in Drives, Deliver(r, w)
        PROVE  DistinctInv' /\ ChainInv'
    <2>1. log' = log
      BY <1>6 DEF Deliver
    <2> QED BY <1>1, <1>2, <1>6, <2>1, DeliverDistinct
  <1>7. ASSUME NEW r \in Drives, NEW s \in Sessions, Request(r, s)
        PROVE  UNCHANGED <<log, order>>
    BY <1>7 DEF Request, Put, Del, Resolve, WriteStream, Symlink, Admit, Enqueue
  <1>8. ASSUME NEW r \in Drives, NEW s \in Sessions, Submit(r, s)
        PROVE  AppendQueue(r, s) \/ UNCHANGED <<log, order>>
    BY <1>8 DEF Submit, AppendCall, RejectCall, Flush, FlushEmpty, FlushDone
  <1>9. ASSUME NEW r \in Drives, ApplyNext(r) \/ Restart(r) PROVE UNCHANGED <<log, order>>
    BY <1>9 DEF ApplyNext, Restart
  <1>10. BelowInv'
    BY <1>1, BelowNext
  <1>11. DistinctInv' /\ ChainInv'
    <2>1. ASSUME Next PROVE DistinctInv' /\ ChainInv'
      BY <1>4, <1>5, <1>6, <1>7, <1>8, <1>9, <2>1 DEF Next, Sync
    <2>2. ASSUME UNCHANGED vars PROVE DistinctInv' /\ ChainInv'
      BY <1>4, <2>2 DEF vars
    <2> QED BY <2>1, <2>2
  <1> QED BY <1>10, <1>11 DEF LineInv

-----------------------------------------------------------------------------
(***************************************************************************)
(* The states of Autodrive as states of SharedFiles.                       *)
(***************************************************************************)
Written == {[name |-> n, request |-> Requested(Op(n))] : n \in LogIds}
Lines == [r \in Drives |-> Line(r)]

LineAt(d, i) == [by    |-> IF i = 1 THEN Nobody ELSE order[d][i - 1],
                 files |-> FileSystem(db[d][i])]

\* The line of a replica has a state for each of its views.
LEMMA LineIs ==
    ASSUME Inv, NEW d \in Drives
    PROVE  /\ Len(db[d]) \in Nat \ {0}
           /\ Line(d) = [i \in 1 .. Len(db[d]) |-> LineAt(d, i)]
           /\ Len(Line(d)) = Len(db[d])
           /\ DOMAIN Line(d) = 1 .. Len(db[d])
           /\ Line(d) \in Seq({Line(d)[i] : i \in 1 .. Len(db[d])})
           /\ Lines[d] = Line(d)
  <1> DEFINE K == Len(db[d])
             S == {Line(d)[i] : i \in 1 .. K}
  <1>1. K \in Nat \ {0} /\ DOMAIN db[d] = 1 .. K
    BY LenProperties DEF Inv, TypeInv, PrefixInv
  <1>2. Line(d) = [i \in 1 .. K |-> LineAt(d, i)]
    BY <1>1 DEF Line, LineAt
  <1>3. Lines[d] = Line(d)
    BY DEF Lines
  <1> HIDE DEF K
  <1>4. \A i \in 1 .. K : Line(d)[i] \in S
    OBVIOUS
  <1>5. Line(d) = [i \in 1 .. K |-> Line(d)[i]]
    BY <1>2
  <1> HIDE DEF S
  <1>6. Line(d) \in [1 .. K -> S]
    BY <1>4, <1>5
  <1>7. Line(d) \in Seq(S) /\ Len(Line(d)) = K /\ DOMAIN Line(d) = 1 .. K
    BY <1>1, <1>6
  <1> QED BY <1>1, <1>2, <1>3, <1>7 DEF S, K

\* A function on a first part of the places of a sequence.
LEMMA PrefixIs ==
    ASSUME NEW S, NEW s \in Seq(S), NEW k \in 1 .. Len(s)
    PROVE  [i \in 1 .. k |-> s[i]] = SubSeq(s, 1, k)
  <1> DEFINE t == [i \in 1 .. k |-> s[i]]
  <1>1. Len(s) \in Nat /\ \A i \in 1 .. Len(s) : s[i] \in S
    BY LenProperties
  <1>2. k \in Nat /\ \A i \in 1 .. k : i \in 1 .. Len(s)
    BY <1>1
  <1>3. t \in Seq(S) /\ Len(t) = k /\ \A i \in 1 .. k : t[i] = s[i]
    <2>1. t \in [1 .. k -> S]
      BY <1>1, <1>2
    <2> HIDE DEF t
    <2>2. t \in Seq(S) /\ Len(t) = k
      BY <1>2, <2>1
    <2> QED BY <2>2 DEF t
  <1>4. /\ SubSeq(s, 1, k) \in Seq(S) /\ Len(SubSeq(s, 1, k)) = k
        /\ \A i \in 1 .. k : SubSeq(s, 1, k)[i] = s[i]
    BY <1>1, <1>2
  <1> HIDE DEF t
  <1>5. t = SubSeq(s, 1, k)
    BY <1>3, <1>4, SeqEqual
  <1> QED BY <1>5 DEF t

\* A replica that keeps a part of its views goes back to that part of its line.
LEMMA KeptLine ==
    ASSUME Inv, Inv', NEW d \in Drives, Keeps(d)
    PROVE  /\ Len(db'[d]) \in DOMAIN Line(d)
           /\ Line(d)' = SubSeq(Line(d), 1, Len(db'[d]))
  <1> DEFINE k == Len(db'[d])
             K == Len(db[d])
  <1>1. K \in Nat \ {0} /\ k \in Nat \ {0} /\ k <= K
    BY LineIs DEF Keeps, Inv, TypeInv, PrefixInv
  <1>2. /\ \A i \in 1 .. k : db'[d][i] = db[d][i]
        /\ \A i \in 1 .. k - 1 : order'[d][i] = order[d][i]
    BY DEF Keeps
  <1>3. DOMAIN db'[d] = 1 .. k
    BY DEF Inv, TypeInv
  <1>4. Line(d)' = [i \in 1 .. k |->
                       [by    |-> IF i = 1 THEN Nobody ELSE order'[d][i - 1],
                        files |-> FileSystem(db'[d][i])]]
    BY <1>3 DEF Line, Nobody
  <1>5. /\ Line(d) = [i \in 1 .. K |-> LineAt(d, i)] /\ Len(Line(d)) = K
        /\ DOMAIN Line(d) = 1 .. K
        /\ Line(d) \in Seq({Line(d)[i] : i \in 1 .. K})
    BY LineIs
  <1> HIDE DEF k, K
  <1>6. \A i \in 1 .. k : i \in 1 .. K /\ (i # 1 => i - 1 \in 1 .. k - 1)
    BY <1>1
  <1>7. \A i \in 1 .. k :
           Line(d)[i] = [by    |-> IF i = 1 THEN Nobody ELSE order'[d][i - 1],
                         files |-> FileSystem(db'[d][i])]
    BY <1>2, <1>5, <1>6 DEF LineAt
  <1>8. Line(d)' = [i \in 1 .. k |-> Line(d)[i]]
    BY <1>4, <1>7
  <1>9. k \in 1 .. Len(Line(d))
    BY <1>1, <1>5
  <1>10. [i \in 1 .. k |-> Line(d)[i]] = SubSeq(Line(d), 1, k)
    BY <1>5, <1>9, PrefixIs
  <1> QED BY <1>5, <1>8, <1>9, <1>10 DEF k

\* One that keeps all of them keeps its line.
LEMMA SameLine ==
    ASSUME Inv, Inv', NEW d \in Drives, Keeps(d), Len(db'[d]) = Len(db[d])
    PROVE  Line(d)' = Line(d)
  <1> DEFINE S == {Line(d)[i] : i \in 1 .. Len(db[d])}
             K == Len(db[d])
  <1>1. /\ Line(d) = [i \in 1 .. K |-> Line(d)[i]] /\ Line(d) \in Seq(S)
        /\ K \in 1 .. Len(Line(d))
    BY LineIs
  <1>2. Line(d)' = SubSeq(Line(d), 1, K)
    BY KeptLine
  <1> HIDE DEF S, K
  <1> QED BY <1>1, <1>2, PrefixIs

\* One that applies a node adds a state to its line, by that node.
LEMMA LongerLine ==
    ASSUME Inv, Inv', NEW d \in Drives, Extends(d)
    PROVE  LET K == Len(db[d])
           IN  Line(d)' = Append(Line(d), [by |-> order[d][K], files |-> FileSystem(db'[d][K + 1])])
  <1> DEFINE K == Len(db[d])
             x == [by |-> order[d][K], files |-> FileSystem(db'[d][K + 1])]
             s == Line(d)
             t == [i \in 1 .. K + 1 |->
                      [by    |-> IF i = 1 THEN Nobody ELSE order'[d][i - 1],
                       files |-> FileSystem(db'[d][i])]]
             T == {t[i] : i \in 1 .. K + 1}
  <1>1. /\ order' = order /\ Len(db'[d]) = K + 1
        /\ \A i \in 1 .. K : db'[d][i] = db[d][i]
    BY DEF Extends
  <1>2. DOMAIN db'[d] = 1 .. K + 1
    BY <1>1 DEF Inv, TypeInv
  <1>3. Line(d)' = t
    BY <1>2 DEF Line, Nobody
  <1>4. K \in Nat \ {0} /\ s = [i \in 1 .. K |-> LineAt(d, i)] /\ Len(s) = K /\ DOMAIN s = 1 .. K
    BY LineIs
  <1>5. \A i \in 1 .. K : t[i] = s[i] /\ i \in 1 .. K + 1
    <2>1. \A i \in 1 .. K : i \in 1 .. K + 1
      BY <1>4
    <2>2. \A i \in 1 .. K + 1 : t[i] = [by    |-> IF i = 1 THEN Nobody ELSE order'[d][i - 1],
                                     files |-> FileSystem(db'[d][i])]
      OBVIOUS
    <2>3. \A i \in 1 .. K : s[i] = [by    |-> IF i = 1 THEN Nobody ELSE order[d][i - 1],
                                 files |-> FileSystem(db[d][i])]
      BY <1>4 DEF LineAt
    <2> HIDE DEF s, t, K, x, T
    <2>4. ASSUME NEW i \in 1 .. K PROVE t[i] = s[i]
      <3>1. db'[d][i] = db[d][i] /\ order' = order
        BY <1>1
      <3>2. t[i] = [by |-> IF i = 1 THEN Nobody ELSE order'[d][i - 1], files |-> FileSystem(db'[d][i])]
        BY <2>1, <2>2
      <3>3. s[i] = [by |-> IF i = 1 THEN Nobody ELSE order[d][i - 1], files |-> FileSystem(db[d][i])]
        BY <2>3
      <3> QED BY <3>1, <3>2, <3>3, Zenon
    <2> QED BY <2>1, <2>4
  <1>6. t[K + 1] = x
    <2>1. K + 1 \in 1 .. K + 1 /\ K + 1 # 1 /\ (K + 1) - 1 = K
      BY <1>4
    <2> QED BY <1>1, <2>1
  <1>7. \A i \in 1 .. K + 1 : t[i] \in T
    OBVIOUS
  <1>8. t = [i \in 1 .. K + 1 |-> t[i]] /\ s = [i \in 1 .. K |-> s[i]]
    BY <1>4
  <1> HIDE DEF s, x, t, T, K
  <1>9. K + 1 \in Nat /\ K + 1 \in 1 .. K + 1 /\ K \in Nat
    BY <1>4
  <1>10. t \in Seq(T) /\ Len(t) = K + 1
    <2>1. t \in [1 .. K + 1 -> T]
      BY <1>7, <1>8
    <2> QED BY <1>9, <2>1
  <1>11. s \in Seq(T) /\ Len(s) = K
    <2>1. s \in [1 .. K -> T]
      BY <1>5, <1>7, <1>8
    <2> QED BY <1>9, <2>1
  <1>12. x \in T
    BY <1>6, <1>7, <1>9
  <1>13. /\ Append(s, x) \in Seq(T) /\ Len(Append(s, x)) = K + 1
         /\ \A i \in 1 .. K : Append(s, x)[i] = s[i]
         /\ Append(s, x)[K + 1] = x
    BY <1>11, <1>12, AppendProperties
  <1>14. \A i \in 1 .. K + 1 : t[i] = Append(s, x)[i]
    <2>1. \A i \in 1 .. K + 1 : i \in 1 .. K \/ i = K + 1
      BY <1>9
    <2> QED BY <1>5, <1>6, <1>13, <2>1
  <1>15. t = Append(s, x)
    BY <1>10, <1>13, <1>14, SeqEqual
  <1> QED BY <1>3, <1>15 DEF s, x, K

-----------------------------------------------------------------------------
(***************************************************************************)
(* The steps of Autodrive as steps of SharedFiles.                         *)
(***************************************************************************)
\* What is in the logs are requests.
LEMMA LogsAre == Inv => \A n \in LogIds : Requested(Op(n)) \in Promised!Requests
  <1> SUFFICES ASSUME Inv, NEW n \in LogIds PROVE Requested(Op(n)) \in Promised!Requests
    OBVIOUS
  <1>1. Op(n) \in Ops
    BY NodeParts DEF Inv
  <1> QED BY <1>1, RequestsAre

\* After a step too.
LEMMA LogsAreNext == Inv' => \A n \in LogIds' : Requested(Op(n))' \in Promised!Requests
  <1>1. Inv => \A n \in LogIds : Requested(Op(n)) \in Promised!Requests
    BY LogsAre
  <1>2. Inv' => (\A n \in LogIds : Requested(Op(n)) \in Promised!Requests)'
    BY <1>1, PTL
  <1>3. Promised!Requests' = Promised!Requests
    BY DEF Promised!Requests
  <1> QED BY <1>2, <1>3

\* What is appended is written, under names that were not there.
LEMMA WriteStep ==
    ASSUME Inv, Inv', NEW r \in Drives, NEW s \in Sessions, AppendQueue(r, s)
    PROVE  Promised!Write
  <1>1. NodesStay /\ \A d \in Drives : Keeps(d) /\ Len(db'[d]) = Len(db[d])
    BY AppendKeeps
  <1>2. \A d \in Drives : Line(d)' = Line(d)
    BY <1>1, SameLine
  <1>3. Lines' = Lines
    BY <1>2 DEF Lines
  <1>4. \A n \in LogIds : Op(n)' = Op(n)
    BY <1>1 DEF NodesStay, Op
  <1>5. Written \subseteq Written'
    <2> SUFFICES ASSUME NEW n \in LogIds
                 PROVE  [name |-> n, request |-> Requested(Op(n))] \in Written'
      BY DEF Written
    <2>1. n \in LogIds' /\ Requested(Op(n))' = Requested(Op(n))
      BY <1>1, <1>4 DEF NodesStay
    <2> QED BY <2>1 DEF Written
  <1>6. \A e \in Written' : \E n \in LogIds' : e = [name |-> n, request |-> Requested(Op(n))']
    BY DEF Written
  <1>7. \A e \in Written' :
           /\ e.request \in Promised!Requests
           /\ \A d \in Written' : d.name = e.name => d = e
    BY <1>6, LogsAreNext
  <1> QED BY <1>3, <1>5, <1>7 DEF Promised!Write, Written, Lines

\* A node that is applied is taken up, for the first time.
LEMMA TakeStep ==
    ASSUME Inv, Inv', LineInv, NEW r \in Drives, ApplyNext(r)
    PROVE  Promised!Take(r)
  <1> DEFINE K == Len(db[r])
             n == order[r][K]
             v == db[r][K]
             fs == FileSystem(db'[r][K + 1])
             e == [name |-> n, request |-> Requested(Op(n))]
  <1>1. /\ log' = log /\ order' = order /\ Extends(r)
        /\ \A d \in Drives \ {r} : db'[d] = db[d]
    BY AppliedExtends
  <1>2. /\ db'[r][K + 1] = Apply(v, n, Op(n), Seen(order[r], K))
        /\ K \in 1 .. Len(order[r])
    BY <1>1 DEF Extends
  <1>3. n \in LogIds /\ n \in Nodes /\ Op(n) \in Ops
    BY <1>2, OrderIds, NodeParts DEF Inv
  <1>4. /\ K \in Nat \ {0} /\ Lines[r] = Line(r)
        /\ Line(r) = [i \in 1 .. K |-> LineAt(r, i)] /\ Len(Line(r)) = K
        /\ DOMAIN Line(r) = 1 .. K
    BY LineIs
  <1>5. ViewInv(v) /\ ConflictsBelow(v)
    <2>1. K \in 1 .. K
      BY <1>4
    <2> QED BY <2>1 DEF Inv, ViewsInv, LineInv, BelowInv
  <1>6. fs \in Promised!Successors(FileSystem(v), n, Requested(Op(n)))
    BY <1>2, <1>3, <1>5, ApplySucceeds
  <1>7. e \in Written
    BY <1>3 DEF Written
  <1>8. \A i \in DOMAIN Lines[r] : Lines[r][i].by # n
    <2> SUFFICES ASSUME NEW i \in 1 .. K PROVE LineAt(r, i).by # n
      BY <1>4
    <2>1. CASE i = 1
      <3>1. Nobody \notin Nodes
        BY DEF Nobody, Nodes
      <3> QED BY <1>3, <2>1, <3>1 DEF LineAt
    <2>2. CASE i # 1
      <3>1. i - 1 \in 1 .. Len(order[r]) /\ i - 1 # K
        BY <1>2, <1>4, <2>2
      <3>2. Distinct(order[r])
        BY DEF LineInv, DistinctInv
      <3>3. order[r][i - 1] # order[r][K]
        BY <1>2, <3>1, <3>2 DEF Distinct
      <3> QED BY <2>2, <3>3 DEF LineAt
    <2> QED BY <2>1, <2>2
  <1>9. Promised!Last(Lines[r]).files = FileSystem(v)
    <2>1. K \in 1 .. K
      BY <1>4
    <2>2. Line(r)[K].files = FileSystem(v)
      BY <1>4, <2>1 DEF LineAt
    <2> QED BY <1>4, <2>2 DEF Promised!Last
  <1>10. Lines' = [Lines EXCEPT ![r] = Append(Lines[r], [by |-> n, files |-> fs])]
    <2>1. Line(r)' = Append(Line(r), [by |-> n, files |-> fs])
      BY <1>1, LongerLine
    <2>2. \A d \in Drives \ {r} : Line(d)' = Line(d)
      BY <1>1, UntouchedKeeps, SameLine
    <2>3. Lines = [d \in Drives |-> Line(d)] /\ Lines' = [d \in Drives |-> Line(d)']
      BY DEF Lines
    <2> HIDE DEF K, n, fs
    <2> QED BY <1>4, <2>1, <2>2, <2>3
  <1>11. Written' = Written
    BY <1>1 DEF Written, LogIds, Op, Node
  <1>12. e.name = n /\ e.request = Requested(Op(n))
    OBVIOUS
  <1>13. Promised!Take(r) <=>
            /\ \E x \in Written :
                  /\ \A i \in DOMAIN Lines[r] : Lines[r][i].by # x.name
                  /\ \E f \in Promised!Successors(Promised!Last(Lines[r]).files, x.name, x.request) :
                        Lines' = [Lines EXCEPT ![r] = Append(Lines[r], [by |-> x.name, files |-> f])]
            /\ Written' = Written
    BY DEF Promised!Take, Written, Lines
  <1> HIDE DEF K, n, v, fs, e
  <1> QED BY <1>6, <1>7, <1>8, <1>9, <1>10, <1>11, <1>12, <1>13

\* A replica that undoes goes back on its line.
LEMMA ReturnStep ==
    ASSUME Inv, Inv', NEW r \in Drives, Restart(r) \/ \E w \in Drives : Deliver(r, w)
    PROVE  Promised!Return(r)
  <1> DEFINE k == Len(db'[r])
  <1>1. /\ log' = log /\ Keeps(r)
        /\ \A d \in Drives \ {r} : db'[d] = db[d] /\ order'[d] = order[d]
    BY UndoneKeeps
  <1>2. k \in DOMAIN Line(r) /\ Line(r)' = SubSeq(Line(r), 1, k)
    BY <1>1, KeptLine
  <1>3. \A d \in Drives \ {r} : Line(d)' = Line(d)
    BY <1>1, UntouchedKeeps, SameLine
  <1>4. Lines = [d \in Drives |-> Line(d)] /\ Lines' = [d \in Drives |-> Line(d)']
    BY DEF Lines
  <1>5. Written' = Written
    BY <1>1 DEF Written, LogIds, Op, Node
  <1> HIDE DEF k
  <1>6. k \in DOMAIN Lines[r] /\ Lines' = [Lines EXCEPT ![r] = SubSeq(Lines[r], 1, k)]
    BY <1>2, <1>3, <1>4
  <1>7. Promised!Return(r) <=>
           /\ \E i \in DOMAIN Lines[r] : Lines' = [Lines EXCEPT ![r] = SubSeq(Lines[r], 1, i)]
           /\ Written' = Written
    BY DEF Promised!Return, Written, Lines
  <1> QED BY <1>5, <1>6, <1>7

\* Calls that leave operations waiting, and what becomes of a session, are
\* nothing others could tell.
LEMMA HiddenStep ==
    ASSUME UNCHANGED <<log, order, db>>
    PROVE  UNCHANGED Promised!vars
  <1>1. Written' = Written
    BY DEF Written, LogIds, Op, Node
  <1>2. Lines' = Lines
    BY DEF Lines, Line
  <1> QED BY <1>1, <1>2 DEF Promised!vars, Written, Lines

\* Every step of Autodrive is one of SharedFiles or changes nothing it speaks of.
LEMMA StepMaps ==
    ASSUME Inv, Inv', LineInv, [Next]_vars
    PROVE  [Promised!Next]_(Promised!vars)
  <1>1. ASSUME NEW r \in Drives, NEW s \in Sessions, Request(r, s)
        PROVE  UNCHANGED <<log, order, db>>
    BY <1>1 DEF Request, Put, Del, Resolve, WriteStream, Symlink, Admit, Enqueue
  <1>2. ASSUME NEW r \in Drives, NEW s \in Sessions, Submit(r, s)
        PROVE  AppendQueue(r, s) \/ UNCHANGED <<log, order, db>>
    BY <1>2 DEF Submit, AppendCall, RejectCall, Flush, FlushEmpty, FlushDone
  <1>3. ASSUME NEW r \in Drives, NEW s \in Sessions, AppendQueue(r, s) PROVE Promised!Next
    BY <1>3, WriteStep DEF Promised!Next
  <1>4. ASSUME NEW r \in Drives, ApplyNext(r) PROVE Promised!Next
    BY <1>4, TakeStep DEF Promised!Next
  <1>5. ASSUME NEW r \in Drives, Restart(r) \/ \E w \in Drives : Deliver(r, w)
        PROVE  Promised!Next
    BY <1>5, ReturnStep DEF Promised!Next
  <1>6. CASE UNCHANGED vars
    BY <1>6, HiddenStep DEF vars
  <1> QED BY <1>1, <1>2, <1>3, <1>4, <1>5, <1>6, HiddenStep DEF Next, Sync

\* New drives are blank.
LEMMA InitMaps ==
    ASSUME Init
    PROVE  Promised!Init
  <1>1. LogIds = {}
    <2>1. \A d \in Drives : Len(log[d]) = 0
      BY DEF Init
    <2> QED BY <2>1 DEF LogIds
  <1>2. Written = {}
    BY <1>1 DEF Written
  <1>3. FileSystem(EmptyView(Founders)) = [p \in Paths |-> Promised!Blank]
    <2> DEFINE v == EmptyView(Founders)
    <2>1. ASSUME NEW p \in Paths PROVE PathOf(v, p) = Promised!Blank
      <3>1. v.files = NoKeys /\ v.history[p] = NoKeys /\ v.conflicts[p] = NoKeys
        BY DEF EmptyView
      <3>2. DOMAIN NoKeys = {}
        BY NoKeysType
      <3>3. FileOf(v, p) = Nobody /\ RivalsOf(v, p) = {}
        BY <3>1, <3>2 DEF FileOf, RivalsOf
      <3>4. VersionCount(v.history[p]) = 0
        BY <3>1, <3>2, FS_EmptySet DEF VersionCount
      <3>5. VersionsOf(v, p) = << >>
        BY <3>4 DEF VersionsOf
      <3> QED BY <3>3, <3>5 DEF PathOf, Promised!Blank
    <2>2. FileSystem(v) = [p \in Paths |-> PathOf(v, p)]
      BY FileSystemIs DEF PathOf
    <2> HIDE DEF v
    <2>3. FileSystem(v) = [p \in Paths |-> Promised!Blank]
      BY <2>1, <2>2
    <2> QED BY <2>3 DEF v
  <1>4. ASSUME NEW d \in Drives
        PROVE  Line(d) = <<[by |-> Nobody, files |-> [p \in Paths |-> Promised!Blank]]>>
    <2>1. db[d] = <<EmptyView(Founders)>>
      BY DEF Init
    <2>2. DOMAIN db[d] = 1 .. 1 /\ db[d][1] = EmptyView(Founders)
      BY <2>1
    <2>3. Line(d) = [i \in 1 .. 1 |-> LineAt(d, i)]
      BY <2>2 DEF Line, LineAt
    <2>4. LineAt(d, 1) = [by |-> Nobody, files |-> [p \in Paths |-> Promised!Blank]]
      BY <1>3, <2>2 DEF LineAt
    <2> QED BY <2>3, <2>4
  <1>5. Lines = [r \in Drives |-> <<[by |-> Nobody, files |-> [p \in Paths |-> Promised!Blank]]>>]
    BY <1>4 DEF Lines
  <1> QED BY <1>2, <1>5 DEF Promised!Init, Written, Lines

\* A drive is a file system its writers share: whatever is delivered, undone,
\* queued or restarted, each database a replica goes through stands for a state
\* SharedFiles allows after the one before it.
THEOREM DrivesAreShared == Spec => ImplementsSharedFiles
  <1> DEFINE I == Inv /\ FoundInv /\ LineInv
  <1>1. Init => I
    BY InitInv, FoundInit, LineInit
  <1>2. I /\ [Next]_vars => I'
    BY NextInv, FoundNext, LineNext DEF FoundInv
  <1>3. Init => Promised!Init
    BY InitMaps
  <1>4. I /\ I' /\ [Next]_vars => [Promised!Next]_(Promised!vars)
    BY StepMaps
  <1> HIDE DEF I
  <1> QED BY <1>1, <1>2, <1>3, <1>4, PTL DEF Spec, ImplementsSharedFiles, Promised!Spec
=============================================================================
