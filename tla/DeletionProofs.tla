--------------------------- MODULE DeletionProofs ---------------------------
(***************************************************************************)
(* What is deleted was there: on every replica and in every order, the     *)
(* path of a deletion has a record by the time apply() comes to it.        *)
(*                                                                         *)
(* A path has a record exactly if an addition to it is among the nodes     *)
(* applied, whatever became of that addition.  del() has seen a record, so *)
(* its replica has linearised an addition, to which the deletion links     *)
(* when it is appended; and every order holds what a node links to before  *)
(* the node.  So a deletion is never ignored for want of a record, and a   *)
(* handler that does not ignore it leaves no file, except in a conflict or *)
(* for an author of another namespace.                                     *)
(***************************************************************************)
EXTENDS ReplicaProofs

Adds(n, p) == Op(n).type = "addition" /\ Op(n).path = p

-----------------------------------------------------------------------------
(***************************************************************************)
(* Which paths have a record.                                              *)
(***************************************************************************)
\* A record that is filed gives its path one, and no other path.
LEMMA FiledRecords ==
    ASSUME NEW v \in Views, NEW q \in Paths, NEW n \in Nodes, NEW t, NEW p \in Paths
    PROVE  Recorded(PutHistory(v, q, t, n), p) <=> Recorded(v, p) \/ p = q
  <1> DEFINE k == Version(v) - 1
             g == With(v.history[q], k, [type |-> t, source |-> Source(n)])
  <1>1. v.history \in [Paths -> PartialMaps(Versions, Records)]
    BY DEF Views
  <1>2. PutHistory(v, q, t, n).history = [v.history EXCEPT ![q] = g]
    BY DEF PutHistory, Views
  <1>3. DOMAIN g = DOMAIN v.history[q] \cup {k}
    BY DEF With
  <1> HIDE DEF g, k
  <1>4. CASE p = q
    BY <1>1, <1>2, <1>3, <1>4 DEF Recorded
  <1>5. CASE p # q
    <2>1. PutHistory(v, q, t, n).history[p] = v.history[p]
      BY <1>1, <1>2, <1>5
    <2> QED BY <1>5, <2>1 DEF Recorded
  <1> QED BY <1>4, <1>5

\* So does one that is filed with a file put or deleted.
LEMMA FileRecords ==
    ASSUME NEW v \in Views, NEW q \in Paths, NEW n \in Nodes, NEW p \in Paths
    PROVE  /\ Recorded(PutHistory(PutFile(v, q, n), q, "file", n), p)
                 <=> Recorded(v, p) \/ p = q
           /\ Recorded(PutHistory(DelFile(v, q, n), q, "tombstone", n), p)
                 <=> Recorded(v, p) \/ p = q
  <1> DEFINE u == PutFile(v, q, n)
             d == DelFile(v, q, n)
  <1>1. u \in Views /\ u.history = v.history
    BY PutFileIs
  <1>2. d \in Views /\ d.history = v.history
    BY DelFileIs
  <1> HIDE DEF u, d
  <1>3. Recorded(u, p) <=> Recorded(v, p)
    BY <1>1 DEF Recorded
  <1>4. Recorded(d, p) <=> Recorded(v, p)
    BY <1>2 DEF Recorded
  <1>5. Recorded(PutHistory(u, q, "file", n), p) <=> Recorded(u, p) \/ p = q
    BY <1>1, FiledRecords
  <1>6. Recorded(PutHistory(d, q, "tombstone", n), p) <=> Recorded(d, p) \/ p = q
    BY <1>2, FiledRecords
  <1> QED BY <1>3, <1>4, <1>5, <1>6 DEF u, d

\* An addition leaves its path with a record, even if it is denied or put aside.
LEMMA AdditionRecords ==
    ASSUME NEW v, ViewInv(v), NEW n \in Nodes, NEW q \in Paths, NEW seen,
           NEW p \in Paths
    PROVE  Recorded(AdditionOp(v, n, q, seen), p) <=> Recorded(v, p) \/ p = q
  <1> DEFINE outcome == AdditionOutcome(v, q, Source(n), seen)
  <1>1. v \in Views
    BY DEF ViewInv
  <1>2. CASE outcome = "conflict"
    <2>1. Recorded(v, q)
      BY <1>2 DEF AdditionOutcome, Conflicting, ViewInv, ConflictsHaveRecord
    <2>2. PutConflict(v, q, n).history = v.history
      BY <1>1, PutConflictIs
    <2>3. Recorded(PutConflict(v, q, n), p) <=> Recorded(v, p)
      BY <2>2 DEF Recorded
    <2> QED BY <1>2, <2>1, <2>3 DEF AdditionOp
  <1>3. CASE outcome = "applied"
    <2>1. AdditionOp(v, n, q, seen) = PutHistory(PutFile(v, q, n), q, "file", n)
      BY <1>3 DEF AdditionOp
    <2> QED BY <1>1, <2>1, FileRecords
  <1>4. CASE outcome = "denied"
    <2>1. Recorded(v, q)
      BY <1>4 DEF AdditionOutcome
    <2> QED BY <1>4, <2>1 DEF AdditionOp
  <1> QED BY <1>2, <1>3, <1>4 DEF AdditionOutcome

\* A deletion only files a record where there is one.
LEMMA DeletionRecords ==
    ASSUME NEW v, ViewInv(v), NEW n \in Nodes, NEW q \in Paths, NEW seen,
           NEW p \in Paths
    PROVE  Recorded(DeletionOp(v, n, q, seen), p) <=> Recorded(v, p)
  <1> DEFINE outcome == DeletionOutcome(v, q, Source(n), seen)
  <1>1. v \in Views
    BY DEF ViewInv
  <1>2. CASE outcome = "conflict"
    <2>1. PutConflict(v, q, n).history = v.history
      BY <1>1, PutConflictIs
    <2>2. Recorded(PutConflict(v, q, n), p) <=> Recorded(v, p)
      BY <2>1 DEF Recorded
    <2> QED BY <1>2, <2>2 DEF DeletionOp
  <1>3. CASE outcome = "applied"
    <2>1. Recorded(v, q)
      BY <1>3 DEF DeletionOutcome
    <2>2. DeletionOp(v, n, q, seen) = PutHistory(DelFile(v, q, n), q, "tombstone", n)
      BY <1>3 DEF DeletionOp
    <2> QED BY <1>1, <2>1, <2>2, FileRecords
  <1>4. CASE outcome \in {"not_found", "denied", "ignored"}
    BY <1>4 DEF DeletionOp
  <1> QED BY <1>2, <1>3, <1>4 DEF DeletionOutcome

\* So does a resolution.
LEMMA ResolutionRecords ==
    ASSUME NEW v, ViewInv(v), NEW n \in Nodes, NEW q \in Paths, NEW file,
           NEW p \in Paths
    PROVE  Recorded(ResolutionOp(v, n, q, file), p) <=> Recorded(v, p)
  <1> DEFINE u == ClearConflicts(v, q, n)
  <1>1. CASE ResolutionOutcome(v, q, Source(n)) # "applied"
    BY <1>1 DEF ResolutionOp
  <1>2. CASE ResolutionOutcome(v, q, Source(n)) = "applied"
    <2>1. Recorded(v, q)
      BY <1>2 DEF ResolutionOutcome
    <2>2. ViewInv(u) /\ u.history = v.history
      BY ClearedInv
    <2> HIDE DEF u
    <2>3. Recorded(u, q) /\ (Recorded(u, p) <=> Recorded(v, p))
      BY <2>1, <2>2 DEF Recorded
    <2>4. u \in Views
      BY <2>2 DEF ViewInv
    <2>5. /\ Recorded(PutHistory(PutFile(u, q, n), q, "file", n), p)
                <=> Recorded(u, p) \/ p = q
          /\ Recorded(PutHistory(DelFile(u, q, n), q, "tombstone", n), p)
                <=> Recorded(u, p) \/ p = q
      BY <2>4, FileRecords
    <2>6. ResolutionOp(v, n, q, file) \in
             {PutHistory(PutFile(u, q, n), q, "file", n),
              PutHistory(DelFile(u, q, n), q, "tombstone", n)}
      BY <1>2 DEF ResolutionOp, u
    <2> QED BY <2>3, <2>5, <2>6
  <1> QED BY <1>1, <1>2

\* Nothing but an addition gives a path its first record, and no addition fails to.
LEMMA ApplyRecords ==
    ASSUME NEW v, ViewInv(v), NEW n \in Nodes, NEW op \in Ops, NEW seen,
           NEW p \in Paths
    PROVE  Recorded(Apply(v, n, op, seen), p)
              <=> Recorded(v, p) \/ (op.type = "addition" /\ op.path = p)
  <1>1. CASE op \in FileOps
    <2>1. op.path \in Paths /\ op.type \in {"addition", "deletion", "resolution"}
      BY <1>1 DEF FileOps
    <2>2. CASE op.type = "addition"
      BY <2>1, <2>2, AdditionRecords DEF Apply
    <2>3. CASE op.type = "deletion"
      BY <2>1, <2>3, DeletionRecords DEF Apply
    <2>4. CASE op.type = "resolution"
      BY <2>1, <2>4, ResolutionRecords DEF Apply
    <2> QED BY <2>1, <2>2, <2>3, <2>4
  <1>2. CASE op \in WriterOps
    <2>1. op.type = "writer"
      BY <1>2 DEF WriterOps
    <2>2. Apply(v, n, op, seen) = WriterOp(v, op.key, op.removed)
      BY <2>1 DEF Apply
    <2>3. WriterOp(v, op.key, op.removed).history = v.history
      BY DEF WriterOp, ViewInv, Views
    <2> QED BY <2>1, <2>2, <2>3 DEF Recorded
  <1> QED BY <1>1, <1>2 DEF Ops

-----------------------------------------------------------------------------
(***************************************************************************)
(* The strengthening.                                                      *)
(***************************************************************************)
\* There is an addition to p among the nodes of S.
Added(S, p) == \E m \in S : Adds(m, p)

\* A view has records at the paths added to before it.
RecordsInv ==
    \A d \in Drives : \A k \in 1 .. Len(db[d]) : \A p \in Paths :
        Recorded(db[d][k], p) <=> \E i \in 1 .. k - 1 : Adds(order[d][i], p)

\* What a node links to comes before it in every order.
Causal(o) == \A j \in 1 .. Len(o) : \A m \in Past(o[j]) : \E i \in 1 .. j - 1 : o[i] = m

\* The nodes of a batch link to what the first one does, and to one another.
BatchPast(n) ==
    n[2] = Node(n).first => \A x \in BatchOf(n) : Past(x) \subseteq Past(n) \cup BatchOf(n)

CausalInv == (\A d \in Drives : Causal(order[d])) /\ (\A n \in LogIds : BatchPast(n))

\* A batch session is tied to a view of what its replica has linearised.
RootsInv ==
    \A d \in Drives, b \in Batches : \A i \in 1 .. Len(root[d][b]) : \A p \in Paths :
        Recorded(root[d][b][i], p) => Added(Elements(order[d]), p)

\* Whose path is deleted by a waiting operation is added to in the order.
WaitingInv ==
    \A d \in Drives, s \in Sessions : \A i \in 1 .. Len(queue[d][s]) :
        queue[d][s][i].type = "deletion" => Added(Elements(order[d]), queue[d][s][i].path)

\* A deletion in a log links to an addition.
LinkedInv ==
    \A n \in LogIds : Op(n).type = "deletion" => Added(Past(n), Op(n).path)

FoundInv == RecordsInv /\ CausalInv /\ RootsInv /\ WaitingInv /\ LinkedInv

\* It is what makes a deletion find a record.
LEMMA DeletionFinds ==
    ASSUME Inv, FoundInv, NEW r \in Drives, NEW k \in 1 .. Applied(r),
           Op(order[r][k]).type = "deletion"
    PROVE  /\ k \in 1 .. Len(db[r])
           /\ order[r][k] \in Nodes /\ Op(order[r][k]).path \in Paths
           /\ Recorded(db[r][k], Op(order[r][k]).path)
  <1> DEFINE n == order[r][k]
             p == Op(n).path
  <1>1. /\ Len(db[r]) \in Nat /\ Len(db[r]) \in 1 .. Len(order[r]) + 1
        /\ order[r] \in Seq(LogIds) /\ Len(order[r]) \in Nat
    BY LenProperties DEF Inv, TypeInv, PrefixInv
  <1>2. k \in 1 .. Len(db[r]) /\ k \in 1 .. Len(order[r])
    BY <1>1 DEF Applied
  <1>3. n \in LogIds
    BY <1>1, <1>2, ElementOfSeq
  <1>4. n \in Nodes /\ Op(n) \in Ops
    BY <1>3, NodeParts DEF Inv
  <1>5. p \in Paths
    BY <1>4 DEF Ops, FileOps, WriterOps
  <1>6. PICK m \in Past(n) : Adds(m, p)
    BY <1>3 DEF FoundInv, LinkedInv, Added
  <1>7. PICK i \in 1 .. k - 1 : order[r][i] = m
    BY <1>2 DEF FoundInv, CausalInv, Causal
  <1>8. \E j \in 1 .. k - 1 : Adds(order[r][j], p)
    BY <1>6, <1>7
  <1> HIDE DEF n, p
  <1>9. Recorded(db[r][k], p)
    BY <1>2, <1>5, <1>8 DEF FoundInv, RecordsInv
  <1> QED BY <1>2, <1>4, <1>5, <1>9 DEF n, p

\* A deletion leaves no file behind, unless it is denied or in conflict.
LEMMA DeletionDeletes ==
    ASSUME NEW v, ViewInv(v), NEW n \in Nodes, NEW p \in Paths, NEW seen,
           Recorded(v, p), p \in DOMAIN DeletionOp(v, n, p, seen).files
    PROVE  InConflict(DeletionOp(v, n, p, seen), p) \/ ~Owned(v, p, Source(n))
  <1> DEFINE outcome == DeletionOutcome(v, p, Source(n), seen)
             w == DeletionOp(v, n, p, seen)
  <1>1. v \in Views
    BY DEF ViewInv
  <1>2. CASE outcome = "not_found"
    <2>1. w = v
      BY <1>2 DEF DeletionOp
    <2>2. p \in DOMAIN v.files /\ Latest(v, p).type = "tombstone"
      BY <1>2, <2>1 DEF DeletionOutcome
    <2> QED BY <2>2 DEF ViewInv, FilesMatchHistory
  <1>3. CASE outcome = "denied"
    BY <1>3 DEF DeletionOutcome
  <1>4. CASE outcome = "conflict"
    <2> DEFINE u == PutConflict(v, p, n)
               g == With(v.conflicts[p], Len(v.blocks) + 1, n)
    <2>1. w = u
      BY <1>4 DEF DeletionOp
    <2>2. u.conflicts = [v.conflicts EXCEPT ![p] = g]
      BY <1>1, PutConflictIs
    <2>3. u.conflicts[p] = g
      BY <1>1, <2>2 DEF Views
    <2>4. DOMAIN g # {}
      BY DEF With
    <2>5. InConflict(u, p)
      <3> HIDE DEF u, g
      <3> QED BY <2>3, <2>4 DEF InConflict
    <2> QED BY <2>1, <2>5
  <1>5. CASE outcome = "applied"
    <2> DEFINE d == DelFile(v, p, n)
    <2>1. w = PutHistory(d, p, "tombstone", n)
      BY <1>5 DEF DeletionOp
    <2>2. d \in Views /\ DOMAIN d.files = DOMAIN v.files \ {p}
      BY <1>1, DelFileIs
    <2>3. PutHistory(d, p, "tombstone", n).files = d.files
      <3> HIDE DEF d
      <3> QED BY <2>2 DEF PutHistory, Views
    <2> QED BY <2>1, <2>2, <2>3
  <1>6. outcome # "ignored"
    BY DEF DeletionOutcome
  <1> QED BY <1>2, <1>3, <1>4, <1>5, <1>6 DEF DeletionOutcome

\* Both together, for the nodes a view was folded from.
LEMMA FoundIsDeleted ==
    ASSUME Inv, FoldInv, FoundInv
    PROVE  DeletionsTakeEffect
  <1> SUFFICES ASSUME NEW r \in Drives, NEW k \in 1 .. Applied(r),
                      Op(order[r][k]).type = "deletion"
               PROVE  LET n == order[r][k]
                          p == Op(n).path
                          v == db[r][k]
                          w == db[r][k + 1]
                      IN  /\ Recorded(v, p)
                          /\ p \in DOMAIN w.files =>
                                InConflict(w, p) \/ ~Owned(v, p, Source(n))
    BY DEF DeletionsTakeEffect
  <1> DEFINE n == order[r][k]
             p == Op(n).path
             v == db[r][k]
  <1>1. /\ k \in 1 .. Len(db[r]) /\ n \in Nodes /\ p \in Paths
        /\ Recorded(v, p)
    BY DeletionFinds
  <1>2. ViewInv(v)
    BY <1>1 DEF Inv, ViewsInv
  <1>3. db[r][k + 1] = Apply(v, n, Op(n), Seen(order[r], k))
    BY DEF FoldInv, Folds
  <1>4. db[r][k + 1] = DeletionOp(v, n, p, Seen(order[r], k))
    BY <1>3 DEF Apply
  <1> HIDE DEF n, p, v
  <1>5. p \in DOMAIN db[r][k + 1].files =>
            InConflict(db[r][k + 1], p) \/ ~Owned(v, p, Source(n))
    BY <1>1, <1>2, <1>4, DeletionDeletes
  <1> QED BY <1>1, <1>5 DEF n, p, v

-----------------------------------------------------------------------------
(***************************************************************************)
(* What was added stays added.                                             *)
(***************************************************************************)
\* Additions stay what they are, in a set of nodes that grows.
LEMMA AddedStays ==
    ASSUME NodesStay, NEW S \in SUBSET LogIds, NEW T, S \subseteq T, NEW p, Added(S, p)
    PROVE  \E m \in T : Adds(m, p)'
  <1>1. PICK m \in S : Adds(m, p)
    BY DEF Added
  <1>2. Node(m)' = Node(m)
    BY DEF NodesStay
  <1>3. Adds(m, p)'
    BY <1>1, <1>2 DEF Adds, Op
  <1> QED BY <1>3

\* The nodes of an order are in the logs.
LEMMA OrderIds ==
    ASSUME Inv, NEW d \in Drives
    PROVE  /\ order[d] \in Seq(LogIds) /\ Len(order[d]) \in Nat
           /\ DOMAIN order[d] = 1 .. Len(order[d])
           /\ \A i \in 1 .. Len(order[d]) : order[d][i] \in LogIds
           /\ Elements(order[d]) \subseteq LogIds
  <1>1. order[d] \in Seq(LogIds) /\ Len(order[d]) \in Nat
    BY LenProperties DEF Inv, TypeInv
  <1>2. DOMAIN order[d] = 1 .. Len(order[d])
    BY <1>1
  <1>3. \A i \in 1 .. Len(order[d]) : order[d][i] \in LogIds
    BY <1>1, ElementOfSeq
  <1> QED BY <1>1, <1>2, <1>3 DEF Elements

\* A replica never loses a node, though it may move it.
LEMMA OrdersGrow ==
    ASSUME Inv, [Next]_vars, NEW d \in Drives
    PROVE  Elements(order[d]) \subseteq Elements(order'[d])
  <1>1. Inv'
    BY NextInv
  <1>2. /\ DOMAIN order[d] = 1 .. Len(order[d]) /\ Len(order[d]) \in Nat
        /\ DOMAIN order'[d] = 1 .. Len(order'[d]) /\ Len(order'[d]) \in Nat
    BY <1>1, LenProperties DEF Inv, TypeInv
  <1>3. CASE order'[d] = order[d]
    BY <1>3
  <1>4. ASSUME NEW r \in Drives, NEW s \in Sessions, AppendQueue(r, s)
        PROVE  Elements(order[d]) \subseteq Elements(order'[d])
    <2>1. Len(order'[d]) >= Len(order[d])
          /\ \A i \in 1 .. Len(order[d]) : order'[d][i] = order[d][i]
      BY <1>4, AppendGrows
    <2> QED BY <1>2, <2>1 DEF Elements
  <1>5. ASSUME NEW r \in Drives, NEW w \in Drives, Deliver(r, w)
        PROVE  Elements(order[d]) \subseteq Elements(order'[d])
    <2>1. PICK o : Elements(order[r]) \subseteq Elements(o) /\ Reorder(r, o)
      BY <1>5 DEF Deliver
    <2>2. order' = [order EXCEPT ![r] = o]
      BY <2>1 DEF Reorder
    <2>3. CASE d = r
      <3>1. order'[d] = o
        BY <2>2, <2>3 DEF Inv, TypeInv
      <3> QED BY <2>1, <2>3, <3>1
    <2>4. CASE d # r
      BY <1>3, <2>2, <2>4 DEF Inv, TypeInv
    <2> QED BY <2>3, <2>4
  <1>6. ASSUME NEW r \in Drives, NEW s \in Sessions, Request(r, s) PROVE order' = order
    BY <1>6 DEF Request, Put, Del, Resolve, WriteStream, Symlink, Admit, Enqueue
  <1>7. ASSUME NEW r \in Drives, NEW s \in Sessions, Submit(r, s)
        PROVE  AppendQueue(r, s) \/ order' = order
    BY <1>7 DEF Submit, AppendCall, RejectCall, Flush, FlushEmpty, FlushDone
  <1>8. ASSUME NEW r \in Drives, ApplyNext(r) \/ Restart(r) PROVE order' = order
    BY <1>8 DEF ApplyNext, Restart
  <1>9. CASE UNCHANGED vars
    BY <1>9 DEF vars
  <1> QED BY <1>3, <1>4, <1>5, <1>6, <1>7, <1>8, <1>9 DEF Next, Sync

\* So additions in the order of a replica are there after any step.
LEMMA OrderAddedStays ==
    ASSUME Inv, [Next]_vars, NEW d \in Drives, NEW p, Added(Elements(order[d]), p)
    PROVE  Added(Elements(order[d]), p)'
  <1> DEFINE T == Elements(order'[d])
  <1>1. Elements(order[d]) \in SUBSET LogIds /\ Elements(order[d]) \subseteq T
    BY OrderIds, OrdersGrow
  <1>2. NodesStay
    BY StepShape
  <1> HIDE DEF T
  <1>3. \E m \in T : Adds(m, p)'
    BY <1>1, <1>2, AddedStays
  <1>4. Elements(order[d])' = T
    BY DEF T, Elements
  <1> QED BY <1>3, <1>4 DEF Added

-----------------------------------------------------------------------------
(***************************************************************************)
(* Records.                                                                *)
(***************************************************************************)
\* A node that keeps its place adds to the paths it did.
LEMMA AddsStay ==
    ASSUME Inv, NodesStay, NEW d \in Drives, NEW i \in 1 .. Len(order[d]),
           order'[d][i] = order[d][i], NEW p
    PROVE  Adds(order[d][i], p)' <=> Adds(order[d][i], p)
  <1>1. order[d][i] \in LogIds
    BY OrderIds
  <1>2. Node(order[d][i])' = Node(order[d][i])
    <2>1. \A n \in LogIds : log'[n[1]][n[2]] = log[n[1]][n[2]]
      BY DEF NodesStay, Node
    <2> QED BY <1>1, <2>1 DEF Node
  <1> QED BY <1>2 DEF Adds, Op

\* Views keep their records, or get those of the node applied.
LEMMA RecordsNext ==
    ASSUME Inv, RecordsInv, [Next]_vars
    PROVE  RecordsInv'
  <1>1. NodesStay
    BY StepShape
  <1>2. \A d \in Drives : /\ Len(db[d]) \in Nat /\ Len(db[d]) \in 1 .. Len(order[d]) + 1
                          /\ Len(order[d]) \in Nat
    BY LenProperties DEF Inv, TypeInv, PrefixInv
  <1>3. ASSUME NEW d \in Drives, NEW k \in 1 .. Len(db[d]), NEW p \in Paths,
               db'[d][k] = db[d][k],
               \A i \in 1 .. k - 1 : order'[d][i] = order[d][i]
        PROVE  Recorded(db[d][k], p)' <=> \E i \in 1 .. k - 1 : Adds(order[d][i], p)'
    <2>1. Recorded(db[d][k], p)' <=> Recorded(db[d][k], p)
      BY <1>3 DEF Recorded
    <2>2. ASSUME NEW i \in 1 .. k - 1
          PROVE  Adds(order[d][i], p)' <=> Adds(order[d][i], p)
      <3>1. i \in 1 .. Len(order[d])
        BY <1>2
      <3> QED BY <1>1, <1>3, <3>1, AddsStay
    <2> QED BY <2>1, <2>2 DEF RecordsInv
  <1>4. ASSUME NEW d \in Drives, Keeps(d), NEW k \in 1 .. Len(db'[d]), NEW p \in Paths
        PROVE  Recorded(db[d][k], p)' <=> \E i \in 1 .. k - 1 : Adds(order[d][i], p)'
    <2>1. Len(db'[d]) \in Nat
      BY NextInv, LenProperties DEF Inv, TypeInv
    <2>2. /\ k \in 1 .. Len(db[d]) /\ db'[d][k] = db[d][k]
          /\ \A i \in 1 .. k - 1 : order'[d][i] = order[d][i]
      BY <1>2, <1>4, <2>1, SMTT(30) DEF Keeps
    <2> QED BY <1>3, <2>2
  <1>5. ASSUME NEW d \in Drives, Extends(d), NEW k \in 1 .. Len(db'[d]), NEW p \in Paths
        PROVE  Recorded(db[d][k], p)' <=> \E i \in 1 .. k - 1 : Adds(order[d][i], p)'
    <2> DEFINE K == Len(db[d])
    <2>1. /\ K \in Nat /\ K >= 1 /\ K \in 1 .. Len(order[d])
          /\ order' = order /\ Len(db'[d]) = K + 1
          /\ \A i \in 1 .. K : db'[d][i] = db[d][i]
          /\ db'[d][K + 1] = Apply(db[d][K], order[d][K], Op(order[d][K]), Seen(order[d], K))
      BY <1>2, <1>5 DEF Extends
    <2>2. CASE k \in 1 .. K
      BY <1>3, <2>1, <2>2
    <2>3. CASE k = K + 1
      <3> DEFINE n == order[d][K]
      <3>1. ViewInv(db[d][K])
        BY <2>1 DEF Inv, ViewsInv
      <3>2. n \in LogIds
        BY <2>1, OrderIds
      <3>3. n \in Nodes /\ Op(n) \in Ops
        BY <3>2, NodeParts DEF Inv
      <3>4. Recorded(db'[d][K + 1], p) <=> Recorded(db[d][K], p) \/ Adds(n, p)
        BY <2>1, <3>1, <3>3, ApplyRecords DEF Adds
      <3>5. Recorded(db[d][K], p) <=> \E i \in 1 .. K - 1 : Adds(order[d][i], p)
        BY <2>1 DEF RecordsInv
      <3>6. \A i \in 1 .. K : Adds(order[d][i], p)' <=> Adds(order[d][i], p)
        <4> SUFFICES ASSUME NEW i \in 1 .. K
                     PROVE  Adds(order[d][i], p)' <=> Adds(order[d][i], p)
          OBVIOUS
        <4>1. i \in 1 .. Len(order[d]) /\ order'[d][i] = order[d][i]
          BY <1>2, <2>1
        <4> QED BY <1>1, <4>1, AddsStay
      <3>7. Recorded(db[d][k], p)' <=> Recorded(db'[d][K + 1], p)
        BY <2>3 DEF Recorded
      <3> HIDE DEF K
      <3>8. (\E i \in 1 .. K : Adds(order[d][i], p))
               <=> (\E i \in 1 .. K - 1 : Adds(order[d][i], p)) \/ Adds(order[d][K], p)
        BY <2>1
      <3>9. (\E i \in 1 .. K : Adds(order[d][i], p)') <=> (\E i \in 1 .. K : Adds(order[d][i], p))
        BY <3>6
      <3>10. 1 .. k - 1 = 1 .. K
        BY <2>1, <2>3
      <3> QED BY <3>4, <3>5, <3>7, <3>8, <3>9, <3>10
    <2> QED BY <2>1, <2>2, <2>3
  <1>6. \A d \in Drives : Keeps(d) \/ Extends(d)
    BY StepShape
  <1> QED BY <1>4, <1>5, <1>6 DEF RecordsInv

-----------------------------------------------------------------------------
(***************************************************************************)
(* Links.                                                                  *)
(***************************************************************************)
\* What n links to after a step.
NextPast(n) == (log'[n[1]][n[2]]).past

\* The nodes there were link to what they did.
LEMMA PastStays ==
    ASSUME NodesStay
    PROVE  \A n \in LogIds : log'[n[1]][n[2]] = log[n[1]][n[2]] /\ NextPast(n) = Past(n)
  BY DEF NodesStay, Node, NextPast, Past

\* The nodes an append adds, one by one.
LEMMA AppendNodes ==
    ASSUME Inv, NEW r \in Drives, NEW s \in Sessions, AppendQueue(r, s)
    PROVE  LET m == Len(queue[r][s])
               L == Len(log[r])
           IN  /\ m \in Nat /\ L \in Nat
               /\ \A i \in 1 .. m :
                     log'[r][L + i] =
                        [op    |-> queue[r][s][i],
                         past  |-> Elements(order[r]) \cup {r} \X (L + 1 .. L + i - 1),
                         first |-> L + 1,
                         last  |-> L + m]
               /\ \A n \in LogIds' : n \in LogIds \/ \E i \in 1 .. m : n = <<r, L + i>>
  <1> DEFINE ops == queue[r][s]
             m == Len(ops)
             known == Elements(order[r])
             new == NewNodes(r, ops, known)
             O == log[r]
             L == Len(O)
  <1>1. log' = [log EXCEPT ![r] = O \o new]
    BY DEF AppendQueue
  <1>2. O \in Seq(NodeRecords) /\ m \in Nat /\ L \in Nat
    BY LenProperties DEF Inv, TypeInv
  <1>3. log'[r] = O \o new /\ \A d \in Drives \ {r} : log'[d] = log[d]
    BY <1>1 DEF Inv, TypeInv
  <1>4. /\ new = [i \in 1 .. m |-> new[i]]
        /\ \A i \in 1 .. m :
              new[i] = [op    |-> ops[i],
                        past  |-> known \cup {r} \X (L + 1 .. L + i - 1),
                        first |-> L + 1,
                        last  |-> L + m]
    BY DEF NewNodes
  <1> DEFINE N == {new[i] : i \in 1 .. m}
  <1> HIDE DEF new, ops, known, m, O, L
  <1>5. new \in Seq(N) /\ Len(new) = m
    BY <1>2, <1>4
  <1> HIDE DEF N
  <1>6. Len(O \o new) = L + m
    <2>1. Len(O \o new) = Len(O) + Len(new)
      BY <1>2, <1>5, ConcatKeeps
    <2> QED BY <2>1, <1>5 DEF L
  <1>7. ASSUME NEW i \in 1 .. m PROVE log'[r][L + i] = new[i]
    <2>1. i \in 1 .. Len(new)
      BY <1>5
    <2>2. (O \o new)[Len(O) + i] = new[i]
      BY <1>2, <1>5, <2>1, ConcatAdds
    <2> QED BY <2>2, <1>3, Zenon DEF L
  <1>8. ASSUME NEW n \in LogIds'
        PROVE  n \in LogIds \/ \E i \in 1 .. m : n = <<r, L + i>>
    <2>1. n[1] \in Drives /\ n[2] \in 1 .. Len(log'[n[1]]) /\ n = <<n[1], n[2]>>
      BY DEF LogIds
    <2>2. CASE n[1] # r
      <3>1. n[2] \in 1 .. Len(log[n[1]])
        BY <1>3, <2>1, <2>2
      <3> QED BY <2>1, <3>1, LogIdsAre DEF Inv
    <2>3. CASE n[1] = r
      <3>1. n[2] \in 1 .. L + m
        BY <1>3, <1>6, <2>1, <2>3
      <3>2. CASE n[2] \in 1 .. L
        <4>1. n[2] \in 1 .. Len(log[n[1]])
          BY <2>3, <3>2 DEF L, O
        <4> QED BY <2>1, <4>1, LogIdsAre DEF Inv
      <3>3. CASE n[2] \notin 1 .. L
        <4>1. n[2] - L \in 1 .. m /\ n[2] = L + (n[2] - L)
          BY <1>2, <3>1, <3>3
        <4> QED BY <2>1, <2>3, <4>1
      <3> QED BY <3>2, <3>3
    <2> QED BY <2>2, <2>3
  <1>9. \A i \in 1 .. m :
           log'[r][L + i] = [op    |-> ops[i],
                             past  |-> known \cup {r} \X (L + 1 .. L + i - 1),
                             first |-> L + 1,
                             last  |-> L + m]
    BY <1>4, <1>7, Zenon
  <1> QED BY <1>2, <1>8, <1>9, Zenon DEF ops, m, known, O, L

\* An order that a step leaves alone stays causal.
LEMMA CausalStays ==
    ASSUME Inv, NodesStay, NEW d \in Drives, Causal(order[d]),
           NEW j \in 1 .. Len(order[d]),
           \A i \in 1 .. j : order'[d][i] = order[d][i],
           NEW m \in NextPast(order'[d][j])
    PROVE  \E i \in 1 .. j - 1 : order'[d][i] = m
  <1>1. order[d][j] \in LogIds /\ order'[d][j] = order[d][j] /\ Len(order[d]) \in Nat
    BY OrderIds
  <1>2. m \in Past(order[d][j])
    BY <1>1, PastStays
  <1>3. PICK i \in 1 .. j - 1 : order[d][i] = m
    BY <1>2 DEF Causal
  <1>4. i \in 1 .. j
    BY <1>1
  <1> QED BY <1>3, <1>4

\* Causality after a step, in terms of the orders and logs there are then.
LEMMA CausalPrime ==
    ASSUME NEW d,
           \A j \in 1 .. Len(order'[d]) : \A m \in NextPast(order'[d][j]) :
              \E i \in 1 .. j - 1 : order'[d][i] = m
    PROVE  Causal(order[d])'
  <1>1. \A j : Past(order[d][j])' = NextPast(order'[d][j])
    BY DEF Past, Node, NextPast
  <1> QED BY <1>1 DEF Causal

\* An append puts nodes behind everything they link to.
LEMMA AppendCausal ==
    ASSUME Inv, CausalInv, NodesStay,
           NEW r \in Drives, NEW s \in Sessions, AppendQueue(r, s), NEW d \in Drives
    PROVE  Causal(order[d])'
  <1> DEFINE n == Len(queue[r][s])
             L == Len(log[r])
             K == Len(order[r])
  <1>1. /\ n \in Nat /\ L \in Nat /\ K \in Nat
        /\ Len(order'[r]) = K + n
        /\ \A c \in Drives \ {r} : order'[c] = order[c]
        /\ \A i \in 1 .. n : order'[r][K + i] = <<r, L + i>>
    BY AppendAdds, AppendNodes, OrderIds, ZenonT(60)
  <1>2. \A i \in 1 .. n :
           NextPast(<<r, L + i>>) = Elements(order[r]) \cup {r} \X (L + 1 .. L + i - 1)
    <2>1. \A i \in 1 .. n :
             log'[r][L + i] =
                [op    |-> queue[r][s][i],
                 past  |-> Elements(order[r]) \cup {r} \X (L + 1 .. L + i - 1),
                 first |-> L + 1,
                 last  |-> L + n]
      BY AppendNodes, Zenon
    <2>2. \A i \in 1 .. n : NextPast(<<r, L + i>>) = (log'[r][L + i]).past
      BY DEF NextPast
    <2> HIDE DEF n, L
    <2>3. ASSUME NEW i \in 1 .. n
          PROVE  (log'[r][L + i]).past = Elements(order[r]) \cup {r} \X (L + 1 .. L + i - 1)
      <3> DEFINE e == Elements(order[r]) \cup {r} \X (L + 1 .. L + i - 1)
      <3>1. log'[r][L + i] = [op |-> queue[r][s][i], past |-> e, first |-> L + 1, last |-> L + n]
        BY <2>1
      <3> HIDE DEF e
      <3>2. (log'[r][L + i]).past = e
        BY <3>1
      <3> QED BY <3>2 DEF e
    <2> QED BY <2>2, <2>3
  <1>3. \A i \in 1 .. Len(order[d]) : order'[d][i] = order[d][i]
    BY AppendGrows
  <1>4. \A i \in 1 .. K : order'[r][i] = order[r][i]
    BY AppendGrows
  <1>5. Causal(order[d])
    BY DEF CausalInv
  <1> HIDE DEF n, L
  <1> SUFFICES ASSUME NEW j \in 1 .. Len(order'[d]), NEW m \in NextPast(order'[d][j])
               PROVE  \E i \in 1 .. j - 1 : order'[d][i] = m
    BY CausalPrime
  <1>6. CASE j \in 1 .. Len(order[d])
    <2>1. \A i \in 1 .. j : order'[d][i] = order[d][i]
      BY <1>3, <1>6, OrderIds
    <2> QED BY <1>5, <1>6, <2>1, CausalStays
  <1>7. CASE j \notin 1 .. Len(order[d])
    <2>1. d = r
      BY <1>1, <1>7
    <2>2. PICK i \in 1 .. n : j = K + i
      <3>1. j - K \in 1 .. n /\ j = K + (j - K)
        BY <1>1, <1>7, <2>1
      <3> QED BY <3>1
    <2>3. m \in Elements(order[r]) \cup {r} \X (L + 1 .. L + i - 1)
      BY <1>1, <1>2, <2>1, <2>2
    <2>4. CASE m \in Elements(order[r])
      <3>1. PICK a \in 1 .. K : m = order[r][a]
        BY <2>4, OrderIds DEF Elements
      <3>2. a \in 1 .. j - 1 /\ order'[r][a] = m
        BY <1>1, <1>4, <2>2, <3>1
      <3> QED BY <2>1, <3>2
    <2>5. CASE m \in {r} \X (L + 1 .. L + i - 1)
      <3>1. PICK a \in 1 .. i - 1 : m = <<r, L + a>>
        <4>1. PICK b \in L + 1 .. L + i - 1 : m = <<r, b>>
          BY <2>5
        <4>2. b - L \in 1 .. i - 1 /\ b = L + (b - L)
          BY <1>1
        <4> QED BY <4>1, <4>2
      <3>2. a \in 1 .. n /\ K + a \in 1 .. j - 1
        BY <1>1, <2>2
      <3>3. order'[r][K + a] = m
        BY <1>1, <3>1, <3>2
      <3> QED BY <2>1, <3>2, <3>3
    <2> QED BY <2>3, <2>4, <2>5
  <1> QED BY <1>6, <1>7

\* A batch is delivered when what it links to is known, and linearised behind it.
LEMMA DeliverCausal ==
    ASSUME Inv, CausalInv, NodesStay,
           NEW r \in Drives, NEW w \in Drives, Deliver(r, w), NEW d \in Drives
    PROVE  Causal(order[d])'
  <1> DEFINE known == Elements(order[r])
  <1>1. PICK n \in LogIds :
           /\ n[2] = Node(n).first /\ Past(n) \subseteq known
           /\ \E o \in [1 .. Len(order[r]) + Cardinality(BatchOf(n)) -> known \cup BatchOf(n)] :
                 /\ Elements(o) = known \cup BatchOf(n)
                 /\ Linearization(o) /\ Reorder(r, o)
    BY DEF Deliver, LinksAreKnown
  <1>2. PICK o \in Seq(LogIds) :
           Elements(o) = known \cup BatchOf(n) /\ Linearization(o) /\ Reorder(r, o)
    BY <1>1, DeliveredIds
  <1>3. order' = [order EXCEPT ![r] = o] /\ log' = log
    BY <1>2 DEF Reorder, Deliver
  <1>4. order'[r] = o /\ \A c \in Drives \ {r} : order'[c] = order[c]
    BY <1>3 DEF Inv, TypeInv
  <1>5. Causal(order[d]) /\ Causal(order[r]) /\ BatchPast(n)
    BY DEF CausalInv
  <1> SUFFICES ASSUME NEW j \in 1 .. Len(order'[d]), NEW m \in NextPast(order'[d][j])
               PROVE  \E i \in 1 .. j - 1 : order'[d][i] = m
    BY CausalPrime
  <1>6. CASE d # r
    <2>1. order'[d] = order[d]
      BY <1>4, <1>6
    <2>2. j \in 1 .. Len(order[d]) /\ \A i \in 1 .. j : order'[d][i] = order[d][i]
      BY <2>1
    <2>3. \E i \in 1 .. j - 1 : order'[d][i] = m
      BY <1>5, <2>2, CausalStays, ZenonT(60)
    <2> QED BY <2>3
  <1>7. CASE d = r
    <2>1. DOMAIN o = 1 .. Len(o) /\ Len(o) \in Nat /\ j \in DOMAIN o
      BY <1>4, <1>7
    <2>2. m \in Past(o[j])
      BY <1>3, <1>4, <1>7 DEF NextPast, Past, Node
    <2>3. o[j] \in known \cup BatchOf(n)
      BY <1>2, <2>1 DEF Elements
    <2>4. ASSUME o[j] \in known PROVE m \in Elements(o)
      <3>1. PICK a \in 1 .. Len(order[r]) : o[j] = order[r][a]
        BY <2>4, OrderIds DEF Elements
      <3>2. PICK b \in 1 .. a - 1 : order[r][b] = m
        BY <1>5, <2>2, <3>1 DEF Causal
      <3>3. b \in 1 .. Len(order[r])
        BY OrderIds
      <3> QED BY <1>2, <3>2, <3>3, OrderIds DEF Elements
    <2>5. ASSUME o[j] \in BatchOf(n) PROVE m \in Elements(o)
      <3>1. m \in Past(n) \cup BatchOf(n)
        BY <1>1, <1>5, <2>2, <2>5 DEF BatchPast
      <3> QED BY <3>1, <1>1, <1>2
    <2>6. m \in Elements(o)
      BY <2>3, <2>4, <2>5
    <2>7. PICK i \in DOMAIN o : o[i] = m
      BY <2>6 DEF Elements
    <2>8. i < j
      BY <2>1, <2>2, <2>7, <1>2 DEF Linearization
    <2> QED BY <1>4, <1>7, <2>1, <2>7, <2>8
  <1> QED BY <1>6, <1>7

\* The nodes of an append link to one another and to what the first one does.
LEMMA AppendBatchPast ==
    ASSUME Inv, CausalInv, NodesStay,
           NEW r \in Drives, NEW s \in Sessions, AppendQueue(r, s), NEW n \in LogIds'
    PROVE  BatchPast(n)'
  <1> DEFINE e == log'[n[1]][n[2]]
             B == {n[1]} \X (e.first .. e.last)
  <1>1. BatchPast(n)' <=>
           (n[2] = e.first => \A x \in B : NextPast(x) \subseteq NextPast(n) \cup B)
    BY DEF BatchPast, BatchOf, Node, Past, NextPast
  <1> SUFFICES ASSUME n[2] = e.first, NEW x \in B
               PROVE  NextPast(x) \subseteq NextPast(n) \cup B
    BY <1>1
  <1>2. CASE n \in LogIds
    <2>1. e = Node(n) /\ NextPast(n) = Past(n)
      BY <1>2, PastStays DEF Node
    <2>2. B = BatchOf(n)
      BY <2>1 DEF BatchOf
    <2>3. x \in LogIds
      BY <1>2, <2>2, BatchIds
    <2>4. NextPast(x) = Past(x)
      BY <2>3, PastStays
    <2> HIDE DEF e, B
    <2>5. BatchPast(n) /\ n[2] = Node(n).first
      BY <1>2, <2>1 DEF CausalInv
    <2> QED BY <2>1, <2>2, <2>4, <2>5 DEF BatchPast
  <1>3. CASE n \notin LogIds
    <2> DEFINE m == Len(queue[r][s])
               L == Len(log[r])
               K == Elements(order[r])
    <2>1. m \in Nat /\ L \in Nat
      BY AppendNodes
    <2>2. \A i \in 1 .. m :
             log'[r][L + i] = [op    |-> queue[r][s][i],
                               past  |-> K \cup {r} \X (L + 1 .. L + i - 1),
                               first |-> L + 1,
                               last  |-> L + m]
      BY AppendNodes, Zenon
    <2>3. PICK i \in 1 .. m : n = <<r, L + i>>
      BY <1>3, AppendNodes
    <2> HIDE DEF m, L, K
    <2>4. e = log'[r][L + i]
      BY <2>3
    <2>5. e.first = L + 1 /\ e.last = L + m
      <3> DEFINE u == K \cup {r} \X (L + 1 .. L + i - 1)
      <3>1. e = [op |-> queue[r][s][i], past |-> u, first |-> L + 1, last |-> L + m]
        BY <2>2, <2>4
      <3> HIDE DEF e, u
      <3> QED BY <3>1
    <2> HIDE DEF e
    <2>6. n = <<r, L + 1>>
      BY <2>1, <2>3, <2>5
    <2>7. B = {r} \X (L + 1 .. L + m)
      BY <2>3, <2>5
    <2>8. PICK a \in 1 .. m : x = <<r, L + a>>
      <3>1. PICK b \in L + 1 .. L + m : x = <<r, b>>
        BY <2>7
      <3>2. b - L \in 1 .. m /\ b = L + (b - L)
        BY <2>1
      <3> QED BY <3>1, <3>2
    <2> HIDE DEF B
    <2>9. ASSUME NEW j \in 1 .. m
          PROVE  NextPast(<<r, L + j>>) = K \cup {r} \X (L + 1 .. L + j - 1)
      <3> DEFINE u == K \cup {r} \X (L + 1 .. L + j - 1)
      <3>1. log'[r][L + j] = [op |-> queue[r][s][j], past |-> u, first |-> L + 1, last |-> L + m]
        BY <2>2
      <3> HIDE DEF u
      <3>2. (log'[r][L + j]).past = u
        BY <3>1
      <3> QED BY <3>2 DEF u, NextPast
    <2>10. K \subseteq NextPast(n)
      <3>1. 1 \in 1 .. m
        BY <2>1, <2>3
      <3> QED BY <2>6, <2>9, <3>1
    <2>11. {r} \X (L + 1 .. L + a - 1) \subseteq B
      BY <2>1, <2>7, <2>8
    <2>12. NextPast(x) = K \cup {r} \X (L + 1 .. L + a - 1)
      BY <2>8, <2>9
    <2> QED BY <2>10, <2>11, <2>12
  <1> QED BY <1>2, <1>3

\* Orders stay causal.
LEMMA CausalNext ==
    ASSUME Inv, CausalInv, [Next]_vars
    PROVE  CausalInv'
  <1>1. NodesStay
    BY StepShape
  <1>2. ASSUME log' = log PROVE \A n \in LogIds' : BatchPast(n)'
    <2>1. LogIds' = LogIds
      BY <1>2 DEF LogIds
    <2>2. \A n : BatchPast(n)' <=> BatchPast(n)
      BY <1>2 DEF BatchPast, BatchOf, Node, Past
    <2> QED BY <2>1, <2>2 DEF CausalInv
  <1>3. ASSUME order' = order PROVE \A d \in Drives : Causal(order[d])'
    <2> SUFFICES ASSUME NEW d \in Drives PROVE Causal(order[d])'
      OBVIOUS
    <2>1. Causal(order[d])
      BY DEF CausalInv
    <2> SUFFICES ASSUME NEW j \in 1 .. Len(order'[d]), NEW m \in NextPast(order'[d][j])
                 PROVE  \E i \in 1 .. j - 1 : order'[d][i] = m
      BY CausalPrime
    <2> QED BY <1>1, <1>3, <2>1, CausalStays
  <1>4. ASSUME UNCHANGED <<log, order>> PROVE CausalInv'
    BY <1>2, <1>3, <1>4 DEF CausalInv
  <1>5. ASSUME NEW r \in Drives, NEW s \in Sessions, AppendQueue(r, s) PROVE CausalInv'
    BY <1>1, <1>5, AppendCausal, AppendBatchPast DEF CausalInv
  <1>6. ASSUME NEW r \in Drives, NEW w \in Drives, Deliver(r, w) PROVE CausalInv'
    <2>1. \A d \in Drives : Causal(order[d])'
      BY <1>1, <1>6, DeliverCausal
    <2>2. log' = log
      BY <1>6 DEF Deliver
    <2> QED BY <1>2, <2>1, <2>2 DEF CausalInv
  <1>7. ASSUME NEW r \in Drives, NEW s \in Sessions, Request(r, s)
        PROVE  UNCHANGED <<log, order>>
    BY <1>7 DEF Request, Put, Del, Resolve, WriteStream, Symlink, Admit, Enqueue
  <1>8. ASSUME NEW r \in Drives, NEW s \in Sessions, Submit(r, s)
        PROVE  AppendQueue(r, s) \/ UNCHANGED <<log, order>>
    BY <1>8 DEF Submit, AppendCall, RejectCall, Flush, FlushEmpty, FlushDone
  <1>9. ASSUME NEW r \in Drives, ApplyNext(r) \/ Restart(r) PROVE UNCHANGED <<log, order>>
    BY <1>9 DEF ApplyNext, Restart
  <1>10. CASE UNCHANGED vars
    BY <1>4, <1>10 DEF vars
  <1> QED BY <1>4, <1>5, <1>6, <1>7, <1>8, <1>9, <1>10 DEF Next, Sync

-----------------------------------------------------------------------------
(***************************************************************************)
(* What sessions read, and what they leave waiting.                        *)
(***************************************************************************)
\* A path recorded in a view of a replica is added to in its order.
LEMMA ViewsFound ==
    ASSUME Inv, RecordsInv, NEW d \in Drives, NEW k \in 1 .. Len(db[d]), NEW p \in Paths,
           Recorded(db[d][k], p)
    PROVE  Added(Elements(order[d]), p)
  <1>1. Len(db[d]) \in Nat /\ Len(db[d]) \in 1 .. Len(order[d]) + 1
    BY LenProperties DEF Inv, TypeInv, PrefixInv
  <1>2. PICK i \in 1 .. k - 1 : Adds(order[d][i], p)
    BY DEF RecordsInv
  <1>3. i \in DOMAIN order[d]
    BY <1>1, OrderIds
  <1> QED BY <1>2, <1>3 DEF Added, Elements

\* The same of what the main session reads, a checkout or a batch session.
LEMMA ReadingsFound ==
    ASSUME Inv, RecordsInv, RootsInv, NEW r \in Drives, NEW s \in Sessions,
           NEW reading \in Readings(r, s), NEW p \in Paths, Recorded(reading.view, p)
    PROVE  Added(Elements(order[r]), p)
  <1>1. Len(db[r]) \in Nat /\ published[r] \in 0 .. Len(db[r]) - 1
    BY LenProperties DEF Inv, TypeInv, PrefixInv
  <1>2. ASSUME NEW k \in 0 .. published[r], reading.view = db[r][k + 1]
        PROVE  Added(Elements(order[r]), p)
    <2>1. k + 1 \in 1 .. Len(db[r])
      BY <1>1
    <2> QED BY <1>2, <2>1, ViewsFound
  <1>3. CASE reading.view = Current(r)
    <2>1. published[r] \in 0 .. published[r]
      BY <1>1
    <2> QED BY <1>2, <1>3, <2>1 DEF Current
  <1>4. CASE reading.view \in Checkouts(r)
    BY <1>2, <1>4 DEF Checkouts
  <1>5. CASE s \in Batches /\ root[r][s] # << >> /\ reading.view = root[r][s][1]
    <2>1. root[r][s] \in Seq(Views)
      BY <1>5 DEF Inv, TypeInv
    <2>2. 1 \in 1 .. Len(root[r][s])
      BY <1>5, <2>1
    <2> QED BY <1>5, <2>2 DEF RootsInv
  <1>6. CASE s \in Batches
    <2>1. reading.view = IF root[r][s] # << >> THEN root[r][s][1] ELSE Current(r)
      BY <1>6 DEF Readings
    <2> QED BY <1>3, <1>5, <1>6, <2>1
  <1>7. CASE s \notin Batches
    <2>1. \/ reading = [view |-> Current(r), namespaced |-> TRUE]
          \/ reading \in [view : Checkouts(r), namespaced : {FALSE}]
      <3>1. Readings(r, s) = {[view |-> Current(r), namespaced |-> TRUE]}
                                \cup [view : Checkouts(r), namespaced : {FALSE}]
        BY <1>7, Zenon DEF Readings
      <3> QED BY <3>1, Zenon
    <2>2. CASE reading = [view |-> Current(r), namespaced |-> TRUE]
      BY <1>3, <2>2
    <2>3. CASE reading \in [view : Checkouts(r), namespaced : {FALSE}]
      BY <1>4, <2>3
    <2> QED BY <2>1, <2>2, <2>3
  <1> QED BY <1>6, <1>7

\* A batch session is tied to the view it read, if to any.
LEMMA RootStep ==
    ASSUME Inv, [Next]_vars, NEW d \in Drives, NEW b \in Batches
    PROVE  root'[d][b] \in {root[d][b], << >>, <<Current(d)>>}
  <1>1. root \in [Drives -> [Batches -> Seq(Views)]]
    BY DEF Inv, TypeInv
  <1>2. ASSUME root' = root PROVE root'[d][b] \in {root[d][b], << >>, <<Current(d)>>}
    BY <1>2
  <1>3. ASSUME NEW r \in Drives, NEW s \in Sessions, Load(r, s)
        PROVE  root'[d][b] \in {root[d][b], << >>, <<Current(d)>>}
    <2>1. CASE s \in Batches /\ root' = [root EXCEPT ![r][s] = <<Current(r)>>]
      <3>1. CASE d = r /\ b = s
        BY <1>1, <2>1, <3>1
      <3>2. CASE d = r /\ b # s
        BY <1>1, <2>1, <3>2
      <3>3. CASE d # r
        BY <1>1, <2>1, <3>3
      <3> QED BY <3>1, <3>2, <3>3
    <2> QED BY <1>2, <1>3, <2>1 DEF Load
  <1>4. ASSUME NEW r \in Drives, NEW s \in Sessions, Request(r, s)
        PROVE  Load(r, s) \/ root' = root
    BY <1>4 DEF Request, Put, Del, Resolve, WriteStream, Symlink, Admit
  <1>5. ASSUME NEW r \in Drives, NEW s \in Sessions, FlushEmpty(r, s)
        PROVE  root'[d][b] \in {root[d][b], << >>, <<Current(d)>>}
    <2>1. root' = [root EXCEPT ![r][s] = << >>] /\ s \in Batches
      BY <1>5 DEF FlushEmpty
    <2>2. CASE d = r /\ b = s
      BY <1>1, <2>1, <2>2
    <2>3. CASE d = r /\ b # s
      BY <1>1, <2>1, <2>3
    <2>4. CASE d # r
      BY <1>1, <2>1, <2>4
    <2> QED BY <2>2, <2>3, <2>4
  <1>6. ASSUME NEW r \in Drives, NEW s \in Sessions, Submit(r, s)
        PROVE  FlushEmpty(r, s) \/ root' = root
    BY <1>6 DEF Submit, AppendCall, RejectCall, Flush, FlushDone, AppendQueue
  <1>7. ASSUME NEW r \in Drives, Restart(r)
        PROVE  root'[d][b] \in {root[d][b], << >>, <<Current(d)>>}
    <2>1. root' = [root EXCEPT ![r] = [c \in Batches |-> << >>]]
      BY <1>7 DEF Restart
    <2> QED BY <1>1, <2>1
  <1>8. ASSUME NEW r \in Drives, Sync(r) PROVE root' = root
    BY <1>8 DEF Sync, ApplyNext, Deliver
  <1>9. CASE UNCHANGED vars
    BY <1>2, <1>9 DEF vars
  <1> QED BY <1>2, <1>3, <1>4, <1>5, <1>6, <1>7, <1>8, <1>9 DEF Next

\* Roots stay views of what a replica has linearised.
LEMMA RootsNext ==
    ASSUME Inv, RecordsInv, RootsInv, [Next]_vars
    PROVE  RootsInv'
  <1> SUFFICES ASSUME NEW d \in Drives, NEW b \in Batches,
                      NEW i \in 1 .. Len(root'[d][b]), NEW p \in Paths,
                      Recorded(root[d][b][i], p)'
               PROVE  Added(Elements(order[d]), p)'
    BY DEF RootsInv
  <1>1. DOMAIN (root'[d][b][i].history[p]) # {}
    BY DEF Recorded
  <1>2. CASE root'[d][b] = root[d][b]
    <2>1. Recorded(root[d][b][i], p) /\ i \in 1 .. Len(root[d][b])
      BY <1>1, <1>2 DEF Recorded
    <2>2. Added(Elements(order[d]), p)
      BY <2>1 DEF RootsInv
    <2> QED BY <2>2, OrderAddedStays
  <1>3. CASE root'[d][b] = << >>
    BY <1>3
  <1>4. CASE root'[d][b] = <<Current(d)>>
    <2>1. root'[d][b][i] = Current(d)
      BY <1>4
    <2>2. Recorded(Current(d), p)
      BY <1>1, <2>1 DEF Recorded
    <2>3. published[d] + 1 \in 1 .. Len(db[d])
      BY LenProperties DEF Inv, TypeInv, PrefixInv
    <2>4. Added(Elements(order[d]), p)
      BY <2>2, <2>3, ViewsFound DEF Current
    <2> QED BY <2>4, OrderAddedStays
  <1> QED BY <1>2, <1>3, <1>4, RootStep

\* What a call leaves waiting, if it is a deletion, was found.
LEMMA RequestFound ==
    ASSUME Inv, RecordsInv, RootsInv, NEW r \in Drives, NEW s \in Sessions, Request(r, s)
    PROVE  \E op \in Ops : /\ queue' = [queue EXCEPT ![r][s] = Append(queue[r][s], op)]
                           /\ op.type = "deletion" => Added(Elements(order[r]), op.path)
  <1>1. ASSUME NEW op \in Ops, Enqueue(r, s, op),
               op.type = "deletion" => Added(Elements(order[r]), op.path)
        PROVE  \E o \in Ops : /\ queue' = [queue EXCEPT ![r][s] = Append(queue[r][s], o)]
                              /\ o.type = "deletion" => Added(Elements(order[r]), o.path)
    BY <1>1 DEF Enqueue
  <1>2. \A p, f, d : /\ Addition(p).type # "deletion"
                     /\ Resolution(p, f).type # "deletion"
                     /\ Membership(d, f).type # "deletion"
                     /\ Deletion(p).path = p
    BY DEF Addition, Resolution, Membership, Deletion
  <1>3. CASE \E p \in Paths : Del(r, s, p)
    <2>1. PICK p \in Paths : Del(r, s, p)
      BY <1>3
    <2>2. PICK reading \in Readings(r, s) : Recorded(reading.view, p)
      BY <2>1 DEF Del
    <2>3. Added(Elements(order[r]), p)
      BY <2>2, ReadingsFound
    <2>4. Enqueue(r, s, Deletion(p)) /\ Deletion(p) \in Ops
      BY <2>1, OpTypes DEF Del
    <2> QED BY <1>1, <1>2, <2>3, <2>4
  <1>4. CASE \E p \in Paths, f \in BOOLEAN :
                Put(r, s, p) \/ Resolve(r, s, p, f) \/ WriteStream(r, s, p, f) \/ Symlink(r, s, p, f)
    <2>1. PICK p \in Paths, f \in BOOLEAN :
             Put(r, s, p) \/ Resolve(r, s, p, f) \/ WriteStream(r, s, p, f) \/ Symlink(r, s, p, f)
      BY <1>4
    <2>2. \E g \in BOOLEAN : Enqueue(r, s, Addition(p)) \/ Enqueue(r, s, Resolution(p, g))
      BY <2>1 DEF Put, Resolve, WriteStream, Symlink
    <2>3. Addition(p) \in Ops /\ \A g \in BOOLEAN : Resolution(p, g) \in Ops
      BY OpTypes DEF Ops, FileOps, Addition, Resolution
    <2> QED BY <1>1, <1>2, <2>2, <2>3
  <1>5. CASE \E d \in Guests, f \in BOOLEAN : Admit(r, s, d, f)
    <2>1. PICK d \in Guests, f \in BOOLEAN : Enqueue(r, s, Membership(d, f))
      BY <1>5 DEF Admit
    <2>2. Membership(d, f) \in Ops
      BY MembersAssumption DEF Ops, WriterOps, Membership
    <2> QED BY <1>1, <1>2, <2>1, <2>2
  <1> QED BY <1>3, <1>4, <1>5 DEF Request

\* A queue stays as it is, is emptied, or gets one operation more.
QueueStep(d, s) ==
    \/ queue'[d][s] \in {queue[d][s], << >>}
    \/ \E op \in Ops : /\ queue'[d][s] = Append(queue[d][s], op)
                       /\ op.type = "deletion" => Added(Elements(order[d]), op.path)

LEMMA QueuesStep ==
    ASSUME Inv, RecordsInv, RootsInv, [Next]_vars, NEW d \in Drives, NEW s \in Sessions
    PROVE  QueueStep(d, s)
  <1>1. queue \in [Drives -> [Sessions -> Seq(Ops)]]
    BY DEF Inv, TypeInv
  <1>2. ASSUME queue' = queue PROVE QueueStep(d, s)
    BY <1>2 DEF QueueStep
  <1>3. ASSUME NEW r \in Drives, NEW c \in Sessions, NEW q, queue' = [queue EXCEPT ![r][c] = q]
        PROVE  queue'[d][s] = IF d = r /\ s = c THEN q ELSE queue[d][s]
    <2>1. CASE d = r /\ s = c
      BY <1>1, <1>3, <2>1
    <2>2. CASE d = r /\ s # c
      BY <1>1, <1>3, <2>2
    <2>3. CASE d # r
      BY <1>1, <1>3, <2>3
    <2> QED BY <2>1, <2>2, <2>3
  <1>4. ASSUME NEW r \in Drives, NEW c \in Sessions, Request(r, c) PROVE QueueStep(d, s)
    <2>1. PICK op \in Ops :
             /\ queue' = [queue EXCEPT ![r][c] = Append(queue[r][c], op)]
             /\ op.type = "deletion" => Added(Elements(order[r]), op.path)
      BY <1>4, RequestFound
    <2>2. queue'[d][s] = IF d = r /\ s = c THEN Append(queue[r][c], op) ELSE queue[d][s]
      BY <1>3, <2>1
    <2> QED BY <2>1, <2>2 DEF QueueStep
  <1>5. ASSUME NEW r \in Drives, NEW c \in Sessions, Submit(r, c) PROVE QueueStep(d, s)
    <2>1. queue' = queue \/ queue' = [queue EXCEPT ![r][c] = << >>]
      BY <1>5 DEF Submit, AppendCall, RejectCall, Flush, FlushEmpty, FlushDone
    <2>2. queue' = [queue EXCEPT ![r][c] = << >>] =>
             queue'[d][s] = IF d = r /\ s = c THEN << >> ELSE queue[d][s]
      BY <1>3
    <2> QED BY <1>2, <2>1, <2>2 DEF QueueStep
  <1>6. ASSUME NEW r \in Drives, Restart(r) PROVE QueueStep(d, s)
    <2>1. queue' = [queue EXCEPT ![r] = [c \in Sessions |-> << >>]]
      BY <1>6 DEF Restart
    <2> QED BY <1>1, <2>1 DEF QueueStep
  <1>7. ASSUME NEW r \in Drives, Sync(r) PROVE queue' = queue
    BY <1>7 DEF Sync, ApplyNext, Deliver
  <1>8. CASE UNCHANGED vars
    BY <1>2, <1>8 DEF vars
  <1> QED BY <1>2, <1>4, <1>5, <1>6, <1>7, <1>8 DEF Next

\* What n adds to after a step.
NextAdds(n, p) ==
    LET op == (log'[n[1]][n[2]]).op
    IN  op.type = "addition" /\ op.path = p

\* Waiting deletions stay founded.
LEMMA WaitingNext ==
    ASSUME Inv, RecordsInv, RootsInv, WaitingInv, [Next]_vars
    PROVE  WaitingInv'
  <1> SUFFICES ASSUME NEW d \in Drives, NEW s \in Sessions,
                      NEW i \in 1 .. Len(queue'[d][s]), queue'[d][s][i].type = "deletion"
               PROVE  Added(Elements(order[d]), queue[d][s][i].path)'
    BY DEF WaitingInv
  <1> DEFINE q == queue[d][s]
             u == queue'[d][s]
  <1>1. q \in Seq(Ops) /\ Len(q) \in Nat
    BY LenProperties DEF Inv, TypeInv
  <1>2. \A j \in 1 .. Len(q) :
           q[j].type = "deletion" => Added(Elements(order[d]), q[j].path)
    BY DEF WaitingInv
  <1>3. \/ u \in {q, << >>}
        \/ \E op \in Ops : /\ u = Append(q, op)
                           /\ op.type = "deletion" => Added(Elements(order[d]), op.path)
    BY QueuesStep DEF QueueStep
  <1> DEFINE p == u[i].path
  <1>4. i \in 1 .. Len(u) /\ u[i].type = "deletion"
    OBVIOUS
  <1> HIDE DEF q, u
  <1>5. Added(Elements(order[d]), p)
    <2>1. CASE u = q
      BY <1>2, <1>4, <2>1
    <2>2. CASE u = << >>
      BY <1>4, <2>2
    <2>3. CASE u \notin {q, << >>}
      <3>1. PICK op \in Ops : /\ u = Append(q, op)
                              /\ op.type = "deletion" => Added(Elements(order[d]), op.path)
        BY <1>3, <2>3
      <3>2. Len(u) = Len(q) + 1 /\ u[Len(q) + 1] = op /\ \A j \in 1 .. Len(q) : u[j] = q[j]
        BY <1>1, <3>1
      <3>3. CASE i \in 1 .. Len(q)
        BY <1>2, <1>4, <3>2, <3>3
      <3>4. CASE i = Len(q) + 1
        BY <1>4, <3>1, <3>2, <3>4
      <3> QED BY <1>1, <1>4, <3>2, <3>3, <3>4
    <2> QED BY <2>1, <2>2, <2>3
  <1> HIDE DEF p
  <1>6. \A x : Added(Elements(order[d]), x) =>
           \E m \in Elements(order'[d]) : NextAdds(m, x)
    <2> SUFFICES ASSUME NEW x, Added(Elements(order[d]), x)
                 PROVE  \E m \in Elements(order'[d]) : NextAdds(m, x)
      OBVIOUS
    <2>1. Added(Elements(order[d]), x)'
      BY OrderAddedStays
    <2> QED BY <2>1 DEF Added, Elements, Adds, Op, Node, NextAdds
  <1>7. \E m \in Elements(order'[d]) : NextAdds(m, p)
    BY <1>5, <1>6
  <1> QED BY <1>7 DEF p, u, Added, Elements, Adds, Op, Node, NextAdds

-----------------------------------------------------------------------------
(***************************************************************************)
(* Deletions in the logs.                                                  *)
(***************************************************************************)
\* What a node links to after a step has the additions it had.
LEMMA LinkedStays ==
    ASSUME NodesStay, NEW n, NEW S \in SUBSET LogIds, S \subseteq NextPast(n),
           NEW p, Added(S, p)
    PROVE  \E m \in NextPast(n) : NextAdds(m, p)
  <1>1. PICK m \in S : Adds(m, p)
    BY DEF Added
  <1>2. log'[m[1]][m[2]] = log[m[1]][m[2]]
    BY PastStays
  <1> QED BY <1>1, <1>2 DEF Adds, Op, Node, NextAdds

\* Deletions are appended behind the additions their calls had found.
LEMMA LinkedNext ==
    ASSUME Inv, WaitingInv, LinkedInv, [Next]_vars
    PROVE  LinkedInv'
  <1> DEFINE Linked(n) ==
        (log'[n[1]][n[2]]).op.type = "deletion" =>
            \E m \in NextPast(n) : NextAdds(m, (log'[n[1]][n[2]]).op.path)
  <1>1. NodesStay
    BY StepShape
  <1>2. ASSUME NEW n \in LogIds PROVE Linked(n)
    <2>1. log'[n[1]][n[2]] = Node(n) /\ NextPast(n) = Past(n)
      BY <1>1, PastStays DEF Node
    <2> SUFFICES ASSUME Op(n).type = "deletion"
                 PROVE  \E m \in NextPast(n) : NextAdds(m, Op(n).path)
      BY <2>1 DEF Op
    <2>2. Added(Past(n), Op(n).path) /\ Past(n) \in SUBSET LogIds
      BY NodeParts DEF LinkedInv, Inv
    <2> QED BY <1>1, <2>1, <2>2, LinkedStays
  <1>3. ASSUME NEW r \in Drives, NEW s \in Sessions, AppendQueue(r, s), NEW n \in LogIds'
        PROVE  Linked(n)
    <2> DEFINE m == Len(queue[r][s])
               L == Len(log[r])
               K == Elements(order[r])
    <2>1. CASE n \in LogIds
      BY <1>2, <2>1
    <2>2. CASE n \notin LogIds
      <3>1. PICK i \in 1 .. m : n = <<r, L + i>>
        BY <1>3, <2>2, AppendNodes
      <3>2. \A j \in 1 .. m :
               log'[r][L + j] = [op    |-> queue[r][s][j],
                                 past  |-> K \cup {r} \X (L + 1 .. L + j - 1),
                                 first |-> L + 1,
                                 last  |-> L + m]
        BY <1>3, AppendNodes, Zenon
      <3> DEFINE e == log'[n[1]][n[2]]
                 u == K \cup {r} \X (L + 1 .. L + i - 1)
      <3>3. e = [op |-> queue[r][s][i], past |-> u, first |-> L + 1, last |-> L + m]
        BY <3>1, <3>2
      <3>4. NextPast(n) = e.past
        BY DEF NextPast
      <3>5. K \in SUBSET LogIds
        BY OrderIds
      <3>6. queue[r][s][i].type = "deletion" => Added(K, queue[r][s][i].path)
        BY DEF WaitingInv
      <3>7. K \subseteq u
        OBVIOUS
      <3> SUFFICES ASSUME e.op.type = "deletion"
                   PROVE  \E x \in NextPast(n) : NextAdds(x, e.op.path)
        OBVIOUS
      <3>8. e.op.type = "deletion"
        OBVIOUS
      <3> HIDE DEF e, u, K
      <3>9. e.op = queue[r][s][i] /\ e.past = u
        BY <3>3
      <3>10. \A p : Added(K, p) => \E x \in NextPast(n) : NextAdds(x, p)
        BY <1>1, <3>4, <3>5, <3>7, <3>9, LinkedStays
      <3> QED BY <3>6, <3>8, <3>9, <3>10
    <2> QED BY <2>1, <2>2
  <1>4. ASSUME log' = log, NEW n \in LogIds' PROVE Linked(n)
    <2>1. n \in LogIds
      BY <1>4 DEF LogIds
    <2> QED BY <1>2, <2>1
  <1>5. ASSUME NEW r \in Drives, NEW s \in Sessions, Request(r, s) PROVE log' = log
    BY <1>5 DEF Request, Put, Del, Resolve, WriteStream, Symlink, Admit, Enqueue
  <1>6. ASSUME NEW r \in Drives, NEW s \in Sessions, Submit(r, s)
        PROVE  AppendQueue(r, s) \/ log' = log
    BY <1>6 DEF Submit, AppendCall, RejectCall, Flush, FlushEmpty, FlushDone
  <1>7. ASSUME NEW r \in Drives, Sync(r) \/ Restart(r) PROVE log' = log
    BY <1>7 DEF Sync, ApplyNext, Deliver, Restart
  <1>8. UNCHANGED vars => log' = log
    BY DEF vars
  <1>9. \A n \in LogIds' : Linked(n)
    <2> HIDE DEF Linked
    <2> QED BY <1>3, <1>4, <1>5, <1>6, <1>7, <1>8 DEF Next
  <1>10. LinkedInv' <=> \A n \in LogIds' : Linked(n)
    BY DEF LinkedInv, Added, Adds, Op, Node, Past, NextPast, NextAdds
  <1> QED BY <1>9, <1>10

-----------------------------------------------------------------------------
(***************************************************************************)
(* The theorem.                                                            *)
(***************************************************************************)
\* At first there is nothing to find.
LEMMA FoundInit ==
    ASSUME Init
    PROVE  FoundInv
  <1>1. \A d \in Drives : Len(log[d]) = 0 /\ Len(order[d]) = 0
    BY DEF Init
  <1>2. LogIds = {}
    BY <1>1 DEF LogIds
  <1>3. RecordsInv
    <2> SUFFICES ASSUME NEW d \in Drives, NEW k \in 1 .. Len(db[d]), NEW p \in Paths
                 PROVE  Recorded(db[d][k], p) <=> \E i \in 1 .. k - 1 : Adds(order[d][i], p)
      BY DEF RecordsInv
    <2>1. db[d] = <<EmptyView(Founders)>>
      BY DEF Init
    <2>2. k = 1 /\ db[d][k] = EmptyView(Founders)
      BY <2>1
    <2>3. ~Recorded(EmptyView(Founders), p)
      BY DEF Recorded, EmptyView, NoKeys
    <2> QED BY <2>2, <2>3
  <1>4. CausalInv
    BY <1>1, <1>2 DEF CausalInv, Causal
  <1>5. RootsInv
    BY DEF Init, RootsInv
  <1>6. WaitingInv
    BY DEF Init, WaitingInv
  <1>7. LinkedInv
    BY <1>2 DEF LinkedInv
  <1> QED BY <1>3, <1>4, <1>5, <1>6, <1>7 DEF FoundInv

\* The strengthening is inductive.
LEMMA FoundNext ==
    ASSUME Inv, FoundInv, [Next]_vars
    PROVE  FoundInv'
  <1>1. RecordsInv' /\ CausalInv'
    BY RecordsNext, CausalNext DEF FoundInv
  <1>2. RootsInv' /\ WaitingInv'
    BY RootsNext, WaitingNext DEF FoundInv
  <1>3. LinkedInv'
    BY LinkedNext DEF FoundInv
  <1> QED BY <1>1, <1>2, <1>3 DEF FoundInv

\* What del() accepted to delete was added before, in every order of every
\* replica: no reordering, undoing, restart, stale checkout or batch brings a
\* deletion before all additions to its path, where it would be ignored; and so
\* the file is gone behind it, unless in conflict or of another namespace.
THEOREM DeletionsTake == Spec => []DeletionsTakeEffect
  <1>1. Init => Inv /\ FoldInv /\ FoundInv
    BY InitInv, FoldInit, FoundInit
  <1>2. (Inv /\ FoldInv /\ FoundInv) /\ [Next]_vars => (Inv /\ FoldInv /\ FoundInv)'
    BY NextInv, FoldNext, FoundNext
  <1>3. Inv /\ FoldInv /\ FoundInv => DeletionsTakeEffect
    BY FoundIsDeleted
  <1> QED BY <1>1, <1>2, <1>3, PTL DEF Spec
=============================================================================
