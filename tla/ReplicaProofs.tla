--------------------------- MODULE ReplicaProofs ---------------------------
(***************************************************************************)
(* Theorems about what the replicas of a drive have in common: a view is   *)
(* determined by the nodes it was folded from and their order, whatever a  *)
(* replica had undone before.                                              *)
(***************************************************************************)
EXTENDS AutodriveProofs

\* Every view is the one before it, with the node of its place applied.
Folds(r) ==
    /\ db[r][1] = EmptyView(Founders)
    /\ \A k \in 1 .. Applied(r) :
          db[r][k + 1] = Apply(db[r][k], order[r][k], Op(order[r][k]), Seen(order[r], k))

FoldInv == \A r \in Drives : Folds(r)

-----------------------------------------------------------------------------
(***************************************************************************)
(* What apply() is told of the heads.                                      *)
(***************************************************************************)
\* It depends on the order up to the node applied, and on nothing else.
LEMMA SeenOfPrefix ==
    ASSUME NEW o, NEW u, NEW k \in Nat, \A i \in 1 .. k : o[i] = u[i], k > 0
    PROVE  Seen(o, k) = Seen(u, k)
  <1>1. o[k] = u[k]
    OBVIOUS
  <1>2. Before(o, k) = Before(u, k)
    <2>1. \A i \in 1 .. k - 1 : o[i] = u[i]
      OBVIOUS
    <2> QED BY <2>1 DEF Before
  <1> QED BY <1>1, <1>2 DEF Seen, HeadsInApply

\* Nodes are never rewritten.
NodesStay == LogIds \subseteq LogIds' /\ \A n \in LogIds : Node(n)' = Node(n)

\* The heads of a set of known nodes are not changed by nodes to come.
LEMMA HeadWritersStay ==
    ASSUME NodesStay, NEW S \in SUBSET LogIds
    PROVE  {n[1] : n \in {m \in S : \A x \in S : m \notin Past(x)'}} = HeadWriters(S)
  <1>1. \A x \in S : Past(x)' = Past(x)
    BY DEF NodesStay, Past
  <1> QED BY <1>1 DEF HeadWriters

\* So a node that keeps its place is told the same.
LEMMA SeenStays ==
    ASSUME Inv, NodesStay, NEW d \in Drives, NEW k \in 1 .. Len(order[d]),
           \A i \in 1 .. k : order'[d][i] = order[d][i]
    PROVE  /\ Seen(order[d], k)' = Seen(order[d], k)
           /\ order'[d][k] = order[d][k]
           /\ Op(order[d][k])' = Op(order[d][k])
  <1> DEFINE m == order[d][k]
             B == Before(order[d], k)
  <1>1. order[d] \in Seq(LogIds) /\ Len(order[d]) \in Nat
    BY LenProperties DEF Inv, TypeInv
  <1>2. m \in LogIds /\ B \subseteq LogIds
    <2>1. \A i \in 1 .. k : order[d][i] \in LogIds
      BY <1>1, ElementOfSeq
    <2> QED BY <2>1, <1>1 DEF Before
  <1>3. Past(m) \subseteq LogIds /\ BatchOf(m) \subseteq LogIds
    BY <1>2, NodeParts, BatchIds DEF Inv
  <1>4. order'[d][k] = m
    BY <1>1
  <1>5. Before(order[d], k)' = B
    <2>1. \A i \in 1 .. k - 1 : order'[d][i] = order[d][i]
      BY <1>1
    <2> QED BY <2>1 DEF Before
  <1>6. Node(order[d][k])' = Node(m)
    <2>1. log'[m[1]][m[2]] = log[m[1]][m[2]]
      BY <1>2 DEF NodesStay, Node
    <2> QED BY <2>1, <1>4 DEF Node
  <1>7. Past(order[d][k])' = Past(m) /\ Op(order[d][k])' = Op(m)
    BY <1>6 DEF Past, Op
  <1>8. BatchOf(order[d][k])' = BatchOf(m)
    BY <1>4, <1>6 DEF BatchOf
  <1> HIDE DEF m, B
  <1>9. HeadWriters(Past(order[d][k]))' = HeadWriters(Past(m))
    <2>1. HeadWriters(Past(order[d][k]))'
             = {n[1] : n \in {y \in Past(m) : \A x \in Past(m) : y \notin Past(x)'}}
      BY <1>7 DEF HeadWriters
    <2> QED BY <2>1, <1>3, HeadWritersStay
  <1>10. HeadWriters(Before(order[d], k) \cup BatchOf(order[d][k]))'
            = HeadWriters(B \cup BatchOf(m))
    <2> DEFINE S == B \cup BatchOf(m)
    <2>1. (Before(order[d], k) \cup BatchOf(order[d][k]))' = S
      BY <1>5, <1>8
    <2>2. S \in SUBSET LogIds
      BY <1>2, <1>3
    <2> HIDE DEF S
    <2>3. HeadWriters(Before(order[d], k) \cup BatchOf(order[d][k]))'
             = {n[1] : n \in {y \in S : \A x \in S : y \notin Past(x)'}}
      BY <2>1 DEF HeadWriters
    <2>4. HeadWriters(Before(order[d], k) \cup BatchOf(order[d][k]))' = HeadWriters(S)
      BY <2>2, <2>3, HeadWritersStay
    <2> QED BY <2>4 DEF S
  <1>11. HeadWriters(Before(order[d], k) \ BatchOf(order[d][k]))'
            = HeadWriters(B \ BatchOf(m))
    <2> DEFINE S == B \ BatchOf(m)
    <2>1. (Before(order[d], k) \ BatchOf(order[d][k]))' = S
      BY <1>5, <1>8
    <2>2. S \in SUBSET LogIds
      BY <1>2, <1>3
    <2> HIDE DEF S
    <2>3. HeadWriters(Before(order[d], k) \ BatchOf(order[d][k]))'
             = {n[1] : n \in {y \in S : \A x \in S : y \notin Past(x)'}}
      BY <2>1 DEF HeadWriters
    <2>4. HeadWriters(Before(order[d], k) \ BatchOf(order[d][k]))' = HeadWriters(S)
      BY <2>2, <2>3, HeadWritersStay
    <2> QED BY <2>4 DEF S
  <1>12. HeadsInApply(order[d], k)' = HeadsInApply(order[d], k)
    <2>1. CASE CountsBatch
      <3>1. HeadsInApply(order[d], k)' = HeadWriters(Before(order[d], k) \cup BatchOf(order[d][k]))'
        BY <2>1 DEF HeadsInApply
      <3>2. HeadsInApply(order[d], k) = HeadWriters(B \cup BatchOf(m))
        BY <2>1 DEF HeadsInApply, B, m
      <3> QED BY <3>1, <3>2, <1>10
    <2>2. CASE ~CountsBatch
      <3>1. HeadsInApply(order[d], k)' = HeadWriters(Before(order[d], k) \ BatchOf(order[d][k]))'
        BY <2>2 DEF HeadsInApply
      <3>2. HeadsInApply(order[d], k) = HeadWriters(B \ BatchOf(m))
        BY <2>2 DEF HeadsInApply, B, m
      <3> QED BY <3>1, <3>2, <1>11
    <2> QED BY <2>1, <2>2
  <1>13. Seen(order[d], k)' = Seen(order[d], k)
    BY <1>9, <1>12 DEF Seen, m
  <1> QED BY <1>4, <1>7, <1>13 DEF m

-----------------------------------------------------------------------------
(***************************************************************************)
(* Steps: a replica keeps a part of its views with the nodes they were     *)
(* folded from, or applies one more node.                                  *)
(***************************************************************************)
Keeps(d) ==
    /\ Len(db'[d]) <= Len(db[d])
    /\ \A i \in 1 .. Len(db'[d]) : db'[d][i] = db[d][i]
    /\ \A i \in 1 .. Len(db'[d]) - 1 : order'[d][i] = order[d][i]

Extends(d) ==
    LET k == Len(db[d])
    IN  /\ order' = order
        /\ Len(db'[d]) = k + 1
        /\ \A i \in 1 .. k : db'[d][i] = db[d][i]
        /\ db'[d][k + 1] = Apply(db[d][k], order[d][k], Op(order[d][k]), Seen(order[d], k))
        /\ k \in 1 .. Len(order[d])

\* A step that rewrites no log rewrites no node.
LEMMA LogsStay ==
    ASSUME log' = log
    PROVE  NodesStay
  BY DEF NodesStay, LogIds, Node

\* A replica keeps its views if they stay and its order grows.
LEMMA UntouchedKeeps ==
    ASSUME Inv, NEW d \in Drives, db'[d] = db[d],
           \A i \in 1 .. Len(order[d]) : order'[d][i] = order[d][i]
    PROVE  Keeps(d) /\ Len(db'[d]) = Len(db[d])
  <1>1. /\ Len(db[d]) \in Nat /\ Len(db[d]) \in 1 .. Len(order[d]) + 1
        /\ Len(order[d]) \in Nat
    BY LenProperties DEF Inv, TypeInv, PrefixInv
  <1>2. \A i \in 1 .. Len(db[d]) - 1 : i \in 1 .. Len(order[d])
    BY <1>1
  <1> QED BY <1>1, <1>2 DEF Keeps

\* An append leaves the views alone.
LEMMA AppendKeeps ==
    ASSUME Inv, NEW r \in Drives, NEW s \in Sessions, AppendQueue(r, s)
    PROVE  NodesStay /\ \A d \in Drives : Keeps(d) /\ Len(db'[d]) = Len(db[d])
  <1>1. NodesStay /\ db' = db
    BY AppendGrows DEF NodesStay, AppendQueue
  <1> QED BY <1>1, AppendGrows, UntouchedKeeps

\* A replica that goes back keeps the first of its views, the others all of theirs.
LEMMA UndoneKeeps ==
    ASSUME Inv, NEW r \in Drives, Restart(r) \/ \E w \in Drives : Deliver(r, w)
    PROVE  /\ NodesStay /\ log' = log
           /\ \A d \in Drives : Keeps(d)
           /\ \A d \in Drives \ {r} : db'[d] = db[d] /\ order'[d] = order[d]
  <1>1. Len(db[r]) \in Nat /\ Len(db[r]) \in 1 .. Len(order[r]) + 1
    BY LenProperties DEF Inv, TypeInv, PrefixInv
  <1>2. \E k \in 0 .. Applied(r) : \E o :
           /\ log' = log
           /\ \A i \in 1 .. k : o[i] = order[r][i]
           /\ order' = [order EXCEPT ![r] = o]
           /\ db' = [db EXCEPT ![r] = SubSeq(db[r], 1, k + 1)]
    <2>1. CASE \E w \in Drives : Deliver(r, w)
      <3>1. PICK o : Reorder(r, o) /\ log' = log
        BY <2>1 DEF Deliver
      <3> QED BY <3>1 DEF Reorder
    <2>2. CASE Restart(r)
      <3>1. PICK k \in 0 .. published[r] :
               db' = [db EXCEPT ![r] = SubSeq(db[r], 1, k + 1)]
        BY <2>2 DEF Restart
      <3>2. k \in 0 .. Applied(r)
        BY <1>1 DEF Inv, TypeInv, PrefixInv, Applied
      <3>3. log' = log /\ order' = [order EXCEPT ![r] = order[r]]
        BY <2>2 DEF Restart, Inv, TypeInv
      <3> QED BY <3>1, <3>2, <3>3
    <2> QED BY <2>1, <2>2
  <1>3. PICK k \in 0 .. Applied(r) : \E o :
           /\ log' = log
           /\ \A i \in 1 .. k : o[i] = order[r][i]
           /\ order' = [order EXCEPT ![r] = o]
           /\ db' = [db EXCEPT ![r] = SubSeq(db[r], 1, k + 1)]
    BY <1>2
  <1>4. PICK o :
           /\ log' = log
           /\ \A i \in 1 .. k : o[i] = order[r][i]
           /\ order' = [order EXCEPT ![r] = o]
           /\ db' = [db EXCEPT ![r] = SubSeq(db[r], 1, k + 1)]
    BY <1>3
  <1>5. /\ db'[r] = SubSeq(db[r], 1, k + 1) /\ order'[r] = o
        /\ \A d \in Drives \ {r} : db'[d] = db[d] /\ order'[d] = order[d]
    BY <1>4 DEF Inv, TypeInv
  <1>6. Keeps(r)
    <2>1. /\ Len(db'[r]) = k + 1
          /\ \A i \in 1 .. k + 1 : db'[r][i] = db[r][i]
      BY <1>5, UndoKeeps
    <2>2. k + 1 <= Len(db[r]) /\ k \in Nat
      BY <1>1 DEF Applied
    <2>3. \A i \in 1 .. Len(db'[r]) - 1 : order'[r][i] = order[r][i]
      BY <1>4, <1>5, <2>1, <2>2
    <2> QED BY <2>1, <2>2, <2>3 DEF Keeps
  <1>7. \A d \in Drives \ {r} : Keeps(d)
    BY <1>5, UntouchedKeeps
  <1> QED BY <1>4, <1>5, <1>6, <1>7, LogsStay

\* A replica that applies a node adds a view.
LEMMA AppliedExtends ==
    ASSUME Inv, NEW r \in Drives, ApplyNext(r)
    PROVE  /\ NodesStay /\ log' = log /\ order' = order
           /\ Extends(r)
           /\ \A d \in Drives \ {r} : db'[d] = db[d] /\ Keeps(d)
  <1> DEFINE k == Len(db[r])
             v == Apply(db[r][k], order[r][k], Op(order[r][k]), Seen(order[r], k))
  <1>1. /\ Len(db[r]) \in Nat /\ Len(db[r]) \in 1 .. Len(order[r]) + 1
        /\ Len(order[r]) \in Nat
    BY LenProperties DEF Inv, TypeInv, PrefixInv
  <1>2. k = Applied(r) + 1 /\ LastView(r) = db[r][k]
    BY <1>1 DEF Applied, LastView
  <1>3. /\ db' = [db EXCEPT ![r] = Append(db[r], v)]
        /\ log' = log /\ order' = order
        /\ Applied(r) # Len(order[r])
    BY <1>2 DEF ApplyNext, Idle
  <1>4. k \in 1 .. Len(order[r])
    BY <1>1, <1>3 DEF Applied
  <1>5. db'[r] = Append(db[r], v) /\ \A d \in Drives \ {r} : db'[d] = db[d]
    BY <1>3 DEF Inv, TypeInv
  <1>6. db[r] \in Seq(Views) /\ db'[r] \in Seq(Views)
    BY ApplyNextInv DEF Inv, TypeInv
  <1> HIDE DEF v
  <1>7. /\ Len(db'[r]) = k + 1 /\ db'[r][k + 1] = v
        /\ \A i \in 1 .. k : db'[r][i] = db[r][i]
    BY <1>5, <1>6
  <1>8. Extends(r)
    BY <1>3, <1>4, <1>7 DEF Extends, v
  <1>9. \A d \in Drives \ {r} : Keeps(d)
    BY <1>3, <1>5, UntouchedKeeps
  <1> QED BY <1>3, <1>5, <1>8, <1>9, LogsStay

\* No step rewrites a node, at most one replica applies one, and all others
\* keep what they have.
LEMMA StepShape ==
    ASSUME Inv, [Next]_vars
    PROVE  /\ NodesStay
           /\ \/ \A d \in Drives : Keeps(d)
              \/ \E r \in Drives : Extends(r) /\ \A d \in Drives \ {r} : Keeps(d)
  <1>1. ASSUME UNCHANGED <<log, order, db>>
        PROVE  NodesStay /\ \A d \in Drives : Keeps(d)
    BY <1>1, LogsStay, UntouchedKeeps
  <1>2. ASSUME NEW r \in Drives, NEW s \in Sessions, Request(r, s)
        PROVE  UNCHANGED <<log, order, db>>
    BY <1>2 DEF Request, Put, Del, Resolve, WriteStream, Symlink, Admit, Enqueue
  <1>3. ASSUME NEW r \in Drives, NEW s \in Sessions, Submit(r, s)
        PROVE  NodesStay /\ \A d \in Drives : Keeps(d)
    <2>1. AppendQueue(r, s) \/ UNCHANGED <<log, order, db>>
      BY <1>3 DEF Submit, AppendCall, RejectCall, Flush, FlushEmpty, FlushDone
    <2> QED BY <2>1, <1>1, AppendKeeps
  <1>4. CASE UNCHANGED vars
    BY <1>1, <1>4 DEF vars
  <1> QED BY <1>1, <1>2, <1>3, <1>4, UndoneKeeps, AppliedExtends DEF Next, Sync

-----------------------------------------------------------------------------
(***************************************************************************)
(* The views are folds of the orders.                                      *)
(***************************************************************************)
\* They are at first.
LEMMA FoldInit ==
    ASSUME Init
    PROVE  FoldInv
  <1> SUFFICES ASSUME NEW r \in Drives PROVE Folds(r)
    BY DEF FoldInv
  <1>1. db[r] = <<EmptyView(Founders)>>
    BY DEF Init
  <1>2. Len(db[r]) = 1 /\ db[r][1] = EmptyView(Founders)
    BY <1>1
  <1>3. Applied(r) = 0
    BY <1>2 DEF Applied
  <1> QED BY <1>2, <1>3 DEF Folds

\* A replica that keeps a part of its views has a fold, of what is left.
LEMMA KeepsFolds ==
    ASSUME Inv, Inv', FoldInv, NodesStay, NEW d \in Drives, Keeps(d)
    PROVE  Folds(d)'
  <1>1. /\ Len(db[d]) \in Nat /\ Len(db[d]) \in 1 .. Len(order[d]) + 1
        /\ Len(order[d]) \in Nat
        /\ Len(db'[d]) \in Nat /\ Len(db'[d]) >= 1
    BY LenProperties DEF Inv, TypeInv, PrefixInv
  <1>2. db'[d][1] = EmptyView(Founders)
    <2>1. db'[d][1] = db[d][1]
      BY <1>1 DEF Keeps
    <2> QED BY <2>1 DEF FoldInv, Folds
  <1>3. ASSUME NEW k \in 1 .. Len(db'[d]) - 1
        PROVE  db'[d][k + 1] = Apply(db'[d][k], order'[d][k], Op(order[d][k])', Seen(order[d], k)')
    <2>1. /\ k \in 1 .. Applied(d) /\ k \in 1 .. Len(order[d])
          /\ k \in 1 .. Len(db'[d]) /\ k + 1 \in 1 .. Len(db'[d])
      BY <1>1 DEF Keeps, Applied
    <2>2. \A i \in 1 .. k : order'[d][i] = order[d][i]
      BY <1>1 DEF Keeps
    <2>3. /\ Seen(order[d], k)' = Seen(order[d], k)
          /\ order'[d][k] = order[d][k]
          /\ Op(order[d][k])' = Op(order[d][k])
      BY <2>1, <2>2, SeenStays
    <2>4. db'[d][k] = db[d][k] /\ db'[d][k + 1] = db[d][k + 1]
      BY <2>1 DEF Keeps
    <2>5. db[d][k + 1] = Apply(db[d][k], order[d][k], Op(order[d][k]), Seen(order[d], k))
      BY <2>1 DEF FoldInv, Folds
    <2> QED BY <2>3, <2>4, <2>5
  <1> QED BY <1>2, <1>3 DEF Folds, Applied

\* A replica that applies a node has a fold of one node more.
LEMMA ExtendsFolds ==
    ASSUME Inv, FoldInv, NodesStay, NEW d \in Drives, Extends(d)
    PROVE  Folds(d)'
  <1> DEFINE K == Len(db[d])
  <1>1. /\ K \in Nat /\ K >= 1 /\ Len(order[d]) \in Nat
        /\ K \in 1 .. Len(order[d])
        /\ Len(db'[d]) = K + 1 /\ order' = order
        /\ \A i \in 1 .. K : db'[d][i] = db[d][i]
        /\ db'[d][K + 1] = Apply(db[d][K], order[d][K], Op(order[d][K]), Seen(order[d], K))
    BY LenProperties DEF Inv, TypeInv, Extends
  <1>2. \A k \in 1 .. K - 1 :
           db[d][k + 1] = Apply(db[d][k], order[d][k], Op(order[d][k]), Seen(order[d], k))
    BY DEF FoldInv, Folds, Applied
  <1>3. db[d][1] = EmptyView(Founders)
    BY DEF FoldInv, Folds
  <1> HIDE DEF K
  <1>4. db'[d][1] = EmptyView(Founders)
    BY <1>1, <1>3
  <1>5. ASSUME NEW k \in 1 .. K
        PROVE  db'[d][k + 1] = Apply(db'[d][k], order'[d][k], Op(order[d][k])', Seen(order[d], k)')
    <2>1. k \in 1 .. Len(order[d])
      BY <1>1
    <2>2. /\ Seen(order[d], k)' = Seen(order[d], k)
          /\ order'[d][k] = order[d][k]
          /\ Op(order[d][k])' = Op(order[d][k])
      BY <1>1, <2>1, SeenStays
    <2>3. db'[d][k] = db[d][k]
      BY <1>1
    <2>4. CASE k = K
      BY <2>2, <2>3, <2>4, <1>1
    <2>5. CASE k # K
      <3>1. k \in 1 .. K - 1 /\ k + 1 \in 1 .. K
        BY <2>5, <1>1
      <3>2. db'[d][k + 1] = db[d][k + 1]
        BY <3>1, <1>1
      <3>3. db[d][k + 1] = Apply(db[d][k], order[d][k], Op(order[d][k]), Seen(order[d], k))
        BY <3>1, <1>2
      <3> QED BY <2>2, <2>3, <3>2, <3>3
    <2> QED BY <2>4, <2>5
  <1>6. Len(db'[d]) - 1 = K
    BY <1>1
  <1> QED BY <1>4, <1>5, <1>6 DEF Folds, Applied

\* Views stay folds.
LEMMA FoldNext ==
    ASSUME Inv, FoldInv, [Next]_vars
    PROVE  FoldInv'
  <1>1. Inv'
    BY NextInv
  <1>2. ASSUME NEW d \in Drives PROVE Folds(d)'
    BY <1>1, StepShape, KeepsFolds, ExtendsFolds
  <1> QED BY <1>2 DEF FoldInv

-----------------------------------------------------------------------------
(***************************************************************************)
(* Convergence.                                                            *)
(***************************************************************************)
\* Two replicas agree on the first k nodes.
Agree(r, s, k) == \A i \in 1 .. k : order[r][i] = order[s][i]

\* The view that a replica adds is the one any other has after those nodes.
LEMMA ExtensionAgrees ==
    ASSUME Inv, FoldInv, Convergence, NEW r \in Drives, NEW s \in Drives,
           Extends(r), Agree(r, s, Len(db[r])), Len(db[r]) + 1 \in DOMAIN db[s]
    PROVE  db'[r][Len(db[r]) + 1] = db[s][Len(db[r]) + 1]
  <1> DEFINE K == Len(db[r])
  <1>1. /\ K \in Nat /\ K >= 1
        /\ DOMAIN db[r] = 1 .. K /\ DOMAIN db[s] = 1 .. Len(db[s]) /\ Len(db[s]) \in Nat
        /\ db'[r][K + 1] = Apply(db[r][K], order[r][K], Op(order[r][K]), Seen(order[r], K))
    BY LenProperties, ViewsOfReplica DEF Inv, PrefixInv, Extends
  <1>2. K \in 1 .. Applied(s) /\ K \in DOMAIN db[r] \cap DOMAIN db[s]
    BY <1>1 DEF Applied
  <1>3. db[s][K + 1] = Apply(db[s][K], order[s][K], Op(order[s][K]), Seen(order[s], K))
    BY <1>2 DEF FoldInv, Folds
  <1> HIDE DEF K
  <1>4. \A i \in 1 .. K : order[r][i] = order[s][i]
    BY DEF Agree, K
  <1>5. order[r][K] = order[s][K] /\ \A i \in 1 .. K - 1 : order[r][i] = order[s][i]
    BY <1>1, <1>4
  <1>6. db[r][K] = db[s][K]
    BY <1>2, <1>5 DEF Convergence
  <1>7. Seen(order[r], K) = Seen(order[s], K)
    BY <1>1, <1>4, SeenOfPrefix
  <1> QED BY <1>1, <1>3, <1>5, <1>6, <1>7 DEF K

\* No step makes two replicas differ.
LEMMA ConvergenceNext ==
    ASSUME Inv, FoldInv, Convergence, [Next]_vars
    PROVE  Convergence'
  <1>1. Inv'
    BY NextInv
  <1>2. \A d \in Drives : /\ DOMAIN db[d] = 1 .. Len(db[d]) /\ Len(db[d]) \in Nat
                          /\ DOMAIN db'[d] = 1 .. Len(db'[d]) /\ Len(db'[d]) \in Nat
    <2>1. \A d \in Drives : DOMAIN db[d] = 1 .. Len(db[d]) /\ Len(db[d]) \in Nat
      BY ViewsOfReplica
    <2>2. \A d \in Drives : DOMAIN db'[d] = 1 .. Len(db'[d]) /\ Len(db'[d]) \in Nat
      BY <1>1, LenProperties DEF Inv, TypeInv
    <2> QED BY <2>1, <2>2
  <1> SUFFICES ASSUME NEW r \in Drives, NEW s \in Drives,
                      NEW k \in DOMAIN db'[r] \cap DOMAIN db'[s],
                      \A i \in 1 .. k - 1 : order'[r][i] = order'[s][i]
               PROVE  db'[r][k] = db'[s][k]
    BY DEF Convergence
  <1>3. ASSUME NEW d \in Drives, Keeps(d), k \in DOMAIN db'[d]
        PROVE  /\ k \in DOMAIN db[d] /\ db'[d][k] = db[d][k]
               /\ \A i \in 1 .. k - 1 : order'[d][i] = order[d][i]
    BY <1>2, <1>3 DEF Keeps
  <1>4. CASE Keeps(r) /\ Keeps(s)
    <2>1. /\ k \in DOMAIN db[r] \cap DOMAIN db[s]
          /\ db'[r][k] = db[r][k] /\ db'[s][k] = db[s][k]
          /\ \A i \in 1 .. k - 1 : order'[r][i] = order[r][i] /\ order'[s][i] = order[s][i]
      BY <1>3, <1>4
    <2>2. \A i \in 1 .. k - 1 : order[r][i] = order[s][i]
      BY <2>1
    <2> QED BY <2>1, <2>2 DEF Convergence
  <1>5. ASSUME NEW x \in Drives, NEW y \in Drives, Extends(x), Keeps(y), x # y,
               k \in DOMAIN db'[x] \cap DOMAIN db'[y],
               \A i \in 1 .. k - 1 : order'[x][i] = order'[y][i]
        PROVE  db'[x][k] = db'[y][k]
    <2> DEFINE K == Len(db[x])
    <2>1. /\ order' = order /\ Len(db'[x]) = K + 1
          /\ \A i \in 1 .. K : db'[x][i] = db[x][i]
      BY <1>5 DEF Extends
    <2>2. k \in DOMAIN db[y] /\ db'[y][k] = db[y][k]
      BY <1>3, <1>5
    <2>3. \A i \in 1 .. k - 1 : order[x][i] = order[y][i]
      BY <1>5, <2>1
    <2>4. k \in 1 .. K + 1 /\ K \in Nat
      BY <1>2, <1>5, <2>1
    <2>5. CASE k \in 1 .. K
      <3>1. k \in DOMAIN db[x] \cap DOMAIN db[y] /\ db'[x][k] = db[x][k]
        BY <1>2, <2>1, <2>2, <2>5
      <3> QED BY <2>2, <2>3, <3>1 DEF Convergence
    <2>6. CASE k = K + 1
      <3>1. Agree(x, y, K)
        BY <2>3, <2>4, <2>6 DEF Agree
      <3> QED BY <1>5, <2>2, <2>6, <3>1, ExtensionAgrees
    <2> QED BY <2>4, <2>5, <2>6
  <1>6. CASE r = s
    BY <1>6
  <1> QED BY <1>4, <1>5, <1>6, StepShape

\* Whatever replicas received, undid and applied again, those that have applied
\* the same nodes in the same order have the same files, history and conflicts.
THEOREM ReplicasConverge == Spec => []Convergence
  <1>1. Init => Inv /\ FoldInv /\ Convergence
    <2> SUFFICES ASSUME Init PROVE Inv /\ FoldInv /\ Convergence
      OBVIOUS
    <2>1. \A r \in Drives : db[r] = <<EmptyView(Founders)>> /\ DOMAIN db[r] = {1}
      BY DEF Init
    <2>2. Convergence
      BY <2>1 DEF Convergence
    <2> QED BY <2>2, InitInv, FoldInit
  <1>2. (Inv /\ FoldInv /\ Convergence) /\ [Next]_vars => (Inv /\ FoldInv /\ Convergence)'
    BY NextInv, FoldNext, ConvergenceNext
  <1> QED BY <1>1, <1>2, PTL DEF Spec

-----------------------------------------------------------------------------
(***************************************************************************)
(* Conflicts.                                                              *)
(***************************************************************************)
\* On every replica a path in conflict stays as it is until it is resolved.
THEOREM ConflictsStayFrozen == Spec => []ConflictsAreFrozen
  <1>1. Inv /\ FoldInv => ConflictsAreFrozen
    <2> SUFFICES ASSUME Inv, FoldInv, NEW r \in Drives, NEW k \in 1 .. Applied(r),
                        NEW p \in Paths, InConflict(db[r][k], p),
                        db[r][k].history[p] # db[r][k + 1].history[p]
                 PROVE  /\ Op(order[r][k]).type = "resolution" /\ Op(order[r][k]).path = p
                        /\ ~InConflict(db[r][k + 1], p)
      BY DEF ConflictsAreFrozen
    <2>1. db[r][k + 1] = Apply(db[r][k], order[r][k], Op(order[r][k]), Seen(order[r], k))
      BY DEF FoldInv, Folds
    <2>2. /\ Len(db[r]) \in Nat /\ Len(db[r]) \in 1 .. Len(order[r]) + 1
          /\ order[r] \in Seq(LogIds) /\ Len(order[r]) \in Nat
      BY LenProperties DEF Inv, TypeInv, PrefixInv
    <2>3. k \in 1 .. Len(db[r]) /\ k \in 1 .. Len(order[r])
      BY <2>2 DEF Applied
    <2>4. ViewInv(db[r][k])
      BY <2>3 DEF Inv, ViewsInv
    <2>5. order[r][k] \in LogIds
      BY <2>2, <2>3, ElementOfSeq
    <2>6. order[r][k] \in Nodes /\ Op(order[r][k]) \in Ops
      BY <2>5, NodeParts DEF Inv
    <2> QED BY <2>1, <2>4, <2>6, ConflictFreezes
  <1>2. Init => Inv /\ FoldInv
    BY InitInv, FoldInit
  <1>3. (Inv /\ FoldInv) /\ [Next]_vars => (Inv /\ FoldInv)'
    BY NextInv, FoldNext
  <1> QED BY <1>1, <1>2, <1>3, PTL DEF Spec

-----------------------------------------------------------------------------
(***************************************************************************)
(* Batches.                                                                *)
(***************************************************************************)
\* The nodes of a batch are side by side.
Contiguous(o) ==
    \A i \in 1 .. Len(o) :
        ~EndsBatch(o[i]) => /\ i + 1 \in 1 .. Len(o)
                            /\ o[i + 1] = <<o[i][1], o[i][2] + 1>>

\* Orders keep batches together, and readers are shown whole ones.
BatchInv ==
    /\ \A r \in Drives : Contiguous(order[r])
    /\ BatchesAreAtomic

\* Nodes keep their place in a batch.
LEMMA EndsStay ==
    ASSUME Inv, NodesStay, NEW n \in LogIds
    PROVE  EndsBatch(n)' <=> EndsBatch(n)
  BY DEF NodesStay, EndsBatch

\* A step that leaves log and order alone.
LEMMA SameOrder ==
    ASSUME Inv, BatchInv, log' = log, order' = order,
           \A d \in Drives : published'[d] = published[d] \/ published'[d] = 0
                             \/ EndsBatch(order[d][published'[d]])
    PROVE  BatchInv'
  <1>1. \A n : EndsBatch(n)' <=> EndsBatch(n)
    BY DEF EndsBatch, Node
  <1>2. ASSUME NEW d \in Drives PROVE Contiguous(order[d])'
    <2>1. Contiguous(order[d])
      BY DEF BatchInv
    <2> QED BY <2>1, <1>1 DEF Contiguous
  <1>3. ASSUME NEW d \in Drives, published'[d] > 0
        PROVE  EndsBatch(order[d][published[d]])'
    <2>1. EndsBatch(order[d][published'[d]])
      BY <1>3 DEF BatchInv, BatchesAreAtomic
    <2> QED BY <2>1, <1>1
  <1> QED BY <1>2, <1>3 DEF BatchInv, BatchesAreAtomic

\* An append puts its nodes at the end of the order, and the last one ends the
\* batch.
LEMMA AppendAdds ==
    ASSUME Inv, NEW r \in Drives, NEW s \in Sessions, AppendQueue(r, s)
    PROVE  LET m == Len(queue[r][s])
           IN  /\ m \in Nat
               /\ Len(order'[r]) = Len(order[r]) + m
               /\ \A d \in Drives \ {r} : order'[d] = order[d]
               /\ \A i \in 1 .. m :
                     /\ order'[r][Len(order[r]) + i] = <<r, Len(log[r]) + i>>
                     /\ log'[r][Len(log[r]) + i].last = Len(log[r]) + m
  <1> DEFINE ops == queue[r][s]
             m == Len(ops)
             new == NewNodes(r, ops, Elements(order[r]))
             ids == [i \in 1 .. m |-> <<r, Len(log[r]) + i>>]
             L == log[r]
             O == order[r]
  <1>1. /\ log' = [log EXCEPT ![r] = L \o new]
        /\ order' = [order EXCEPT ![r] = O \o ids]
    BY DEF AppendQueue
  <1>2. /\ L \in Seq(NodeRecords) /\ O \in Seq(LogIds) /\ m \in Nat
        /\ Len(L) \in Nat /\ Len(O) \in Nat
    BY LenProperties DEF Inv, TypeInv
  <1>3. /\ log'[r] = L \o new /\ order'[r] = O \o ids
        /\ \A d \in Drives \ {r} : order'[d] = order[d]
    BY <1>1 DEF Inv, TypeInv
  <1>4. /\ new = [i \in 1 .. m |-> new[i]]
        /\ \A i \in 1 .. m : new[i].last = Len(L) + m
    BY DEF NewNodes
  <1>5. /\ ids = [i \in 1 .. m |-> ids[i]]
        /\ \A i \in 1 .. m : ids[i] = <<r, Len(L) + i>>
    OBVIOUS
  <1> HIDE DEF new, ids, m, L, O
  <1>6. new \in Seq({new[i] : i \in 1 .. m}) /\ Len(new) = m
    BY <1>2, <1>4
  <1>7. ids \in Seq({ids[i] : i \in 1 .. m}) /\ Len(ids) = m
    <2> DEFINE T == {ids[i] : i \in 1 .. m}
    <2>1. ids = [i \in 1 .. m |-> ids[i]] /\ \A i \in 1 .. m : ids[i] \in T
      BY <1>5
    <2>2. m \in Nat
      BY <1>2
    <2> HIDE DEF T
    <2>3. ids \in [1 .. m -> T]
      BY <2>1, Zenon
    <2>4. ids \in Seq(T) /\ Len(ids) = m
      BY <2>2, <2>3
    <2> QED BY <2>4 DEF T
  <1> DEFINE N == {new[i] : i \in 1 .. m}
             D == {ids[i] : i \in 1 .. m}
  <1>8. new \in Seq(N) /\ ids \in Seq(D)
    BY <1>6, <1>7
  <1> HIDE DEF N, D
  <1>9. Len(O \o ids) = Len(O) + m
    <2>1. Len(O \o ids) = Len(O) + Len(ids)
      BY <1>2, <1>8, ConcatKeeps
    <2> QED BY <2>1, <1>7
  <1>10. ASSUME NEW i \in 1 .. m
         PROVE  (O \o ids)[Len(O) + i] = ids[i] /\ (L \o new)[Len(L) + i] = new[i]
    <2>1. i \in 1 .. Len(ids) /\ i \in 1 .. Len(new)
      BY <1>6, <1>7
    <2> QED BY <1>2, <1>8, <2>1, ConcatAdds
  <1>11. ASSUME NEW i \in 1 .. m
         PROVE  /\ order'[r][Len(O) + i] = <<r, Len(L) + i>>
                /\ log'[r][Len(L) + i].last = Len(L) + m
    <2>1. order'[r][Len(O) + i] = ids[i] /\ log'[r][Len(L) + i] = new[i]
      BY <1>3, <1>10, Zenon
    <2>2. ids[i] = <<r, Len(L) + i>> /\ new[i].last = Len(L) + m
      BY <1>4, <1>5, Zenon
    <2> QED BY <2>1, <2>2, Zenon
  <1> QED BY <1>2, <1>3, <1>9, <1>11 DEF m, L, O, ops

\* An append keeps batches together: the batch before it had ended.
LEMMA AppendBatches ==
    ASSUME Inv, BatchInv, NEW r \in Drives, NEW s \in Sessions, AppendQueue(r, s)
    PROVE  BatchInv'
  <1> DEFINE m == Len(queue[r][s])
             L == Len(log[r])
             K == Len(order[r])
  <1>1. /\ \A d \in Drives : order[d] \in Seq(LogIds) /\ Len(order[d]) \in Nat
        /\ L \in Nat /\ K \in Nat
        /\ \A d \in Drives : published[d] \in 0 .. Len(order[d])
    BY LenProperties DEF Inv, TypeInv, PrefixInv
  <1>2. /\ m \in Nat /\ Len(order'[r]) = K + m
        /\ \A d \in Drives \ {r} : order'[d] = order[d]
        /\ \A i \in 1 .. m : /\ order'[r][K + i] = <<r, L + i>>
                             /\ log'[r][L + i].last = L + m
    BY AppendAdds
  <1>3. /\ NodesStay
        /\ \A d \in Drives : \A i \in 1 .. Len(order[d]) : order'[d][i] = order[d][i]
        /\ published' = published
    BY AppendGrows DEF NodesStay, AppendQueue
  <1>4. ASSUME NEW d \in Drives, NEW i \in 1 .. Len(order[d])
        PROVE  /\ order'[d][i] = order[d][i] /\ order[d][i] \in LogIds
               /\ EndsBatch(order[d][i])' <=> EndsBatch(order[d][i])
    <2>1. order'[d][i] = order[d][i] /\ order[d][i] \in LogIds
      BY <1>1, <1>3, ElementOfSeq
    <2>2. \A n \in LogIds : (n[2] = (log'[n[1]][n[2]]).last) <=> EndsBatch(n)
      BY <1>3 DEF NodesStay, EndsBatch, Node
    <2>3. EndsBatch(order[d][i])' <=>
             (order'[d][i][2] = (log'[order'[d][i][1]][order'[d][i][2]]).last)
      BY DEF EndsBatch, Node
    <2> QED BY <2>1, <2>2, <2>3
  <1> HIDE DEF m, L, K
  <1>5. ASSUME NEW d \in Drives, NEW i \in 1 .. Len(order[d]), ~EndsBatch(order[d][i])'
        PROVE  /\ i + 1 \in 1 .. Len(order[d])
               /\ order'[d][i + 1] = <<order'[d][i][1], order'[d][i][2] + 1>>
    <2>1. ~EndsBatch(order[d][i])
      BY <1>4, <1>5
    <2>2. /\ i + 1 \in 1 .. Len(order[d])
          /\ order[d][i + 1] = <<order[d][i][1], order[d][i][2] + 1>>
      BY <2>1 DEF BatchInv, Contiguous
    <2> QED BY <2>2, <1>4
  <1>6. ASSUME NEW d \in Drives, d # r PROVE Contiguous(order[d])'
    <2>1. order'[d] = order[d]
      BY <1>2, <1>6
    <2> QED BY <2>1, <1>5 DEF Contiguous
  <1>7. Contiguous(order[r])'
    <2> SUFFICES ASSUME NEW i \in 1 .. Len(order'[r]), ~EndsBatch(order[r][i])'
                 PROVE  /\ i + 1 \in 1 .. Len(order'[r])
                        /\ order'[r][i + 1] = <<order'[r][i][1], order'[r][i][2] + 1>>
      BY DEF Contiguous
    <2>1. CASE i \in 1 .. K
      BY <1>1, <1>2, <1>5, <2>1 DEF K
    <2>2. CASE i \notin 1 .. K
      <3>1. PICK j \in 1 .. m : i = K + j
        <4>1. i - K \in 1 .. m /\ i = K + (i - K)
          BY <1>1, <1>2, <2>2
        <4> QED BY <4>1
      <3>2. order'[r][i] = <<r, L + j>> /\ log'[r][L + j].last = L + m
        BY <1>2, <3>1
      <3>3. EndsBatch(order[r][i])' <=>
               (order'[r][i][2] = (log'[order'[r][i][1]][order'[r][i][2]]).last)
        BY DEF EndsBatch, Node
      <3>4. L + j # L + m
        BY <3>2, <3>3
      <3>5. j + 1 \in 1 .. m /\ i + 1 = K + (j + 1) /\ L + (j + 1) = (L + j) + 1
        BY <1>1, <1>2, <3>1, <3>4
      <3>6. order'[r][i + 1] = <<r, (L + j) + 1>>
        BY <1>2, <3>5
      <3>7. i + 1 \in 1 .. Len(order'[r])
        BY <1>1, <1>2, <3>5
      <3> QED BY <3>2, <3>6, <3>7
    <2> QED BY <2>1, <2>2
  <1>8. BatchesAreAtomic'
    <2> SUFFICES ASSUME NEW d \in Drives, published'[d] > 0
                 PROVE  EndsBatch(order[d][published[d]])'
      BY DEF BatchesAreAtomic
    <2>1. published[d] \in 1 .. Len(order[d]) /\ published'[d] = published[d]
      BY <1>1, <1>3
    <2>2. EndsBatch(order[d][published[d]])
      BY <2>1 DEF BatchInv, BatchesAreAtomic
    <2> DEFINE k == published[d]
    <2>3. EndsBatch(order[d][published[d]])' <=>
             (order'[d][k][2] = (log'[order'[d][k][1]][order'[d][k][2]]).last)
      BY <2>1 DEF EndsBatch, Node
    <2>4. order'[d][k] = order[d][k] /\ order[d][k] \in LogIds
      BY <2>1, <1>4
    <2>5. \A n \in LogIds : (n[2] = (log'[n[1]][n[2]]).last) <=> EndsBatch(n)
      BY <1>3 DEF NodesStay, EndsBatch, Node
    <2> QED BY <2>2, <2>3, <2>4, <2>5
  <1> QED BY <1>6, <1>7, <1>8 DEF BatchInv

\* A replica that undoes down to where two orders part never parts a batch:
\* inside one, both have the same node next.
LEMMA DeliverBatches ==
    ASSUME Inv, BatchInv, NEW r \in Drives, NEW w \in Drives, Deliver(r, w)
    PROVE  BatchInv'
  <1>1. PICK n \in LogIds :
           /\ n[2] = Node(n).first /\ Idle(r)
           /\ \E o \in [1 .. Len(order[r]) + Cardinality(BatchOf(n)) ->
                           Elements(order[r]) \cup BatchOf(n)] :
                 Linearization(o) /\ Reorder(r, o)
    BY DEF Deliver
  <1>2. PICK o \in Seq(LogIds) : Linearization(o) /\ Reorder(r, o)
    BY <1>1, DeliveredIds
  <1>3. PICK k \in 0 .. Applied(r) :
           /\ k <= Len(o)
           /\ \A i \in 1 .. k : o[i] = order[r][i]
           /\ k < Len(o) /\ k < Applied(r) => o[k + 1] # order[r][k + 1]
           /\ order' = [order EXCEPT ![r] = o]
           /\ published' = [published EXCEPT ![r] = k]
    BY <1>2 DEF Reorder
  <1>4. /\ log' = log
        /\ order'[r] = o /\ published'[r] = k
        /\ \A d \in Drives \ {r} : order'[d] = order[d] /\ published'[d] = published[d]
    BY <1>3 DEF Deliver, Inv, TypeInv
  <1>5. Len(o) \in Nat /\ Applied(r) = Len(order[r]) /\ Len(order[r]) \in Nat
    BY <1>1, LenProperties DEF Idle, Inv, TypeInv
  <1>6. Contiguous(o)
    <2>1. DOMAIN o = 1 .. Len(o)
      BY <1>2
    <2> QED BY <1>2, <2>1 DEF Linearization, Contiguous
  <1>7. k > 0 => EndsBatch(o[k])
    <2> SUFFICES ASSUME k > 0, ~EndsBatch(o[k]) PROVE FALSE
      OBVIOUS
    <2>1. k \in 1 .. Len(o) /\ k \in 1 .. Len(order[r]) /\ o[k] = order[r][k]
      BY <1>3, <1>5
    <2>2. k + 1 \in 1 .. Len(o) /\ o[k + 1] = <<o[k][1], o[k][2] + 1>>
      BY <1>6, <2>1 DEF Contiguous
    <2>3. ~EndsBatch(order[r][k])
      BY <2>1
    <2>4. k + 1 \in 1 .. Len(order[r])
          /\ order[r][k + 1] = <<order[r][k][1], order[r][k][2] + 1>>
      BY <2>1, <2>3 DEF BatchInv, Contiguous
    <2>5. k < Len(o) /\ k < Applied(r)
      BY <1>5, <2>1, <2>2, <2>4
    <2> QED BY <1>3, <2>1, <2>2, <2>4, <2>5
  <1>8. \A x : (x[2] = (log'[x[1]][x[2]]).last) <=> EndsBatch(x)
    BY <1>4 DEF EndsBatch, Node
  <1>9. ASSUME NEW d \in Drives PROVE Contiguous(order[d])'
    <2>1. Contiguous(order'[d])
      BY <1>4, <1>6 DEF BatchInv
    <2>2. Contiguous(order[d])' <=>
             \A i \in 1 .. Len(order'[d]) :
                order'[d][i][2] # (log'[order'[d][i][1]][order'[d][i][2]]).last =>
                   /\ i + 1 \in 1 .. Len(order'[d])
                   /\ order'[d][i + 1] = <<order'[d][i][1], order'[d][i][2] + 1>>
      BY DEF Contiguous, EndsBatch, Node
    <2> QED BY <2>1, <2>2, <1>8 DEF Contiguous
  <1>10. ASSUME NEW d \in Drives, published'[d] > 0
         PROVE  EndsBatch(order[d][published[d]])'
    <2>1. EndsBatch(order'[d][published'[d]])
      BY <1>3, <1>4, <1>7, <1>10 DEF BatchInv, BatchesAreAtomic
    <2>2. EndsBatch(order[d][published[d]])' <=>
             (LET x == order'[d][published'[d]]
              IN  x[2] = (log'[x[1]][x[2]]).last)
      BY DEF EndsBatch, Node
    <2> QED BY <2>1, <2>2, <1>8
  <1> QED BY <1>9, <1>10 DEF BatchInv, BatchesAreAtomic

\* Batches stay together, and readers never see a part of one.
LEMMA BatchNext ==
    ASSUME Inv, BatchInv, [Next]_vars
    PROVE  BatchInv'
  <1>1. ASSUME UNCHANGED <<log, order, published>> PROVE BatchInv'
    BY <1>1, SameOrder
  <1>2. ASSUME NEW r \in Drives, ApplyNext(r) PROVE BatchInv'
    <2> DEFINE k == Applied(r) + 1
    <2>1. /\ log' = log /\ order' = order
          /\ published' = [published EXCEPT ![r] = Shown(r, k)]
      BY <1>2 DEF ApplyNext
    <2>2. \A d \in Drives : published'[d] = published[d] \/ published'[d] = 0
                            \/ EndsBatch(order[d][published'[d]])
      BY <2>1 DEF Shown, Inv, TypeInv
    <2> QED BY <2>1, <2>2, SameOrder
  <1>3. ASSUME NEW r \in Drives, Restart(r) PROVE BatchInv'
    <2>1. PICK k \in 0 .. published[r] :
             /\ k > 0 => EndsBatch(order[r][k])
             /\ published' = [published EXCEPT ![r] = k]
      BY <1>3 DEF Restart
    <2>2. log' = log /\ order' = order
      BY <1>3 DEF Restart
    <2>3. k \in Nat
      BY <2>1 DEF Inv, TypeInv
    <2>4. \A d \in Drives : published'[d] = published[d] \/ published'[d] = 0
                            \/ EndsBatch(order[d][published'[d]])
      BY <2>1, <2>3 DEF Inv, TypeInv
    <2> QED BY <2>2, <2>4, SameOrder
  <1>4. ASSUME NEW r \in Drives, NEW s \in Sessions, Request(r, s)
        PROVE  UNCHANGED <<log, order, published>>
    BY <1>4 DEF Request, Put, Del, Resolve, WriteStream, Symlink, Admit, Enqueue
  <1>5. ASSUME NEW r \in Drives, NEW s \in Sessions, Submit(r, s)
        PROVE  AppendQueue(r, s) \/ UNCHANGED <<log, order, published>>
    BY <1>5 DEF Submit, AppendCall, RejectCall, Flush, FlushEmpty, FlushDone
  <1>6. CASE UNCHANGED vars
    BY <1>1, <1>6 DEF vars
  <1> QED BY <1>1, <1>2, <1>3, <1>4, <1>5, <1>6, AppendBatches, DeliverBatches
          DEF Next, Sync

\* Readers of any replica see all of a batch or nothing of it, through every
\* append, undoing, restart and flush().
THEOREM BatchesStayAtomic == Spec => []BatchesAreAtomic
  <1>1. Init => Inv /\ BatchInv
    <2> SUFFICES ASSUME Init PROVE BatchInv
      BY InitInv
    <2>1. \A r \in Drives : Len(order[r]) = 0 /\ published[r] = 0
      BY DEF Init
    <2> QED BY <2>1 DEF BatchInv, Contiguous, BatchesAreAtomic
  <1>2. (Inv /\ BatchInv) /\ [Next]_vars => (Inv /\ BatchInv)'
    BY NextInv, BatchNext
  <1>3. BatchInv => BatchesAreAtomic
    BY DEF BatchInv
  <1> QED BY <1>1, <1>2, <1>3, PTL DEF Spec
=============================================================================
