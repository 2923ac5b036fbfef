-------------------------- MODULE AutodriveProofs --------------------------
(***************************************************************************)
(* Theorems about Autodrive, for any number of drives, paths, calls and    *)
(* batch sessions, any namespaces and any bounds.                          *)
(***************************************************************************)
EXTENDS Autodrive, FileViewProofs

\* The types of the variables, with the sets TLC cannot enumerate.
TypeInv ==
    /\ log \in [Drives -> Seq(NodeRecords)]
    /\ order \in [Drives -> Seq(LogIds)]
    /\ db \in [Drives -> Seq(Views)]
    /\ published \in [Drives -> Nat]
    /\ queue \in [Drives -> [Sessions -> Seq(Ops)]]
    /\ phase \in [Drives -> [Batches -> {"open", "flushing", "flushed"}]]
    /\ root \in [Drives -> [Batches -> Seq(Views)]]
    /\ restarts \in Nat

\* The nodes of a batch are all in the log.
LogShape == \A n \in LogIds : Node(n).last <= Len(log[n[1]])

\* There is a view for every applied prefix of an order.
PrefixInv ==
    \A r \in Drives :
        /\ Len(db[r]) \in 1 .. Len(order[r]) + 1
        /\ published[r] \in 0 .. Len(db[r]) - 1

\* Every view keeps its promises.
ViewsInv == \A r \in Drives : \A k \in 1 .. Len(db[r]) : ViewInv(db[r][k])

Inv == TypeInv /\ LogShape /\ PrefixInv /\ ViewsInv

-----------------------------------------------------------------------------
(***************************************************************************)
(* The logs only grow.                                                     *)
(***************************************************************************)
\* The nodes of the logs are the pairs of a writer and an index of its log.
LEMMA LogIdsAre ==
    ASSUME TypeInv
    PROVE  /\ LogIds \subseteq Nodes
           /\ \A n \in LogIds : /\ n[1] \in Drives /\ n[2] \in 1 .. Len(log[n[1]])
                                /\ n = <<n[1], n[2]>>
                                /\ Node(n) \in NodeRecords
           /\ \A w \in Drives : \A i \in 1 .. Len(log[w]) : <<w, i>> \in LogIds
  <1>1. \A w \in Drives : log[w] \in Seq(NodeRecords) /\ Len(log[w]) \in Nat
    BY LenProperties DEF TypeInv
  <1>2. ASSUME NEW n \in LogIds
        PROVE  /\ n \in Nodes
               /\ n[1] \in Drives /\ n[2] \in 1 .. Len(log[n[1]])
               /\ n = <<n[1], n[2]>>
    BY <1>1 DEF LogIds, Nodes
  <1>3. ASSUME NEW n \in LogIds PROVE Node(n) \in NodeRecords
    BY <1>1, <1>2, ElementOfSeq DEF Node
  <1>4. \A w \in Drives : \A i \in 1 .. Len(log[w]) : <<w, i>> \in LogIds
    BY DEF LogIds
  <1> QED BY <1>2, <1>3, <1>4

\* The operations a node holds are operations.
LEMMA NodeParts ==
    ASSUME TypeInv, NEW n \in LogIds
    PROVE  n \in Nodes /\ Op(n) \in Ops /\ Past(n) \subseteq LogIds
  BY LogIdsAre DEF NodeRecords, Op, Past

\* Appending to a sequence keeps its elements where they are.
LEMMA ConcatKeeps ==
    ASSUME NEW S, NEW T, NEW s \in Seq(S), NEW t \in Seq(T)
    PROVE  /\ Len(s) \in Nat /\ Len(t) \in Nat
           /\ Len(s \o t) = Len(s) + Len(t)
           /\ \A i \in 1 .. Len(s) : (s \o t)[i] = s[i]
  <1> DEFINE U == S \cup T
  <1>1. s \in Seq(U) /\ t \in Seq(U)
    OBVIOUS
  <1> HIDE DEF U
  <1>2. Len(s) \in Nat /\ Len(t) \in Nat
    OBVIOUS
  <1> QED BY <1>1, <1>2

\* The elements appended follow in their order.
LEMMA ConcatAdds ==
    ASSUME NEW S, NEW T, NEW s \in Seq(S), NEW t \in Seq(T), NEW i \in 1 .. Len(t)
    PROVE  (s \o t)[Len(s) + i] = t[i]
  <1> DEFINE U == S \cup T
  <1>1. s \in Seq(U) /\ t \in Seq(U)
    OBVIOUS
  <1> HIDE DEF U
  <1> QED BY <1>1

\* An append leaves the nodes there are as they are, and adds nodes that link
\* to nodes that are there.
LEMMA AppendGrows ==
    ASSUME Inv, NEW r \in Drives, NEW s \in Sessions, AppendQueue(r, s)
    PROVE  /\ LogIds \subseteq LogIds'
           /\ \A n \in LogIds : Node(n)' = Node(n)
           /\ log' \in [Drives -> Seq(NodeRecords')]
           /\ LogShape'
           /\ order' \in [Drives -> Seq(LogIds')]
           /\ \A d \in Drives : /\ Len(order'[d]) >= Len(order[d])
                                /\ \A i \in 1 .. Len(order[d]) : order'[d][i] = order[d][i]
  <1> DEFINE ops == queue[r][s]
             known == Elements(order[r])
             new == NewNodes(r, ops, known)
             ids == [i \in 1 .. Len(ops) |-> <<r, Len(log[r]) + i>>]
  <1>1. /\ log' = [log EXCEPT ![r] = log[r] \o new]
        /\ order' = [order EXCEPT ![r] = order[r] \o ids]
    BY DEF AppendQueue
  <1> HIDE DEF ids
  <1>2. /\ log \in [Drives -> Seq(NodeRecords)] /\ order \in [Drives -> Seq(LogIds)]
        /\ ops \in Seq(Ops) /\ Len(ops) \in Nat
        /\ \A d \in Drives : Len(log[d]) \in Nat /\ Len(order[d]) \in Nat
    BY LenProperties DEF Inv, TypeInv
  <1>3. known \subseteq LogIds /\ LogIds \subseteq Nodes
    BY <1>2, LogIdsAre, ElementOfSeq DEF Elements, Inv
  <1>4. /\ DOMAIN new = 1 .. Len(ops)
        /\ \A i \in 1 .. Len(ops) :
              new[i] = [op    |-> ops[i],
                        past  |-> known \cup {r} \X (Len(log[r]) + 1 .. Len(log[r]) + i - 1),
                        first |-> Len(log[r]) + 1,
                        last  |-> Len(log[r]) + Len(ops)]
    BY DEF NewNodes
  <1> HIDE DEF new, known, ops
  <1>5. new \in Seq({new[i] : i \in 1 .. Len(ops)}) /\ Len(new) = Len(ops)
    <2>1. new = [i \in 1 .. Len(ops) |-> new[i]]
      BY <1>4 DEF new, NewNodes
    <2> QED BY <2>1, <1>2
  <1>6. /\ Len(log'[r]) = Len(log[r]) + Len(ops)
        /\ \A i \in 1 .. Len(log[r]) : log'[r][i] = log[r][i]
        /\ \A d \in Drives \ {r} : log'[d] = log[d]
        /\ \A d \in Drives : Len(log'[d]) \in Nat /\ Len(log'[d]) >= Len(log[d])
    <2>1. /\ Len(log[r] \o new) = Len(log[r]) + Len(ops)
          /\ \A i \in 1 .. Len(log[r]) : (log[r] \o new)[i] = log[r][i]
      <3> DEFINE T == {new[i] : i \in 1 .. Len(ops)}
      <3>1. log[r] \in Seq(NodeRecords) /\ new \in Seq(T) /\ Len(new) = Len(ops)
        BY <1>2, <1>5
      <3> HIDE DEF T
      <3> QED BY <3>1, ConcatKeeps, SMTT(30)
    <2>2. log'[r] = log[r] \o new /\ \A d \in Drives \ {r} : log'[d] = log[d]
      BY <1>1, <1>2
    <2>3. \A d \in Drives : Len(log'[d]) \in Nat /\ Len(log'[d]) >= Len(log[d])
      <3>1. Len(log'[r]) \in Nat /\ Len(log'[r]) >= Len(log[r])
        BY <2>1, <2>2, <1>2
      <3>2. \A d \in Drives \ {r} : Len(log'[d]) \in Nat /\ Len(log'[d]) >= Len(log[d])
        BY <2>2, <1>2
      <3> QED BY <3>1, <3>2
    <2> QED BY <2>1, <2>2, <2>3
  <1>7. /\ LogIds \subseteq LogIds'
        /\ \A i \in 1 .. Len(ops) : <<r, Len(log[r]) + i>> \in LogIds'
    <2>1. ASSUME NEW d \in Drives PROVE 1 .. Len(log[d]) \subseteq 1 .. Len(log'[d])
      BY <1>2, <1>6
    <2>2. ASSUME NEW i \in 1 .. Len(ops) PROVE Len(log[r]) + i \in 1 .. Len(log'[r])
      BY <1>2, <1>6
    <2> QED BY <2>1, <2>2 DEF LogIds
  <1>8. \A n \in LogIds : Node(n)' = Node(n)
    <2> SUFFICES ASSUME NEW n \in LogIds PROVE log'[n[1]][n[2]] = log[n[1]][n[2]]
      BY DEF Node
    <2>1. n[1] \in Drives /\ n[2] \in 1 .. Len(log[n[1]])
      BY LogIdsAre DEF Inv
    <2> QED BY <2>1, <1>6
  <1>9. log' \in [Drives -> Seq(NodeRecords')]
    <2>1. ASSUME NEW i \in 1 .. Len(ops) PROVE new[i] \in NodeRecords'
      <3>1. ops[i] \in Ops
        BY <1>2, ElementOfSeq
      <3>2. {r} \X (Len(log[r]) + 1 .. Len(log[r]) + i - 1) \subseteq LogIds'
        <4> SUFFICES ASSUME NEW j \in Len(log[r]) + 1 .. Len(log[r]) + i - 1
                     PROVE  <<r, j>> \in LogIds'
          OBVIOUS
        <4>1. j \in 1 .. Len(log'[r])
          BY <1>2, <1>6
        <4> QED BY <4>1 DEF LogIds
      <3>3. Len(log[r]) + 1 \in Nat \ {0} /\ Len(log[r]) + Len(ops) \in Nat \ {0}
        BY <1>2
      <3>4. known \cup {r} \X (Len(log[r]) + 1 .. Len(log[r]) + i - 1) \in SUBSET LogIds'
        BY <3>2, <1>3, <1>7
      <3>5. NodeRecords' = [op : Ops, past : SUBSET LogIds', first : Nat \ {0}, last : Nat \ {0}]
        BY DEF NodeRecords
      <3> QED BY <3>1, <3>3, <3>4, <3>5, <1>4
    <2>2. new \in Seq(NodeRecords')
      BY <2>1, <1>4, <1>5
    <2>3. NodeRecords \subseteq NodeRecords'
      BY <1>7 DEF NodeRecords
    <2>4. ASSUME NEW d \in Drives PROVE log[d] \in Seq(NodeRecords')
      BY <2>3, <1>2
    <2> QED BY <2>2, <2>4, <1>1, <1>2
  <1>10. /\ order' \in [Drives -> Seq(LogIds')]
         /\ \A d \in Drives : /\ Len(order'[d]) >= Len(order[d])
                              /\ \A i \in 1 .. Len(order[d]) : order'[d][i] = order[d][i]
    <2>1. ids \in Seq(LogIds') /\ Len(ids) = Len(ops)
      BY <1>2, <1>7 DEF ids
    <2>2. ASSUME NEW d \in Drives PROVE order[d] \in Seq(LogIds')
      BY <1>2, <1>7
    <2> QED BY <2>1, <2>2, <1>1, <1>2
  <1>11. LogShape'
    <2> SUFFICES ASSUME NEW n \in LogIds' PROVE log'[n[1]][n[2]].last <= Len(log'[n[1]])
      BY DEF LogShape, Node
    <2>1. n[1] \in Drives /\ n[2] \in 1 .. Len(log'[n[1]]) /\ n = <<n[1], n[2]>>
      BY DEF LogIds
    <2>2. CASE n \in LogIds
      <3>1. log'[n[1]][n[2]] = log[n[1]][n[2]]
        BY <2>2, <1>8 DEF Node
      <3>2. log[n[1]][n[2]].last <= Len(log[n[1]]) /\ log[n[1]][n[2]].last \in Nat
        BY <2>2, LogIdsAre DEF Inv, LogShape, Node, NodeRecords
      <3> QED BY <3>1, <3>2, <2>1, <1>2, <1>6
    <2>3. CASE n \notin LogIds
      <3>1. ~(n[2] \in 1 .. Len(log[n[1]]))
        BY <2>1, <2>3, LogIdsAre DEF Inv
      <3>2. n[1] = r
        BY <3>1, <2>1, <1>6
      <3>3. PICK i \in 1 .. Len(ops) : n[2] = Len(log[r]) + i
        <4>1. n[2] - Len(log[r]) \in 1 .. Len(ops) /\ n[2] = Len(log[r]) + (n[2] - Len(log[r]))
          BY <3>1, <3>2, <2>1, <1>2, <1>6
        <4> QED BY <4>1
      <3>4. log'[r][n[2]] = new[i]
        <4> DEFINE T == {new[j] : j \in 1 .. Len(ops)}
        <4>1. log[r] \in Seq(NodeRecords) /\ new \in Seq(T) /\ Len(new) = Len(ops)
          BY <1>2, <1>5
        <4>2. log'[r] = log[r] \o new
          BY <1>1, <1>2
        <4> HIDE DEF T
        <4>3. (log[r] \o new)[Len(log[r]) + i] = new[i]
          BY <4>1, <3>3, ConcatAdds
        <4> QED BY <4>2, <4>3, <3>3
      <3> QED BY <3>2, <3>3, <3>4, <1>2, <1>4, <1>6
    <2> QED BY <2>2, <2>3
  <1> QED BY <1>7, <1>8, <1>9, <1>10, <1>11

-----------------------------------------------------------------------------
(***************************************************************************)
(* The steps.                                                              *)
(***************************************************************************)
\* What the main session reads is a view that keeps its promises.
LEMMA CurrentInv ==
    ASSUME Inv, NEW r \in Drives
    PROVE  ViewInv(Current(r)) /\ Current(r) \in Views
  <1>1. Len(db[r]) \in Nat
    BY LenProperties DEF Inv, TypeInv
  <1>2. published[r] + 1 \in 1 .. Len(db[r])
    BY <1>1 DEF Inv, PrefixInv
  <1>3. ViewInv(Current(r))
    BY <1>2 DEF Inv, ViewsInv, Current
  <1> QED BY <1>3 DEF ViewInv

\* A session that reads keeps the type of its root.
LEMMA LoadType ==
    ASSUME Inv, NEW r \in Drives, NEW s \in Sessions, Load(r, s)
    PROVE  root' \in [Drives -> [Batches -> Seq(Views)]]
  <1>1. <<Current(r)>> \in Seq(Views)
    BY CurrentInv
  <1>2. root \in [Drives -> [Batches -> Seq(Views)]]
    BY DEF Inv, TypeInv
  <1>3. CASE root' = root
    BY <1>2, <1>3
  <1>4. CASE s \in Batches /\ root' = [root EXCEPT ![r][s] = <<Current(r)>>]
    BY <1>1, <1>2, <1>4
  <1> QED BY <1>3, <1>4 DEF Load

\* A step that leaves logs and views alone only has to keep its types.
LEMMA LocalStep ==
    ASSUME Inv, UNCHANGED <<log, order, db, published>>,
           queue' \in [Drives -> [Sessions -> Seq(Ops)]],
           phase' \in [Drives -> [Batches -> {"open", "flushing", "flushed"}]],
           root' \in [Drives -> [Batches -> Seq(Views)]],
           restarts' \in Nat
    PROVE  Inv'
  <1>1. LogIds' = LogIds /\ NodeRecords' = NodeRecords
    BY DEF LogIds, NodeRecords
  <1>2. TypeInv'
    BY <1>1 DEF Inv, TypeInv
  <1>3. LogShape'
    BY <1>1 DEF Inv, LogShape, Node
  <1>4. PrefixInv' /\ ViewsInv'
    BY DEF Inv, PrefixInv, ViewsInv
  <1> QED BY <1>2, <1>3, <1>4 DEF Inv

\* Calls leave well-formed operations waiting.
LEMMA EnqueueInv ==
    ASSUME Inv, NEW r \in Drives, NEW s \in Sessions, NEW op \in Ops,
           Enqueue(r, s, op), root' \in [Drives -> [Batches -> Seq(Views)]]
    PROVE  Inv'
  <1>1. queue[r][s] \in Seq(Ops)
    BY DEF Inv, TypeInv
  <1>2. Append(queue[r][s], op) \in Seq(Ops)
    BY <1>1
  <1>3. queue' \in [Drives -> [Sessions -> Seq(Ops)]]
    BY <1>2 DEF Enqueue, Inv, TypeInv
  <1>4. UNCHANGED <<log, order, db, published>> /\ phase' = phase /\ restarts' = restarts
    BY DEF Enqueue
  <1>5. /\ phase' \in [Drives -> [Batches -> {"open", "flushing", "flushed"}]]
        /\ restarts' \in Nat
    BY <1>4 DEF Inv, TypeInv
  <1> QED BY <1>3, <1>4, <1>5, LocalStep

\* The operations the API makes are operations.
LEMMA OpTypes ==
    ASSUME NEW p \in Paths, NEW f \in BOOLEAN, NEW d \in Drives
    PROVE  /\ Addition(p) \in Ops /\ Deletion(p) \in Ops
           /\ Resolution(p, f) \in Ops /\ Membership(d, f) \in Ops
  BY DEF Ops, FileOps, WriterOps, Addition, Deletion, Resolution, Membership

\* Every call of the API.
LEMMA RequestInv ==
    ASSUME Inv, NEW r \in Drives, NEW s \in Sessions, Request(r, s)
    PROVE  Inv'
  <1>1. ASSUME NEW p \in Paths, Put(r, s, p) PROVE Inv'
    <2>1. Load(r, s) /\ Enqueue(r, s, Addition(p))
      BY <1>1 DEF Put
    <2>2. Addition(p) \in Ops
      BY OpTypes
    <2> QED BY <2>1, <2>2, LoadType, EnqueueInv
  <1>2. ASSUME NEW p \in Paths, Del(r, s, p) PROVE Inv'
    <2>1. Load(r, s) /\ Enqueue(r, s, Deletion(p))
      BY <1>2 DEF Del
    <2>2. Deletion(p) \in Ops
      BY OpTypes
    <2> QED BY <2>1, <2>2, LoadType, EnqueueInv
  <1>3. ASSUME NEW p \in Paths, NEW f \in BOOLEAN, Resolve(r, s, p, f) PROVE Inv'
    <2>1. Load(r, s) /\ Enqueue(r, s, Resolution(p, f))
      BY <1>3 DEF Resolve
    <2>2. Resolution(p, f) \in Ops
      BY OpTypes
    <2> QED BY <2>1, <2>2, LoadType, EnqueueInv
  <1>4. ASSUME NEW p \in Paths, NEW f \in BOOLEAN, WriteStream(r, s, p, f) PROVE Inv'
    <2> DEFINE op == IF f THEN Resolution(p, TRUE) ELSE Addition(p)
    <2>1. Load(r, s) /\ Enqueue(r, s, op)
      BY <1>4 DEF WriteStream
    <2>2. op \in Ops
      BY OpTypes
    <2> QED BY <2>1, <2>2, LoadType, EnqueueInv
  <1>5. ASSUME NEW p \in Paths, NEW f \in BOOLEAN, Symlink(r, s, p, f) PROVE Inv'
    <2> DEFINE op == IF f THEN Resolution(p, TRUE) ELSE Addition(p)
    <2>1. root' = root /\ Enqueue(r, s, op)
      BY <1>5 DEF Symlink
    <2>2. op \in Ops
      BY OpTypes
    <2>3. root' \in [Drives -> [Batches -> Seq(Views)]]
      BY <2>1 DEF Inv, TypeInv
    <2> QED BY <2>1, <2>2, <2>3, EnqueueInv
  <1>6. ASSUME NEW d \in Guests, NEW f \in BOOLEAN, Admit(r, s, d, f) PROVE Inv'
    <2>1. root' = root /\ Enqueue(r, s, Membership(d, f))
      BY <1>6 DEF Admit
    <2>2. Membership(d, f) \in Ops
      BY MembersAssumption DEF Ops, WriterOps, Membership
    <2>3. root' \in [Drives -> [Batches -> Seq(Views)]]
      BY <2>1 DEF Inv, TypeInv
    <2> QED BY <2>1, <2>2, <2>3, EnqueueInv
  <1> QED BY <1>1, <1>2, <1>3, <1>4, <1>5, <1>6 DEF Request

\* An append, by a call or by flush().
LEMMA AppendInv ==
    ASSUME Inv, NEW r \in Drives, NEW s \in Sessions, AppendQueue(r, s),
           queue' \in [Drives -> [Sessions -> Seq(Ops)]],
           phase' \in [Drives -> [Batches -> {"open", "flushing", "flushed"}]]
    PROVE  Inv'
  <1>1. UNCHANGED <<db, published, root, restarts>>
    BY DEF AppendQueue
  <1>2. /\ log' \in [Drives -> Seq(NodeRecords')]
        /\ order' \in [Drives -> Seq(LogIds')]
        /\ LogShape'
        /\ \A d \in Drives : Len(order'[d]) >= Len(order[d])
    BY AppendGrows
  <1>3. TypeInv'
    BY <1>1, <1>2 DEF Inv, TypeInv
  <1>4. PrefixInv'
    <2> SUFFICES ASSUME NEW d \in Drives
                 PROVE  /\ Len(db[d]) \in 1 .. Len(order'[d]) + 1
                        /\ published[d] \in 0 .. Len(db[d]) - 1
      BY <1>1 DEF PrefixInv
    <2>1. Len(order'[d]) \in Nat /\ Len(order[d]) \in Nat
      BY <1>2, LenProperties DEF Inv, TypeInv
    <2> QED BY <2>1, <1>2 DEF Inv, PrefixInv
  <1>5. ViewsInv'
    BY <1>1 DEF Inv, ViewsInv
  <1> QED BY <1>2, <1>3, <1>4, <1>5 DEF Inv

\* Everything that takes operations out of a queue.
LEMMA SubmitInv ==
    ASSUME Inv, NEW r \in Drives, NEW s \in Sessions, Submit(r, s)
    PROVE  Inv'
  <1>1. /\ queue \in [Drives -> [Sessions -> Seq(Ops)]]
        /\ phase \in [Drives -> [Batches -> {"open", "flushing", "flushed"}]]
        /\ root \in [Drives -> [Batches -> Seq(Views)]]
        /\ restarts \in Nat
        /\ << >> \in Seq(Ops)
    BY DEF Inv, TypeInv
  <1>2. [queue EXCEPT ![r][s] = << >>] \in [Drives -> [Sessions -> Seq(Ops)]]
    BY <1>1
  <1>3. CASE AppendCall(r, s)
    <2>1. AppendQueue(r, s) /\ queue' = [queue EXCEPT ![r][s] = << >>] /\ phase' = phase
      BY <1>3 DEF AppendCall
    <2>2. /\ queue' \in [Drives -> [Sessions -> Seq(Ops)]]
          /\ phase' \in [Drives -> [Batches -> {"open", "flushing", "flushed"}]]
      BY <2>1, <1>1, <1>2
    <2> QED BY <2>1, <2>2, AppendInv
  <1>4. CASE RejectCall(r, s)
    <2>1. /\ UNCHANGED <<log, order, db, published>>
          /\ queue' = [queue EXCEPT ![r][s] = << >>]
          /\ phase' = phase /\ root' = root /\ restarts' = restarts
      BY <1>4 DEF RejectCall
    <2>2. /\ queue' \in [Drives -> [Sessions -> Seq(Ops)]]
          /\ phase' \in [Drives -> [Batches -> {"open", "flushing", "flushed"}]]
          /\ root' \in [Drives -> [Batches -> Seq(Views)]]
          /\ restarts' \in Nat
      BY <2>1, <1>1, <1>2
    <2> QED BY <2>1, <2>2, LocalStep
  <1>5. CASE Flush(r, s)
    <2>1. /\ AppendQueue(r, s) /\ queue' = queue
          /\ s \in Batches /\ phase' = [phase EXCEPT ![r][s] = "flushing"]
      BY <1>5 DEF Flush
    <2>2. /\ queue' \in [Drives -> [Sessions -> Seq(Ops)]]
          /\ phase' \in [Drives -> [Batches -> {"open", "flushing", "flushed"}]]
      BY <2>1, <1>1
    <2> QED BY <2>1, <2>2, AppendInv
  <1>6. CASE FlushDone(r, s)
    <2>1. /\ UNCHANGED <<log, order, db, published>>
          /\ queue' = [queue EXCEPT ![r][s] = << >>]
          /\ s \in Batches /\ phase' = [phase EXCEPT ![r][s] = "flushed"]
          /\ root' = root /\ restarts' = restarts
      BY <1>6 DEF FlushDone
    <2>2. /\ queue' \in [Drives -> [Sessions -> Seq(Ops)]]
          /\ phase' \in [Drives -> [Batches -> {"open", "flushing", "flushed"}]]
          /\ root' \in [Drives -> [Batches -> Seq(Views)]]
          /\ restarts' \in Nat
      BY <2>1, <1>1, <1>2
    <2> QED BY <2>1, <2>2, LocalStep
  <1>7. CASE FlushEmpty(r, s)
    <2>1. /\ UNCHANGED <<log, order, db, published>>
          /\ s \in Batches /\ phase' = [phase EXCEPT ![r][s] = "flushing"]
          /\ root' = [root EXCEPT ![r][s] = << >>]
          /\ queue' = queue /\ restarts' = restarts
      BY <1>7 DEF FlushEmpty
    <2>2. << >> \in Seq(Views)
      OBVIOUS
    <2>3. root' \in [Drives -> [Batches -> Seq(Views)]]
      BY <2>1, <2>2, <1>1
    <2>4. /\ queue' \in [Drives -> [Sessions -> Seq(Ops)]]
          /\ phase' \in [Drives -> [Batches -> {"open", "flushing", "flushed"}]]
          /\ restarts' \in Nat
      BY <2>1, <1>1
    <2> QED BY <2>1, <2>3, <2>4, LocalStep
  <1> QED BY <1>3, <1>4, <1>5, <1>6, <1>7 DEF Submit

\* Undoing leaves some of the views there were.
LEMMA UndoKeeps ==
    ASSUME Inv, NEW r \in Drives, NEW k \in 0 .. Applied(r)
    PROVE  /\ SubSeq(db[r], 1, k + 1) \in Seq(Views)
           /\ Len(SubSeq(db[r], 1, k + 1)) = k + 1
           /\ \A i \in 1 .. k + 1 : /\ SubSeq(db[r], 1, k + 1)[i] = db[r][i]
                                    /\ i \in 1 .. Len(db[r])
  <1>1. db[r] \in Seq(Views) /\ Len(db[r]) \in Nat /\ k + 1 \in 1 .. Len(db[r])
    BY LenProperties DEF Inv, TypeInv, PrefixInv, Applied
  <1> DEFINE v == db[r]
  <1> HIDE DEF v
  <1>2. v \in Seq(Views) /\ Len(v) \in Nat /\ k + 1 \in 1 .. Len(v)
    BY <1>1 DEF v
  <1>3. /\ SubSeq(v, 1, k + 1) \in Seq(Views)
        /\ Len(SubSeq(v, 1, k + 1)) = k + 1
        /\ \A i \in 1 .. k + 1 : SubSeq(v, 1, k + 1)[i] = v[i] /\ i \in 1 .. Len(v)
    BY <1>2
  <1> QED BY <1>3 DEF v

\* A replica that goes back to the view after k nodes, its order now being o.
LEMMA UndoInv ==
    ASSUME Inv, NEW r \in Drives, NEW k \in 0 .. Applied(r),
           NEW o \in Seq(LogIds), k <= Len(o),
           log' = log,
           order' = [order EXCEPT ![r] = o],
           db' = [db EXCEPT ![r] = SubSeq(db[r], 1, k + 1)],
           published' = [published EXCEPT ![r] = k],
           queue' \in [Drives -> [Sessions -> Seq(Ops)]],
           phase' \in [Drives -> [Batches -> {"open", "flushing", "flushed"}]],
           root' \in [Drives -> [Batches -> Seq(Views)]],
           restarts' \in Nat
    PROVE  Inv'
  <1>1. LogIds' = LogIds /\ NodeRecords' = NodeRecords
    BY DEF LogIds, NodeRecords
  <1>2. Len(db[r]) \in Nat /\ Len(o) \in Nat /\ k \in Nat
    BY LenProperties DEF Inv, TypeInv, Applied
  <1>3. TypeInv'
    <2>1. order' \in [Drives -> Seq(LogIds)]
      BY DEF Inv, TypeInv
    <2>2. db' \in [Drives -> Seq(Views)]
      BY UndoKeeps DEF Inv, TypeInv
    <2>3. published' \in [Drives -> Nat]
      BY <1>2 DEF Inv, TypeInv
    <2>4. log' \in [Drives -> Seq(NodeRecords)]
      BY DEF Inv, TypeInv
    <2> QED BY <1>1, <2>1, <2>2, <2>3, <2>4 DEF TypeInv
  <1>4. LogShape'
    BY <1>1 DEF Inv, LogShape, Node
  <1>5. PrefixInv'
    <2> SUFFICES ASSUME NEW d \in Drives
                 PROVE  /\ Len(db'[d]) \in 1 .. Len(order'[d]) + 1
                        /\ published'[d] \in 0 .. Len(db'[d]) - 1
      BY DEF PrefixInv
    <2>1. CASE d # r
      BY <2>1 DEF Inv, TypeInv, PrefixInv
    <2>2. CASE d = r
      <3>1. db'[r] = SubSeq(db[r], 1, k + 1) /\ order'[r] = o /\ published'[r] = k
        BY DEF Inv, TypeInv
      <3>2. Len(db'[r]) = k + 1
        BY <3>1, UndoKeeps
      <3> QED BY <2>2, <3>1, <3>2, <1>2
    <2> QED BY <2>1, <2>2
  <1>6. ViewsInv'
    <2> SUFFICES ASSUME NEW d \in Drives, NEW i \in 1 .. Len(db'[d])
                 PROVE  ViewInv(db'[d][i])
      BY DEF ViewsInv
    <2>1. CASE d # r
      BY <2>1 DEF Inv, TypeInv, ViewsInv
    <2>2. CASE d = r
      <3>1. db'[r] = SubSeq(db[r], 1, k + 1)
        BY DEF Inv, TypeInv
      <3>2. db'[r][i] = db[r][i] /\ i \in 1 .. Len(db[r])
        BY <2>2, <3>1, UndoKeeps
      <3> QED BY <2>2, <3>2 DEF Inv, ViewsInv
    <2> QED BY <2>1, <2>2
  <1> QED BY <1>3, <1>4, <1>5, <1>6 DEF Inv

\* The nodes of a batch are in the logs.
LEMMA BatchIds ==
    ASSUME Inv, NEW n \in LogIds
    PROVE  BatchOf(n) \subseteq LogIds
  <1>1. /\ n[1] \in Drives /\ Node(n) \in NodeRecords
        /\ Node(n).first \in Nat \ {0} /\ Node(n).last \in Nat
        /\ Node(n).last <= Len(log[n[1]]) /\ Len(log[n[1]]) \in Nat
    BY LogIdsAre, LenProperties DEF Inv, LogShape, NodeRecords, TypeInv
  <1> SUFFICES ASSUME NEW i \in Node(n).first .. Node(n).last
               PROVE  <<n[1], i>> \in LogIds
    BY DEF BatchOf
  <1>2. i \in 1 .. Len(log[n[1]])
    BY <1>1
  <1> QED BY <1>1, <1>2 DEF LogIds

\* What is known with a batch on top of it is in the logs.
LEMMA DeliveredIds ==
    ASSUME Inv, NEW r \in Drives, NEW n \in LogIds, n[2] = Node(n).first,
           NEW o \in [1 .. Len(order[r]) + Cardinality(BatchOf(n)) ->
                         Elements(order[r]) \cup BatchOf(n)]
    PROVE  o \in Seq(LogIds)
  <1>1. /\ n[1] \in Drives /\ Node(n) \in NodeRecords
        /\ Node(n).first \in Nat \ {0} /\ Node(n).last \in Nat
        /\ Node(n).last <= Len(log[n[1]]) /\ Len(log[n[1]]) \in Nat
        /\ order[r] \in Seq(LogIds) /\ Len(order[r]) \in Nat
    BY LogIdsAre, LenProperties DEF Inv, LogShape, NodeRecords, TypeInv
  <1>2. BatchOf(n) \subseteq LogIds
    BY BatchIds
  <1>3. Cardinality(BatchOf(n)) \in Nat
    <2>1. Node(n).first \in Int /\ Node(n).last \in Int
      BY <1>1
    <2>2. IsFiniteSet(Node(n).first .. Node(n).last)
      BY <2>1, FS_Interval
    <2>3. IsFiniteSet({n[1]})
      BY FS_Singleton
    <2>4. IsFiniteSet({n[1]} \X (Node(n).first .. Node(n).last))
      BY <2>2, <2>3, FS_Product
    <2> QED BY <2>4, FS_CardinalityType DEF BatchOf
  <1>4. Elements(order[r]) \subseteq LogIds
    BY <1>1, ElementOfSeq DEF Elements
  <1> DEFINE m == Len(order[r]) + Cardinality(BatchOf(n))
             S == Elements(order[r]) \cup BatchOf(n)
  <1>5. m \in Nat /\ S \subseteq LogIds /\ o \in [1 .. m -> S]
    BY <1>1, <1>2, <1>3, <1>4
  <1> HIDE DEF m, S
  <1>6. o \in [1 .. m -> LogIds]
    BY <1>5
  <1> QED BY <1>5, <1>6

\* Replica r receives a batch.
LEMMA DeliverInv ==
    ASSUME Inv, NEW r \in Drives, NEW w \in Drives, Deliver(r, w)
    PROVE  Inv'
  <1>1. PICK n \in LogIds :
           /\ n[2] = Node(n).first
           /\ \E o \in [1 .. Len(order[r]) + Cardinality(BatchOf(n)) ->
                           Elements(order[r]) \cup BatchOf(n)] : Reorder(r, o)
    BY DEF Deliver
  <1>2. PICK o \in Seq(LogIds) : Reorder(r, o)
    BY <1>1, DeliveredIds
  <1>3. UNCHANGED <<log, queue, phase, root, restarts>>
    BY DEF Deliver
  <1>4. PICK k \in 0 .. Applied(r) :
           /\ k <= Len(o)
           /\ order' = [order EXCEPT ![r] = o]
           /\ db' = [db EXCEPT ![r] = SubSeq(db[r], 1, k + 1)]
           /\ published' = [published EXCEPT ![r] = k]
    BY <1>2 DEF Reorder
  <1>5. /\ queue' \in [Drives -> [Sessions -> Seq(Ops)]]
        /\ phase' \in [Drives -> [Batches -> {"open", "flushing", "flushed"}]]
        /\ root' \in [Drives -> [Batches -> Seq(Views)]]
        /\ restarts' \in Nat /\ log' = log
    BY <1>3 DEF Inv, TypeInv
  <1> QED BY <1>2, <1>4, <1>5, UndoInv

\* A restart keeps the order and some of the views.
LEMMA RestartInv ==
    ASSUME Inv, NEW r \in Drives, Restart(r)
    PROVE  Inv'
  <1>1. PICK k \in 0 .. published[r] :
           /\ db' = [db EXCEPT ![r] = SubSeq(db[r], 1, k + 1)]
           /\ published' = [published EXCEPT ![r] = k]
    BY DEF Restart
  <1>2. /\ order \in [Drives -> Seq(LogIds)]
        /\ order[r] \in Seq(LogIds) /\ Len(order[r]) \in Nat
        /\ published[r] \in Nat /\ Len(db[r]) \in 1 .. Len(order[r]) + 1
        /\ published[r] \in 0 .. Len(db[r]) - 1
    BY LenProperties DEF Inv, TypeInv, PrefixInv
  <1>3. k \in 0 .. Applied(r) /\ k <= Len(order[r])
    BY <1>2 DEF Applied
  <1>4. log' = log /\ order' = order /\ restarts' = restarts + 1
    BY DEF Restart
  <1>5. order' = [order EXCEPT ![r] = order[r]]
    BY <1>2, <1>4
  <1>6. queue' \in [Drives -> [Sessions -> Seq(Ops)]]
    BY DEF Restart, Inv, TypeInv
  <1>7. phase' \in [Drives -> [Batches -> {"open", "flushing", "flushed"}]]
    BY DEF Restart, Inv, TypeInv
  <1>8. root' \in [Drives -> [Batches -> Seq(Views)]]
    BY DEF Restart, Inv, TypeInv
  <1>9. restarts' \in Nat
    BY <1>4 DEF Inv, TypeInv
  <1> QED BY <1>1, <1>2, <1>3, <1>4, <1>5, <1>6, <1>7, <1>8, <1>9, UndoInv

\* One more node is applied.
LEMMA ApplyNextInv ==
    ASSUME Inv, NEW r \in Drives, ApplyNext(r)
    PROVE  Inv'
  <1> DEFINE k == Applied(r) + 1
             v == Apply(LastView(r), order[r][k], Op(order[r][k]), Seen(order[r], k))
  <1>1. /\ db' = [db EXCEPT ![r] = Append(db[r], v)]
        /\ published' = [published EXCEPT ![r] = Shown(r, k)]
        /\ UNCHANGED <<log, order, queue, phase, root, restarts>>
        /\ Applied(r) # Len(order[r])
    BY DEF ApplyNext, Idle
  <1>2. /\ db[r] \in Seq(Views) /\ Len(db[r]) \in Nat
        /\ order[r] \in Seq(LogIds) /\ Len(order[r]) \in Nat
        /\ Len(db[r]) \in 1 .. Len(order[r]) + 1
        /\ published[r] \in 0 .. Len(db[r]) - 1
    BY LenProperties DEF Inv, TypeInv, PrefixInv
  <1>3. k = Len(db[r]) /\ k \in 1 .. Len(order[r])
    BY <1>1, <1>2 DEF Applied
  <1>4. order[r][k] \in LogIds
    BY <1>2, <1>3, ElementOfSeq
  <1>5. ViewInv(LastView(r))
    BY <1>2 DEF Inv, ViewsInv, LastView
  <1>6. order[r][k] \in Nodes /\ Op(order[r][k]) \in Ops
    BY <1>4, NodeParts DEF Inv
  <1>7. ViewInv(v)
    BY <1>5, <1>6, ApplyInv
  <1>8. v \in Views
    BY <1>7 DEF ViewInv
  <1>9. Shown(r, k) \in 0 .. k
    BY <1>2, <1>3 DEF Shown
  <1> HIDE DEF v, k
  <1>10. /\ Append(db[r], v) \in Seq(Views)
         /\ Len(Append(db[r], v)) = Len(db[r]) + 1
         /\ Append(db[r], v)[Len(db[r]) + 1] = v
         /\ \A i \in 1 .. Len(db[r]) : Append(db[r], v)[i] = db[r][i]
    BY <1>2, <1>8
  <1>11. LogIds' = LogIds /\ NodeRecords' = NodeRecords
    BY <1>1 DEF LogIds, NodeRecords
  <1>12. TypeInv'
    <2>1. db' \in [Drives -> Seq(Views)]
      BY <1>1, <1>10 DEF Inv, TypeInv
    <2>2. published' \in [Drives -> Nat]
      BY <1>1, <1>3, <1>9 DEF Inv, TypeInv
    <2> QED BY <1>1, <1>11, <2>1, <2>2 DEF Inv, TypeInv
  <1>13. LogShape'
    BY <1>1, <1>11 DEF Inv, LogShape, Node
  <1>14. PrefixInv'
    <2> SUFFICES ASSUME NEW d \in Drives
                 PROVE  /\ Len(db'[d]) \in 1 .. Len(order[d]) + 1
                        /\ published'[d] \in 0 .. Len(db'[d]) - 1
      BY <1>1 DEF PrefixInv
    <2>1. CASE d # r
      BY <2>1, <1>1 DEF Inv, TypeInv, PrefixInv
    <2>2. CASE d = r
      <3>1. db'[r] = Append(db[r], v) /\ published'[r] = Shown(r, k)
        BY <1>1 DEF Inv, TypeInv
      <3> QED BY <2>2, <3>1, <1>2, <1>3, <1>9, <1>10
    <2> QED BY <2>1, <2>2
  <1>15. ViewsInv'
    <2> SUFFICES ASSUME NEW d \in Drives, NEW i \in 1 .. Len(db'[d])
                 PROVE  ViewInv(db'[d][i])
      BY DEF ViewsInv
    <2>1. CASE d # r
      BY <2>1, <1>1 DEF Inv, TypeInv, ViewsInv
    <2>2. CASE d = r
      <3>1. db'[r] = Append(db[r], v)
        BY <1>1 DEF Inv, TypeInv
      <3>2. i \in 1 .. Len(db[r]) \/ i = Len(db[r]) + 1
        BY <2>2, <3>1, <1>2, <1>10
      <3>3. db'[r][i] = v \/ (i \in 1 .. Len(db[r]) /\ db'[r][i] = db[r][i])
        BY <3>1, <3>2, <1>10
      <3> QED BY <2>2, <3>3, <1>7 DEF Inv, ViewsInv
    <2> QED BY <2>1, <2>2
  <1> QED BY <1>12, <1>13, <1>14, <1>15 DEF Inv

-----------------------------------------------------------------------------
(***************************************************************************)
(* The invariant, and the properties that follow from it.                  *)
(***************************************************************************)
\* Inv holds when the drives are created.
LEMMA InitInv ==
    ASSUME Init
    PROVE  Inv
  <1>1. ViewInv(EmptyView(Founders)) /\ EmptyView(Founders) \in Views
    <2>1. ViewInv(EmptyView(Founders))
      BY EmptyViewInv, MembersAssumption
    <2> QED BY <2>1 DEF ViewInv
  <1>2. <<EmptyView(Founders)>> \in Seq(Views) /\ Len(<<EmptyView(Founders)>>) = 1
    BY <1>1
  <1>3. \A r \in Drives : db[r] = <<EmptyView(Founders)>> /\ order[r] = << >> /\ published[r] = 0
    BY DEF Init
  <1>4. TypeInv
    <2>1. log \in [Drives -> Seq(NodeRecords)] /\ order \in [Drives -> Seq(LogIds)]
      BY DEF Init
    <2>2. db \in [Drives -> Seq(Views)]
      BY <1>2 DEF Init
    <2>3. published \in [Drives -> Nat] /\ restarts \in Nat
      BY DEF Init
    <2>4. queue \in [Drives -> [Sessions -> Seq(Ops)]]
      BY DEF Init
    <2>5. phase \in [Drives -> [Batches -> {"open", "flushing", "flushed"}]]
      BY DEF Init
    <2>6. root \in [Drives -> [Batches -> Seq(Views)]]
      BY DEF Init
    <2> QED BY <2>1, <2>2, <2>3, <2>4, <2>5, <2>6 DEF TypeInv
  <1>5. LogShape
    BY DEF Init, LogShape, LogIds
  <1>6. PrefixInv
    <2>1. ASSUME NEW r \in Drives
          PROVE  Len(db[r]) = 1 /\ Len(order[r]) = 0 /\ published[r] = 0
      BY <1>2, <1>3
    <2>2. 1 \in 1 .. 0 + 1 /\ 0 \in 0 .. 1 - 1
      OBVIOUS
    <2>3. ASSUME NEW r \in Drives
          PROVE  /\ Len(db[r]) \in 1 .. Len(order[r]) + 1
                 /\ published[r] \in 0 .. Len(db[r]) - 1
      <3>1. /\ Len(db[r]) = 1 /\ Len(order[r]) = 0 /\ published[r] = 0
        BY <2>1
      <3> QED BY <2>2, <3>1
    <2> QED BY <2>3 DEF PrefixInv
  <1>7. ViewsInv
    <2> SUFFICES ASSUME NEW r \in Drives, NEW k \in 1 .. Len(db[r])
                 PROVE  ViewInv(db[r][k])
      BY DEF ViewsInv
    <2>1. db[r] = <<EmptyView(Founders)>> /\ Len(db[r]) = 1
      BY <1>2, <1>3
    <2>2. k = 1
      BY <2>1
    <2> QED BY <2>1, <2>2, <1>1
  <1> QED BY <1>4, <1>5, <1>6, <1>7 DEF Inv

\* No step breaks Inv.
LEMMA NextInv ==
    ASSUME Inv, [Next]_vars
    PROVE  Inv'
  <1>1. CASE Next
    <2>1. PICK r \in Drives :
             \/ \E s \in Sessions : Request(r, s) \/ Submit(r, s)
             \/ Sync(r)
             \/ Restart(r)
      BY <1>1 DEF Next
    <2>2. ASSUME NEW s \in Sessions, Request(r, s) PROVE Inv'
      BY <2>2, RequestInv
    <2>3. ASSUME NEW s \in Sessions, Submit(r, s) PROVE Inv'
      BY <2>3, SubmitInv
    <2>4. CASE Sync(r)
      BY <2>4, ApplyNextInv, DeliverInv DEF Sync
    <2>5. CASE Restart(r)
      BY <2>5, RestartInv
    <2> QED BY <2>1, <2>2, <2>3, <2>4, <2>5
  <1>2. CASE UNCHANGED vars
    <2>1. /\ UNCHANGED <<log, order, db, published>>
          /\ queue' = queue /\ phase' = phase /\ root' = root /\ restarts' = restarts
      BY <1>2 DEF vars
    <2>2. /\ queue' \in [Drives -> [Sessions -> Seq(Ops)]]
          /\ phase' \in [Drives -> [Batches -> {"open", "flushing", "flushed"}]]
          /\ root' \in [Drives -> [Batches -> Seq(Views)]]
          /\ restarts' \in Nat
      BY <2>1 DEF Inv, TypeInv
    <2> QED BY <2>1, <2>2, LocalStep
  <1> QED BY <1>1, <1>2

\* Inv always holds.
THEOREM Invariance == Spec => []Inv
  <1>1. Init => Inv
    BY InitInv
  <1>2. Inv /\ [Next]_vars => Inv'
    BY NextInv
  <1> QED BY <1>1, <1>2, PTL DEF Spec

\* A view in the invariant has the type that TLC checks.
LEMMA ViewsAreTyped ==
    ASSUME NEW v \in Views
    PROVE  ViewType(v)
  <1>1. DOMAIN v.files \subseteq Paths /\ \A p \in DOMAIN v.files : v.files[p] \in Entries
    BY PartialMapsAre DEF Views
  <1>2. ASSUME NEW p \in Paths
        PROVE  KeyedBy(v.history[p], Records) /\ KeyedBy(v.conflicts[p], Nodes)
    <2>1. /\ v.history[p] \in PartialMaps(Versions, Records)
          /\ v.conflicts[p] \in PartialMaps(Versions, Nodes)
      BY DEF Views
    <2> QED BY <2>1, PartialMapsAre DEF KeyedBy
  <1>3. DOMAIN v = {"blocks", "files", "history", "conflicts", "members"}
    BY DEF Views
  <1>4. /\ v.blocks \in Seq(Blocks) /\ v.members \subseteq Drives
        /\ DOMAIN v.history = Paths /\ DOMAIN v.conflicts = Paths
    BY DEF Views
  <1> QED BY <1>1, <1>2, <1>3, <1>4 DEF ViewType

\* The views of a replica are numbered from 1, and all of them are in ViewInv.
LEMMA ViewsOfReplica ==
    ASSUME Inv, NEW r \in Drives
    PROVE  /\ DOMAIN db[r] = 1 .. Len(db[r]) /\ Len(db[r]) \in Nat
           /\ \A k \in DOMAIN db[r] : ViewInv(db[r][k])
  <1>1. DOMAIN db[r] = 1 .. Len(db[r]) /\ Len(db[r]) \in Nat
    BY LenProperties DEF Inv, TypeInv
  <1> QED BY <1>1 DEF Inv, ViewsInv

\* The variables of the model always have their types.
THEOREM TypeCorrect == Spec => []TypeOK
  <1>1. Inv => TypeOK
    <2> SUFFICES ASSUME Inv PROVE TypeOK
      OBVIOUS
    <2>1. ASSUME NEW r \in Drives
          PROVE  /\ DOMAIN db[r] = 1 .. Len(db[r])
                 /\ Len(db[r]) \in 1 .. Len(order[r]) + 1
                 /\ \A k \in DOMAIN db[r] : ViewType(db[r][k])
                 /\ published[r] \in 0 .. Applied(r)
      BY ViewsOfReplica, ViewsAreTyped DEF Inv, PrefixInv, ViewInv, Applied
    <2>2. ASSUME NEW r \in Drives, NEW b \in Batches
          PROVE  \A i \in DOMAIN root[r][b] : ViewType(root[r][b][i])
      <3>1. root[r][b] \in Seq(Views)
        BY DEF Inv, TypeInv
      <3>2. \A i \in DOMAIN root[r][b] : root[r][b][i] \in Views
        BY <3>1, ElementOfSeq, LenProperties
      <3> QED BY <3>2, ViewsAreTyped
    <2>3. DOMAIN db = Drives /\ DOMAIN published = Drives /\ DOMAIN root = Drives
          /\ \A r \in Drives : DOMAIN root[r] = Batches
      BY DEF Inv, TypeInv
    <2>4. /\ log \in [Drives -> Seq(NodeRecords)]
          /\ order \in [Drives -> Seq(LogIds)]
          /\ queue \in [Drives -> [Sessions -> Seq(Ops)]]
          /\ phase \in [Drives -> [Batches -> {"open", "flushing", "flushed"}]]
          /\ restarts \in Nat
      BY DEF Inv, TypeInv
    <2> QED BY <2>1, <2>2, <2>3, <2>4 DEF TypeOK
  <1> QED BY <1>1, Invariance, PTL

\* On every replica, whatever the order, what entry() returns is what history()
\* lists first, and every version history() lists can be read back.
THEOREM HistoryStaysTrue == Spec => []HistoryIsTrue
  <1>1. Inv => HistoryIsTrue
    BY ViewsOfReplica DEF HistoryIsTrue, ViewInv
  <1> QED BY <1>1, Invariance, PTL

\* No replica ever holds a conflict at a path nobody has written.
THEOREM ConflictsStayFounded == Spec => []ConflictsAreWithSomething
  <1>1. Inv => ConflictsAreWithSomething
    BY ViewsOfReplica DEF ConflictsAreWithSomething, ViewInv
  <1> QED BY <1>1, Invariance, PTL

\* No source of another namespace ever gets an entry into a path, though the
\* sessions of batch() and checkout(), symlink() and createWriteStream() do
\* not check it, and whatever was seen, reordered or undone.
THEOREM NamespacesStayKept == Spec => []NamespacesAreKept
  <1>1. Inv => NamespacesAreKept
    BY ViewsOfReplica DEF NamespacesAreKept, ViewInv
  <1> QED BY <1>1, Invariance, PTL
=============================================================================
