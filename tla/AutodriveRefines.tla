-------------------------- MODULE AutodriveRefines --------------------------
(***************************************************************************)
(* The replicas of Autodrive implement SharedFiles: what a database stands *)
(* for, read the way its users read it, by entry(), history(), getBySeq()  *)
(* and conflicts().                                                        *)
(***************************************************************************)
EXTENDS Autodrive

Nobody == <<>>

\* The versions of a path in the order of their numbers: the i-th is the one
\* with i - 1 before it.
KeysBelow(h, k) == {j \in DOMAIN h : j < k}
KeyAt(h, i) == CHOOSE k \in DOMAIN h : Cardinality(KeysBelow(h, k)) = i - 1

\* What history() (1078-1109) yields for a record: its entry, by its number.
VersionAt(v, p, k) ==
    [author |-> v.history[p][k].source,
     file   |-> IF v.history[p][k].type = "tombstone" THEN Nobody ELSE v.blocks[k].node]

FileSystem(v) ==
    [p \in Paths |->
        [file     |-> IF p \in DOMAIN v.files THEN v.files[p].node ELSE Nobody,
         versions |-> [i \in 1 .. Cardinality(DOMAIN v.history[p]) |->
                          VersionAt(v, p, KeyAt(v.history[p], i))],
         rivals   |-> {v.conflicts[p][k] : k \in DOMAIN v.conflicts[p]}]]

Requested(op) ==
    CASE op.type = "addition" -> [kind |-> "write", path |-> op.path]
      [] op.type = "deletion" -> [kind |-> "delete", path |-> op.path]
      [] op.type = "resolution" -> [kind |-> "settle", path |-> op.path, file |-> op.file]
      [] OTHER -> [kind |-> "membership"]

Line(r) ==
    [i \in DOMAIN db[r] |->
        [by    |-> IF i = 1 THEN Nobody ELSE order[r][i - 1],
         files |-> FileSystem(db[r][i])]]

Promised == INSTANCE SharedFiles WITH
    written <- {[name |-> n, request |-> Requested(Op(n))] : n \in LogIds},
    line    <- [r \in Drives |-> Line(r)]

\* A drive is a file system its writers share: every database a replica goes
\* through stands for a state SharedFiles allows after the one before it,
\* whatever was delivered, undone, queued or restarted.
ImplementsSharedFiles == Promised!Spec
=============================================================================
