----------------------------- MODULE HistoryWalk -----------------------------
(***************************************************************************)
(* The calls of src/src/index.ts that walk the history of a path and read  *)
(* its versions by their numbers: history() (1078-1109), clear() (1201-    *)
(* 1262) and the clearing del() (669-722).                                 *)
(*                                                                         *)
(* The records come from a read stream, which lists the database as it was *)
(* when the stream was opened.  A version is then looked up by getBySeq in *)
(* the database as it is by now: writes may have been applied to it, and   *)
(* it may have been undone and gone another way.  A replica need not hold  *)
(* every block of its database: history() waits for what it lacks, the     *)
(* others do not ({ wait: false }).                                        *)
(***************************************************************************)
EXTENDS FileView

CONSTANTS
    Path,        \* the path that is walked
    WrittenOps,  \* the operations that are applied meanwhile
    MaxLine,     \* bound: operations applied, one less after an undo
    MaxUndos     \* bound: how often the database is undone

ASSUME PathAssumption == Path \in Paths
ASSUME WrittenAssumption == WrittenOps \subseteq FileOps
ASSUME BoundsAssumption == MaxLine \in Nat /\ MaxUndos \in Nat

VARIABLES
    line,      \* the views the database went through, the current one last
    undos,     \* how often it was undone
    sunk,      \* the lowest number of blocks it had since the call began
    lacking,   \* the versions whose blocks the replica did not hold then
    call,      \* the call: none, history, clear or del
    options,   \* its options
    step,      \* how far it is: idle, checking, walking, ended or crashed
    record,    \* the number of the record del() found
    base,      \* the view its stream was opened on
    todo,      \* the records the stream has still to deliver
    reading,   \* the numbers getBySeq has been called for
    late,      \* those still missing when the stream ended
    got        \* what the call obtained: yielded, or to be cleared

database == <<line, undos>>
walk == <<call, options, step, record, base, todo, reading, late, got>>
vars == <<database, sunk, lacking, walk>>

Nothing == << >>
Current == line[Len(line)]
Size == Len(Current.blocks)

-----------------------------------------------------------------------------
(***************************************************************************)
(* The database meanwhile.                                                 *)
(***************************************************************************)
\* Nobody looks at the database after the call.  An undo before it only leads
\* to a database that is reached without.
Over == step \in {"ended", "crashed"} /\ reading = {}

\* Any operation is applied, by a node that is new.
Write ==
    /\ ~Over /\ Len(line) + undos <= MaxLine
    /\ \E d \in Drives, op \in WrittenOps, seen \in BOOLEAN :
          LET n == <<d, Len(line) + undos>>
          IN  line' = Append(line, Apply(Current, n, op, seen))
    /\ UNCHANGED <<undos, sunk, lacking, walk>>

\* The database is undone to an earlier view; what replaces the blocks that go
\* is applied here, and so is held.
Undo ==
    /\ ~Over /\ step # "idle" /\ undos < MaxUndos
    /\ undos' = undos + 1
    /\ \E k \in 1 .. Len(line) - 1 :
          /\ line' = SubSeq(line, 1, k)
          /\ sunk' = IF Len(line[k].blocks) < sunk THEN Len(line[k].blocks) ELSE sunk
    /\ lacking' = {k \in lacking : k <= sunk'}
    /\ UNCHANGED walk

-----------------------------------------------------------------------------
(***************************************************************************)
(* The walk.                                                               *)
(***************************************************************************)
\* The records of a path in the order of their numbers.
Ascending(h) ==
    CHOOSE s \in [1 .. Cardinality(DOMAIN h) -> DOMAIN h] :
        \A i, j \in DOMAIN s : i < j => s[i] < s[j]
Reversed(s) == [i \in DOMAIN s |-> s[Len(s) + 1 - i]]

\* db.getBySeq(k, Files): the entry of a block, whatever its path; Nothing for
\* the block of a deleted key.  A record does not decode as an entry.
Readable(k) == k <= Size /\ Current.blocks[k].sub # "history"
Value(k) ==
    IF Current.blocks[k].sub \in {"file", "conflict"} THEN Current.blocks[k].node ELSE Nothing

\* The entry of the path instead of the version.
ValueAtPath(k) == IF Path \in DOMAIN Current.files THEN Current.files[Path].node ELSE Nothing

GetBySeq(k) == Value(k)

\* The versions of the path on record.
FilesOf(h) == {k \in DOMAIN h : h[k].type = "file"}

Begin(c, o) ==
    /\ step = "idle"
    /\ call' = c /\ options' = o
    /\ sunk' = Size
    /\ lacking' \in IF c = "history" THEN {{}} ELSE SUBSET FilesOf(Current.history[Path])
    /\ reading' = {} /\ late' = {}
    /\ UNCHANGED database

OpenStream(numbers) ==
    /\ base' = Current
    /\ todo' = numbers
    /\ step' = "walking"

\* history(path, { reverse }): open()
History(reverse) ==
    LET numbers == Ascending(Current.history[Path])
    IN  /\ Begin("history", [reverse |-> reverse, history |-> FALSE])
        /\ OpenStream(IF reverse THEN numbers ELSE Reversed(numbers))
        /\ got' = << >>
        /\ UNCHANGED record

\* clear(path, { history: true }), up to the entry, which a conflict hides, as
\* does a block missing on the way to it.
Clear ==
    /\ Begin("clear", [reverse |-> FALSE, history |-> TRUE])
    /\ step' = "checking"
    /\ \/ got' = << >>
       \/ /\ ~InConflict(Current, Path) /\ Path \in DOMAIN Current.files
          /\ got' = <<[seq |-> Current.files[Path].seq, file |-> Current.files[Path].node]>>
    /\ UNCHANGED <<record, base, todo>>

\* del(path, { clear: true, history }), up to the record it finds
Del(history) ==
    /\ Begin("del", [reverse |-> FALSE, history |-> history])
    /\ Recorded(Current, Path) /\ Latest(Current, Path).type # "tombstone"
    /\ record' = LatestKey(Current.history[Path])
    /\ step' = "checking"
    /\ got' = << >>
    /\ UNCHANGED <<base, todo>>

\* The rest of the checks of del(), and the opening of the stream.  Without
\* { history } the record found is the only one.
Walk ==
    /\ step = "checking"
    /\ call = "del" => ~InConflict(Current, Path)
    /\ OpenStream(IF options.history THEN Ascending(Current.history[Path]) ELSE <<record>>)
    /\ UNCHANGED <<database, sunk, lacking, call, options, record, reading, late, got>>

\* del() throws, the path being in conflict by now.
Reject ==
    /\ step = "checking" /\ call = "del" /\ InConflict(Current, Path)
    /\ step' = "ended"
    /\ UNCHANGED <<database, sunk, lacking, call, options, record, base, todo, reading, late, got>>

\* The type of a record; the record del() found was that of a file.
RecordType(k) ==
    IF call = "del" /\ ~options.history THEN "file" ELSE base.history[Path][k].type

\* Nothing is looked at after a deletion.
NoneLeft(numbers) == << >>
Rest(numbers) == Tail(numbers)

\* The walk comes to a deletion: history() yields it, the others go on.
Tombstone ==
    /\ step = "walking" /\ todo # << >>
    /\ call # "history" => reading = {}
    /\ RecordType(Head(todo)) = "tombstone"
    /\ todo' = Rest(todo)
    /\ got' = IF call = "history"
              THEN Append(got, [seq |-> Head(todo), file |-> Nothing])
              ELSE got
    /\ UNCHANGED <<database, sunk, lacking, call, options, step, record, base, reading, late>>

\* The walk comes to a file and asks for it.  Only the loops of clear() and
\* del() wait for the answer before they go on.
Ask ==
    /\ step = "walking" /\ todo # << >>
    /\ call # "history" => reading = {}
    /\ RecordType(Head(todo)) = "file"
    /\ reading' = reading \cup {Head(todo)}
    /\ todo' = Tail(todo)
    /\ UNCHANGED <<database, sunk, lacking, call, options, step, record, base, late, got>>

\* The answer to one of the questions, in any order: history() pushes what it
\* gets, the others clear it.
Answer ==
    /\ step = "walking"
    /\ \E k \in reading :
          /\ Readable(k) /\ GetBySeq(k) # Nothing
          /\ reading' = reading \ {k}
          /\ got' = Append(got, [seq |-> k, file |-> GetBySeq(k)])
    /\ UNCHANGED <<database, sunk, lacking, call, options, step, record, base, todo, late>>

\* A question comes to nothing: the block is not held, there is none of that
\* number or no entry in it, it is that of a deleted key (1094), or the push
\* comes after the end.
Fail ==
    /\ \E k \in reading :
          /\ Readable(k) /\ GetBySeq(k) # Nothing => k \in lacking \/ step = "ended"
          /\ reading' = reading \ {k}
    /\ UNCHANGED <<database, sunk, lacking, call, options, step, record, base, todo, late, got>>

\* In history() nobody catches an error of getBySeq (1093): where unhandled
\* rejections are not handled by the host, the process ends.
Crash ==
    /\ call = "history"
    /\ \E k \in reading : ~Readable(k)
    /\ step' = "crashed"
    /\ todo' = << >> /\ reading' = {} /\ late' = {}
    /\ UNCHANGED <<database, sunk, lacking, call, options, record, base, got>>

\* The end of the stream: history() does not wait for what is missing.
End ==
    /\ step = "walking" /\ todo = << >>
    /\ call # "history" => reading = {}
    /\ step' = "ended"
    /\ late' = reading
    /\ UNCHANGED <<database, sunk, lacking, call, options, record, base, todo, reading, got>>

-----------------------------------------------------------------------------
Init ==
    /\ line = <<EmptyView(Drives)>> /\ undos = 0 /\ sunk = 0 /\ lacking = {}
    /\ call = "none" /\ options = [reverse |-> FALSE, history |-> FALSE]
    /\ step = "idle" /\ record = 0
    /\ base = EmptyView(Drives)
    /\ todo = << >> /\ reading = {} /\ late = {} /\ got = << >>

Next ==
    \/ Write \/ Undo
    \/ \E b \in BOOLEAN : History(b) \/ Del(b)
    \/ Clear \/ Walk \/ Reject \/ Tombstone \/ Ask \/ Answer \/ Fail
    \/ Crash \/ End

Spec == Init /\ [][Next]_vars

-----------------------------------------------------------------------------
(***************************************************************************)
(* Properties.                                                             *)
(***************************************************************************)
\* The variables have their types.
TypeOK ==
    /\ Len(line) >= 1 /\ \A i \in DOMAIN line : ViewType(line[i])
    /\ sunk \in Nat
    /\ call \in {"none", "history", "clear", "del"}
    /\ step \in {"idle", "checking", "walking", "ended", "crashed"}
    /\ \A i \in DOMAIN todo : todo[i] \in Nat \ {0}
    /\ lacking \cup late \cup reading \subseteq Nat
    /\ \A i \in DOMAIN got : got[i].seq \in Nat /\ got[i].file \in Nodes \cup {Nothing}

\* What a number stood for when the stream was opened.
Truth(k) == IF RecordType(k) = "tombstone" THEN Nothing ELSE base.blocks[k].node

Yields(k) == {i \in DOMAIN got : got[i].seq = k}
Files == {k \in DOMAIN base.history[Path] : RecordType(k) = "file"}

\* Whatever is applied during the walk: unless the database was undone below
\* its number, what is yielded or cleared for a version is that version of
\* the path, never another file's data.
VersionsAreOfThePath ==
    step \in {"walking", "ended"} =>
        \A i \in DOMAIN got :
            got[i].seq <= sunk /\ got[i].seq \in DOMAIN base.history[Path] =>
                got[i].file = Truth(got[i].seq)

\* clear(path, { history: true }) and del() with both options reach every
\* version on record whose block the replica held when the call began, those
\* before a deletion and those of a path in conflict too, unless it was undone.
\* What is not held "will return null" (README 184), and stays uncleared.
EveryVersionIsCleared ==
    step = "ended" /\ call \in {"clear", "del"} /\ options.history
    => \A k \in Files : k <= sunk /\ k \notin lacking => Yields(k) # {}

\* history() yields every version on record once, in whatever order, if all
\* were there before its stream ended and nothing was undone.
EveryVersionIsYielded ==
    step = "ended" /\ call = "history" /\ late = {} =>
        \A k \in DOMAIN base.history[Path] : k <= sunk => Cardinality(Yields(k)) = 1

\* "Starts at the current version and goes backwards" (README 245).
HistoryGoesBackwards ==
    call = "history" /\ ~options.reverse =>
        \A i, j \in DOMAIN got : i < j => got[i].seq > got[j].seq
=============================================================================
