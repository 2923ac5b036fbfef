------------------------------- MODULE Readdir -------------------------------
(***************************************************************************)
(* readdir(folder) and list(folder, { recursive: false }): the stream of   *)
(* shallowReadStream (src/src/index.ts 1384-1434).  Each read peeks at the *)
(* first file after where the last one stopped, in the database as it is   *)
(* then, pushes the name that follows the folder, and skips what lies      *)
(* below a directory by a bound just past it.  Writers go on meanwhile.    *)
(*                                                                         *)
(* A key is the sequence of its character codes after the folder's own     *)
(* path, so the keys in the folder begin with a slash.                     *)
(***************************************************************************)
EXTENDS Naturals, Sequences, FiniteSets

CONSTANT Keys   \* the keys files may have, as sequences of character codes

Slash == 47
Zero == 48      \* "0 is binary +1 of /" (1358)

ASSUME KeysAssumption == Keys \subseteq Seq(Nat) /\ << >> \notin Keys

VARIABLES
    files,      \* the keys of the database
    prev,       \* where the next read goes on
    prevName,   \* the last name pushed
    pushed,     \* what the stream has delivered
    ended,      \* whether push(null) has been called
    always,     \* the keys that were there from the first read on
    ever        \* the keys that were there at some time since

vars == <<files, prev, prevName, pushed, ended, always, ever>>

-----------------------------------------------------------------------------
(***************************************************************************)
(* Names and bounds.                                                       *)
(***************************************************************************)
\* The path below the folder, and where in it a directory ends.
Suffix(k) == SubSeq(k, 2, Len(k))
Slashes(k) == {i \in DOMAIN Suffix(k) : Suffix(k)[i] = Slash}
InDirectory(k) == Slashes(k) # {}

Name == [k \in Keys |->
    IF InDirectory(k)
    THEN SubSeq(Suffix(k), 1, (CHOOSE i \in Slashes(k) : \A j \in Slashes(k) : i <= j) - 1)
    ELSE Suffix(k)]

InFolder(k) == k[1] = Slash

\* Paths are normal (std(), 1345-1351): no name in them is empty.
ASSUME NamesAssumption == \A k \in Keys : InFolder(k) => Name[k] # << >>

FileBound(k) == <<Slash>> \o Name[k]
DirectoryBound(k) == <<Slash>> \o Name[k] \o <<Zero>>

\* "/" + name + (i === -1 ? "" : "0")
Bound(k) == IF InDirectory(k) THEN DirectoryBound(k) ELSE FileBound(k)

\* The bound moved only for a name that is new.
BoundIfNew(k) == IF Name[k] = prevName THEN prev ELSE Bound(k)

\* prev = "/" + ..., before the name is compared with the last one
Advance(k) == Bound(k)

\* The order of a Hyperbee: byte by byte.
Below(s, t) ==
    \E i \in DOMAIN t :
        /\ \A j \in 1 .. i - 1 : j \in DOMAIN s /\ s[j] = t[j]
        /\ i \in DOMAIN s => s[i] < t[i]

Bounds == {<<Slash>>} \cup {FileBound(k) : k \in Keys} \cup {DirectoryBound(k) : k \in Keys}

\* All that follows a bound, the rest of the drive included.
BeyondToTheEnd == [s \in Bounds |-> {k \in Keys : Below(s, k)}]

\* What lies between a bound and the end of the folder.
Beyond == [s \in Bounds |-> {k \in Keys : Below(s, k) /\ Below(k, <<Zero>>)}]

\* prefixRange(folder, prev)
PrefixRange(from) == Beyond[from] \cap files

\* db.peek(range): the first file of the range.
Following == [k \in Keys |-> {j \in Keys : Below(k, j)}]
Peek(S) == CHOOSE k \in S : S \subseteq Following[k] \cup {k}

-----------------------------------------------------------------------------
Init ==
    /\ files \in SUBSET Keys /\ IsFiniteSet(files)
    /\ prev = <<Slash>> /\ prevName = << >>
    /\ pushed = << >> /\ ended = FALSE
    /\ always = files /\ ever = files

\* One read of the stream.
Read ==
    /\ ~ended
    /\ IF PrefixRange(prev) = {}
       THEN /\ ended' = TRUE
            /\ UNCHANGED <<prev, prevName, pushed>>
       ELSE LET k == Peek(PrefixRange(prev))
            IN  /\ prev' = Advance(k)
                /\ prevName' = Name[k]
                /\ pushed' = IF Name[k] = prevName THEN pushed ELSE Append(pushed, Name[k])
                /\ UNCHANGED ended
    /\ UNCHANGED <<files, always, ever>>

\* The database changes under the stream: a file comes or goes.
Update ==
    /\ ~ended
    /\ \E k \in Keys :
          /\ files' = IF k \in files THEN files \ {k} ELSE files \cup {k}
          /\ always' = always \cap files'
          /\ ever' = ever \cup files'
    /\ UNCHANGED <<prev, prevName, pushed, ended>>

Next == Read \/ Update

Spec == Init /\ [][Next]_vars

\* A stream that is consumed goes on reading.
FairSpec == Spec /\ WF_vars(Read)

-----------------------------------------------------------------------------
(***************************************************************************)
(* Properties.                                                             *)
(***************************************************************************)
\* The variables have their types: what is listed was in the folder.
TypeOK ==
    /\ files \subseteq Keys /\ always \subseteq files /\ files \subseteq ever
    /\ ever \subseteq Keys
    /\ \A i \in DOMAIN pushed : \E k \in ever : InFolder(k) /\ Name[k] = pushed[i]
    /\ ended \in BOOLEAN

Listed(name) == \E i \in DOMAIN pushed : pushed[i] = name

\* What a name is among the keys S.
Directory(S, name) == \E k \in S : InFolder(k) /\ InDirectory(k) /\ Name[k] = name
FileNamed(S, name) == <<Slash>> \o name \in S

\* The bound past a directory is also the key of a file: "d0" beside "d/".
HiddenBy(S, k) == \E d \in S : InFolder(d) /\ InDirectory(d) /\ DirectoryBound(d) = k

\* Nothing that stays is passed over: whoever is in the folder for as long as
\* the listing takes is listed, however the rest changes, except for a file
\* whose key is the bound past a directory.
NothingPassedOver ==
    ended => \A k \in always :
                InFolder(k) /\ ~HiddenBy(ever, k) => Listed(Name[k])

\* No name is listed twice, however directories and files come and go, unless
\* it was the name of both.
NamesListedOnce ==
    \A i, j \in DOMAIN pushed :
        pushed[i] = pushed[j] /\ i # j =>
            Directory(ever, pushed[i]) /\ FileNamed(ever, pushed[i])

\* Every read goes on strictly behind the last one, or ends the listing: no
\* read comes to a key twice, whatever is put in between.
ReadsMoveOn == [][Read => ended' \/ Below(prev, prev')]_vars

\* The listing ends once the folder stops changing.  (A writer that goes on
\* adding names ahead of the stream, of which there are infinitely many, keeps
\* it going for as long: db.peek (1407) looks at the live database.)
ListingEnds == <>[][UNCHANGED files]_vars => <>ended

\* List filenames of entries at given folder (README 232-234).
EveryNameListed ==
    ended => \A k \in always : InFolder(k) => Listed(Name[k])
=============================================================================
