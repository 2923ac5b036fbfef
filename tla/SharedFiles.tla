----------------------------- MODULE SharedFiles -----------------------------
(***************************************************************************)
(* What an Autodrive promises to those who share it, without databases,    *)
(* block numbers, heads or sessions.                                       *)
(*                                                                         *)
(* There is a growing set of written requests.  Every replica goes through *)
(* a line of states of the file system, each obtained from the one before  *)
(* by taking up one request, none twice; it may go back to an earlier      *)
(* state of its line and continue from there.  Taking up a request, a      *)
(* replica accepts it, finds it in dispute, or refuses it, and what it may *)
(* choose depends on the path alone:                                       *)
(*   - what is undisputed is only refused to strangers and for deletions   *)
(*     that have nothing to delete, and only disputed among two authors;   *)
(*   - what is disputed stays as it is, until it is settled as a whole;    *)
(*   - accepted versions are never lost nor reordered, and the last one is *)
(*     the file.                                                           *)
(***************************************************************************)
EXTENDS Naturals, Sequences

CONSTANTS
    Drives,     \* the replicas, and the authors of requests
    Paths,
    Namespace,  \* authors of one namespace may write each other's files
    Nobody      \* no author and no request

VARIABLES
    written,    \* requests, each with the name <<author, number>> it goes by
    line        \* line[r]: the states of replica r, the last one being its own

vars == <<written, line>>

Requests ==
    [kind : {"write", "delete"}, path : Paths]
        \cup [kind : {"settle"}, path : Paths, file : BOOLEAN]
        \cup [kind : {"membership"}]

\* A version is a file, named by its request, or the absence of one.
File(n) == [author |-> n[1], file |-> n]
Gone(n) == [author |-> n[1], file |-> Nobody]

Blank == [file |-> Nobody, versions |-> << >>, rivals |-> {}]

Last(s) == s[Len(s)]
Strange(f, w) == \E i \in DOMAIN f.versions :
                    Namespace[f.versions[i].author] # Namespace[w]
Foreign(f, w) == f.versions # << >> /\ Last(f.versions).author # w
Disputed(f) == f.rivals # {}

-----------------------------------------------------------------------------
(***************************************************************************)
(* What may become of a path f by a request named n.                       *)
(***************************************************************************)
Changed(f, version) ==
    [file |-> version.file, versions |-> Append(f.versions, version), rivals |-> {}]

Contested(f, n) == [f EXCEPT !.rivals = @ \cup {n}]

Accepting(f, n, version) ==
    {g \in {Changed(f, version)} : ~Strange(f, n[1]) /\ ~Disputed(f)}

Disputing(f, n) ==
    {g \in {Contested(f, n)} : ~Strange(f, n[1]) /\ (Disputed(f) \/ Foreign(f, n[1]))}

\* There is nothing to delete.
Empty(f) == f.versions = << >> \/ Last(f.versions).file = Nobody

Refusing(f, n) == {g \in {f} : Strange(f, n[1])}

Outcomes(f, n, q) ==
    CASE q.kind = "write" ->
            Accepting(f, n, File(n)) \cup Disputing(f, n) \cup Refusing(f, n)
      [] q.kind = "delete" ->
            IF Empty(f) THEN {f}
            ELSE Accepting(f, n, Gone(n)) \cup Disputing(f, n) \cup Refusing(f, n)
      [] q.kind = "settle" ->
            IF f.versions = << >> THEN {f}
            ELSE {g \in {Changed(f, IF q.file THEN File(n) ELSE Gone(n))} : ~Strange(f, n[1])}
                    \cup Refusing(f, n)

\* What may become of the whole file system.
Successors(fs, n, q) ==
    IF q.kind = "membership" THEN {fs}
    ELSE {[fs EXCEPT ![q.path] = f] : f \in Outcomes(fs[q.path], n, q)}

-----------------------------------------------------------------------------
Init ==
    /\ written = {}
    /\ line = [r \in Drives |-> <<[by |-> Nobody, files |-> [p \in Paths |-> Blank]]>>]

\* Requests are written, each under a name of its own.
Write ==
    /\ written \subseteq written'
    /\ \A e \in written' \ written :
          /\ e.request \in Requests
          /\ \A d \in written' : d.name = e.name => d = e
    /\ UNCHANGED line

\* Replica r takes up a request it has not taken up.
Take(r) ==
    /\ \E e \in written :
          /\ \A i \in DOMAIN line[r] : line[r][i].by # e.name
          /\ \E fs \in Successors(Last(line[r]).files, e.name, e.request) :
                line' = [line EXCEPT ![r] = Append(@, [by |-> e.name, files |-> fs])]
    /\ UNCHANGED written

\* Replica r goes back.
Return(r) ==
    /\ \E k \in DOMAIN line[r] : line' = [line EXCEPT ![r] = SubSeq(@, 1, k)]
    /\ UNCHANGED written

Next == Write \/ \E r \in Drives : Take(r) \/ Return(r)

Spec == Init /\ [][Next]_vars
=============================================================================
