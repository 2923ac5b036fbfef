---------------------------- MODULE MCHistoryWalk ----------------------------
(***************************************************************************)
(* Constants for the runs of HistoryWalk.                                  *)
(***************************************************************************)
EXTENDS HistoryWalk, TLC

CONSTANTS a, b   \* two drives, one like the other

Symmetry == Permutations(Drives)

Shared == [d \in Drives |-> "shared"]

\* Everything may happen at the path that is walked; another path is written.
SomeOps == {Addition("f"), Deletion("f"), Addition("g")}
=============================================================================
