---------------------------- MODULE MCAutodrive ----------------------------
(***************************************************************************)
(* Constants for the runs of Autodrive.                                    *)
(***************************************************************************)
EXTENDS AutodriveRefines

CONSTANTS a, b   \* two drives

\* No namespace() option: one namespace for all (index.ts 1380).
Shared == [d \in Drives |-> "shared"]

\* namespace = (key) => key, as in the "namespacing" test.
Own == [d \in Drives |-> d]
=============================================================================
