------------------------------ MODULE MCReaddir ------------------------------
(***************************************************************************)
(* Keys for the runs of Readdir: a file and a directory of one name, the   *)
(* characters on both sides of the slash, and neighbours of the folder.    *)
(***************************************************************************)
EXTENDS Readdir

CONSTANTS Dash, A, B   \* character codes

FewKeys == {
    <<Slash, A>>,               \* /a
    <<Slash, A, Dash>>,         \* /a-
    <<Slash, A, Slash, A>>,     \* /a/a
    <<Slash, A, Slash, B>>,     \* /a/b
    <<Slash, A, Zero>>,         \* /a0
    <<Slash, B>>,               \* /b
    <<Zero>>                    \* the folder's own name and a 0
}
=============================================================================
