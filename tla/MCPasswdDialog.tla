--------------------------- MODULE MCPasswdDialog ---------------------------
(***************************************************************************)
(* Small instances of PasswdDialog.                                        *)
(***************************************************************************)
EXTENDS PasswdDialog

CONSTANTS lab, old, fresh

MCInitDb == [u \in Users |-> <<old>>]

\* Every script of two or three lines.
MCScripts == [1..2 -> Words] \cup [1..3 -> Words]
=============================================================================
