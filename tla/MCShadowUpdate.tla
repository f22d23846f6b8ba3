--------------------------- MODULE MCShadowUpdate ---------------------------
(***************************************************************************)
(* Small instances of ShadowUpdate.                                        *)
(***************************************************************************)
EXTENDS ShadowUpdate, TLC

CONSTANTS root, lab, h1, h2, tail0, tail1, tail2

\* A user with two lines, the second without aging fields, and a user with none:
\* replacing every line, keeping or supplying the aging fields and appending a
\* missing line all happen.
MCTwoLines == { << NewLine(lab, h1, tail2), NewLine(lab, h2, tail0) >> }

\* The usual file: one line per account.
MCOneLine == { << NewLine(root, h1, tail1) >> }

\* Processes and inodes are interchangeable; used in the safety run only.
Symmetry == Permutations(Procs) \cup Permutations(Inodes)
=============================================================================
