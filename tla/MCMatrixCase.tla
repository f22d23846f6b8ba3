---------------------------- MODULE MCMatrixCase ----------------------------
(***************************************************************************)
(* Small instances of MatrixCase.                                          *)
(***************************************************************************)
EXTENDS MatrixCase

CONSTANTS a, b

\* No needle, a plain one, and one that begins again within itself.
MCNeedles == { <<>>, <<a, b>>, <<a, a, b>> }

\* A case that looks for no text.
MCNoNeedle == { <<>> }
=============================================================================
