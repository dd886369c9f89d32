--------------------------- MODULE MCConstructor ---------------------------
(***************************************************************************)
(* All knobs and addresses of a machine with small words.                  *)
(***************************************************************************)
EXTENDS Constructor

\* Address widths up to that of the word.
UpToAWord == 0 .. Width
=============================================================================
