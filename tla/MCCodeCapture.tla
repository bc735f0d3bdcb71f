--------------------------- MODULE MCCodeCapture ---------------------------
(***************************************************************************)
(* Model values for CodeCapture: two keys besides Return and Escape, a     *)
(* ring of four slots and codes of at most two steps.                      *)
(***************************************************************************)
EXTENDS CodeCapture

CONSTANTS a, b, ret, esc, old
=============================================================================
