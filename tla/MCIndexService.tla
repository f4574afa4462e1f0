--------------------------- MODULE MCIndexService ---------------------------
(***************************************************************************)
(* Instances of IndexService for TLC: two labels are two sides of a fork.    *)
(***************************************************************************)
EXTENDS IndexService

CONSTANTS x, y
=============================================================================
