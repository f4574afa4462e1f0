--------------------------- MODULE MCMintPipeline ---------------------------
(***************************************************************************)
(* Instances of MintPipeline for TLC.                                       *)
(***************************************************************************)
EXTENDS MintPipeline

CONSTANTS m1, m2, p1, a, b, reaper, sweep, none
=============================================================================
