------------------------------- MODULE Totals -------------------------------
(***************************************************************************)
(* What the numbers of a list come to, as the code's reduce adds them up.      *)
(***************************************************************************)
EXTENDS Integers, Sequences

AddUp(s) == LET upTo[k \in 0 .. Len(s)] == IF k = 0 THEN 0 ELSE upTo[k - 1] + s[k] IN upTo[Len(s)]
=============================================================================
