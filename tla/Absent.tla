------------------------------- MODULE Absent -------------------------------
(* What a field holds that the program leaves null or does not have.        *)
CONSTANT None
=============================================================================
