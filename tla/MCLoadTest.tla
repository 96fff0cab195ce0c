----------------------------- MODULE MCLoadTest -----------------------------
(* Constant values for the TLC runs of LoadTest. *)
EXTENDS LoadTest, TLC

CONSTANTS t1, t2

\* Tests differ in nothing but their names.
Alike == Permutations(Tests)
=============================================================================
