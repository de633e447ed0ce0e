-------------------------- MODULE MCConcurrentSaves --------------------------
(***************************************************************************)
(* ConcurrentSaves for TLC: two --update-baseline jobs racing a check.    *)
(* The document found at start is three buffer flushes long; the new     *)
(* documents are shorter (two and one), so a shorter write over a longer  *)
(* one, and a short last chunk over a full one, are both possible.        *)
(***************************************************************************)
EXTENDS ConcurrentSaves, TLC

CONSTANTS s1, s2, c1   \* model values: saving and checking jobs

TwoSavesJobs == {s1, s2, c1}
TwoSaves == {s1, s2}

MCDocLen == (Prev :> 3) @@ (s1 :> 2) @@ (s2 :> 1)
=============================================================================
