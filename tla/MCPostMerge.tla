----------------------------- MODULE MCPostMerge -----------------------------
EXTENDS PostMerge, TLC

CONSTANTS t1, t2, f1, f2

(* Two rows for one pull request, left by a tenant that lost the             *)
(* installation and by the one that has it.                                  *)
MCOwnerOf == f1 :> t1 @@ f2 :> t2

Symmetry == Permutations(Requests) \cup Permutations(Keys)
===============================================================================
