---------------------------- MODULE MCReviewTimes ----------------------------
(***************************************************************************)
(* The operator with its histogram and its refinement, with model values   *)
(* for names.                                                              *)
(***************************************************************************)
EXTENDS ReviewTimes, LifecycleRefinement, TLC

Symmetry == Permutations(Reviews) \cup Permutations(Users)
=============================================================================
