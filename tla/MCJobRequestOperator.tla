------------------------- MODULE MCJobRequestOperator -------------------------
(***************************************************************************)
(* The operator with model values for its names.  The configurations give  *)
(* the sets of names and the bounds; names are interchangeable, which      *)
(* Symmetry tells TLC where only safety is checked.                        *)
(***************************************************************************)
EXTENDS LifecycleRefinement, TLC

Symmetry == Permutations(Reviews) \cup Permutations(Users)
=============================================================================
