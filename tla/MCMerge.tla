-------------------------------- MODULE MCMerge --------------------------------
(* Merging with two goroutines, few objects and few results.                *)
EXTENDS MergeProps, TLC

Symmetry == Permutations(Objects) \cup Permutations(Results) \cup Permutations(Writers)

=============================================================================
