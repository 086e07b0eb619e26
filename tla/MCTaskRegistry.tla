---------------------------- MODULE MCTaskRegistry ----------------------------
(* The task registry with few tasks, owners and goroutines.                 *)
EXTENDS TaskRegistryProps

=============================================================================
