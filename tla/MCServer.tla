------------------------------- MODULE MCServer -------------------------------
(* Server mode with one task, which has all the tags, and few sessions.     *)
EXTENDS ServerProps, TLC

MCTaskTags == [t \in Tasks |-> Tags]

Symmetry == Permutations(TCP)

=============================================================================
