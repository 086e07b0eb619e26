----------------------------- MODULE MCProjector -----------------------------
(* The projection with one or two objects and sessions and one tag.         *)
EXTENDS ProjectorProps

=============================================================================
