------------------------------- MODULE MCGossip -------------------------------
(* Peer mode with two nodes, or three of which Hub is connected to the      *)
(* others, and one object, which the workers of some of the nodes compute.  *)
EXTENDS GossipProps

CONSTANTS Workers, Hub

Star == {l \in Nodes \X Nodes : l[1] # l[2] /\ Hub \in {l[1], l[2]}}

MCWorks == Workers \X Objects

=============================================================================
