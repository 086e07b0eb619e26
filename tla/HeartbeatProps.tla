---------------------------- MODULE HeartbeatProps ----------------------------
(***************************************************************************)
(* The properties of the heartbeats between two UDP peering managers.      *)
(***************************************************************************)
EXTENDS Heartbeat

\* The state keeps its types, and no end goes on knowing a silent one: it is
\* evicted at the latest in the second check after the timeout.
HeartTypeOK ==
    /\ running \in SUBSET Ends
    /\ knows \in SUBSET running
    /\ age \in [Ends -> 0..(Timeout + 1)]
    /\ beat \in [Ends -> 0..BeatEvery]
    /\ checked \in SUBSET Ends
    /\ net \in SUBSET (Ends \X {"ping", "pong"})
    /\ lost \in [Ends -> 0..MaxLost]
    /\ strange \in SUBSET Ends

\* Of two ends that are up and know each other, one evicts the other only when
\* the network has lost at least four datagrams between them since it last
\* heard of it: in thirty seconds each sends at least two heartbeats that have
\* time enough to arrive and to be answered (udp.go:14-18, 181-187, 230-246).
LossesAreTolerated ==
    [][\A e \in Ends :
          e \in knows \ knows' /\ e \in running'
          => e \in strange \/ lost[e] >= 4]_heartVars

\* Under FairSpec: once both ends stay up, the link is mutual again and again,
\* because one end that knows the other makes itself a peer of it, whether that
\* has evicted it or was started anew (udp.go:163-172) -- or both ends have
\* evicted each other, and then nobody ever sends again, since peers are only
\* dialled at the start.
LinkHealsOrDies ==
    <>[](running = Ends) => []<>(knows = Ends) \/ <>[](knows = {})

=============================================================================
