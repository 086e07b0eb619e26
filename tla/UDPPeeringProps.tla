---------------------------- MODULE UDPPeeringProps ----------------------------
(***************************************************************************)
(* The properties of the UDP peering manager.                              *)
(***************************************************************************)
EXTENDS UDPPeering

\* The manager's data keep their types.
TypeOK ==
    /\ made \in 0..MaxPeers
    /\ addr \in [Ids -> Addrs]
    /\ peers \in SUBSET (1..made)
    /\ addrToPeer \in [Addrs -> {NoId} \cup Ids]
    /\ old \in SUBSET Ids
    /\ reading \in SUBSET [from : Addrs, peer : 0..made, new : BOOLEAN]
    /\ \A r, s \in reading : r = s
    /\ dialing \in SUBSET (1..made)
    /\ evicted \in SUBSET (1..made)
    /\ told \in [Ids -> SUBSET Kinds]
    /\ after \in [Ids -> Nat]
    /\ loops \in SUBSET Loops
    /\ stop \in {"no", "waiting", "returned"}

\* m.peers and m.addrToPeer hold the same peers, one per address, although
\* Dial, readLoop and timeoutLoop insert and delete concurrently (udp.go:114-129,
\* 164-166, 257-258).  Otherwise a peer would be written to twice, or be
\* flushed and never be found by its datagrams.
TablesAgree ==
    /\ \A p \in peers : addrToPeer[addr[p]] = p
    /\ \A a \in Addrs : addrToPeer[a] # NoId =>
          addrToPeer[a] \in peers /\ addr[addrToPeer[a]] = a

\* Every peer that was ever made is announced, or the goroutine that made it
\* is about to; it is in the table, or was announced as closed, or timeoutLoop
\* is about to, and never two of these (udp.go:120, 168, 262).
NobodyVanishes ==
    \A p \in 1..made :
        /\ \/ "connected" \in told[p]
           \/ p \in dialing
           \/ \E r \in reading : r.peer = p /\ r.new
        /\ \/ p \in peers /\ p \notin evicted /\ "closed" \notin told[p]
           \/ p \notin peers /\ (p \in evicted <=> "closed" \notin told[p])

\* Messages of a peer that was announced as closed: readLoop looks a peer up
\* under the lock and emits the message without it, so that one may follow
\* (udp.go:164, 189), but not a second.
OneLastWord ==
    \A p \in Ids : after[p] <= 1

=============================================================================
