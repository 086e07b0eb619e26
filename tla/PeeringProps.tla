----------------------------- MODULE PeeringProps -----------------------------
(***************************************************************************)
(* The properties of the TCP peering manager.                              *)
(***************************************************************************)
EXTENDS Peering

Served == {"added", "reading"}

\* The manager's data keep their types; a connection has an ID from the moment
\* it is made on, a socket from the moment it is opened on, and is in the
\* finite table only while it is served.
TCPTypeOK ==
    /\ stage \in [Conns -> Stage]
    /\ socket \in [Conns -> {"none", "open", "shut", "closed"}]
    /\ id \in [Conns -> TCPIds]
    /\ \A c \in Conns : /\ socket[c] = "none" <=> stage[c] = "none"
                        /\ id[c] = NoTCPId <=> stage[c] \in {"none", "open"}
    /\ clock \in Nat
    /\ tcpPeers \in SUBSET Conns
    /\ IsFiniteSet(tcpPeers)
    /\ \A c \in tcpPeers : stage[c] \in Served
    /\ said \in [Conns -> {"nothing", "connected", "message", "closed"}]
    /\ accepting \in BOOLEAN
    /\ tcpStop \in {"no", "closing", "waiting", "returned"}
    /\ found \in SUBSET Conns

\* No other connection was ever given the ID of c.
Alone(c) == \A d \in Conns \ {c} : id[d] # id[c]

\* IDs are made from the clock and from len(m.peers), which is read without
\* the lock (peering.go:143, 175), so two connections may get the same.  The
\* damage is confined to those two: a connection whose ID no other has is in
\* the table exactly while it is served, whoever else is added or removed, and
\* its socket is closed when it ends.
OwnIdIsEnough ==
    \A c \in Conns : Alone(c) =>
        /\ c \in tcpPeers <=> stage[c] \in Served
        /\ stage[c] \in {"removed", "ended"} => socket[c] = "closed"

\* When Stop has returned no accepted connection is served any more, and none
\* ever will be: acceptLoop and its goroutines are counted before they start.
\* Dial starts a counted goroutine only after it has announced its peer, so
\* that what Dial opened may outlive Stop (peering.go:178-180, 296).
OnlyDialsOutliveStop ==
    tcpStop = "returned" =>
        /\ ~accepting
        /\ \A c \in Inbound : stage[c] \in {"none", "ended"}

\* The events of a connection come in the order of its life: connected,
\* messages, closed, and nothing afterwards (peering.go:146-166, 178-202),
\* though they come from two goroutines when the connection was dialled.
EventsInOrder ==
    [][\A c \in Conns :
          said'[c] # said[c] =>
              \/ said'[c] = "connected" /\ said[c] = "nothing"
              \/ said'[c] = "message" /\ said[c] = "connected"
              \/ said'[c] = "closed" /\ said[c] \in {"connected", "message"}]_tcpVars

-----------------------------------------------------------------------------
(* Liveness, under FairSpec *)

\* Stop closes the peers it finds in the table and waits for all goroutines.
\* If it does not return, then because of a connection that it did not find,
\* since that was added later or had lost its entry to one of the same ID, and
\* that the remote peer keeps open (peering.go:291-296).
StopWaitsForStrangersOnly ==
    tcpStop = "closing"
    ~> \/ tcpStop = "returned"
       \/ [](/\ tcpStop = "waiting"
             /\ \E c \in Conns \ found : stage[c] \in Served /\ socket[c] = "open")

=============================================================================
